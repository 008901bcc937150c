# A verification project for samlibs

samlibs is a C library for Microchip SAM microcontrollers: drivers for the
serial communication units (USART, SPI, I2C), a DMX512/RDM port, network
interfaces for FreeRTOS+TCP, and small helpers for clocks, pins and timers.
Most drivers have the same structure. A task, or a callback, starts an
operation by storing to shared variables and device registers; an interrupt
routine carries it on, byte by byte; a task notification, a queue or a status
mark says that it is over. What is hard to test is the order of those steps,
and it is what the modules here are about.

Run everything from this directory:

    tlc -workers 2 -config DmxCallback.cfg MCDmxPort.tla
    tlapm DmxPort_proofs.tla

## 1. Inventory

Each row names what a component keeps, what it does, and what is hard about it.
The same list, with the reason for every part that is not modelled, is in
`PROJECT.json` under "components".

| Component | State | Operations and callers | Hard parts |
|---|---|---|---|
| DMX/RDM port, `dmx/dmx.c` | buffers with read/written/valid marks, receive and transmit state machines, pin, interrupt enables | interrupt handler (receive and transmit), application callback, `xDmxSendFrame` from tasks | one buffer may be received and sent; marks written by both sides; check and set of `txState` are apart; overflow; sizes |
| RS485, `comm/rs485.c` | message with index and size, receive buffer and queue, TXEN, pin, interrupt enables | `xRs485SendMessage` (a task), interrupt handler, other stations | first byte sent before the interrupt is armed; TXC left over; time-out; framing by counting |
| Queued I2C master, `comm/i2c_interrupt.c` | transaction queue, current transaction, bus state, enabled interrupts, notification | tasks that queue transactions, driver task, two interrupt routines, bus | late answers; pointer into another task's data; pending flags and notifications |
| Blocking I2C master, `comm/i2c.c`, and `comm/devices/at24mac.c` | registers only | read and write of bytes, addresses | early returns that leave the bus owned; return values; unbounded polling |
| SPI shift registers, `comm/devices/spi_shiftregisters.c` | indices and sizes of an exchange, interrupt enables, latch pin | polling and asynchronous exchange, interrupt handler | reads and writes paired by counting; TXC tested without its enable bit; pulses of the latch between the bytes |
| Network buffers, `BufferAllocation_2.c` and `samx5xmac_buffers.c` | list of free descriptors, a semaphore that counts them, memory on each descriptor | get, release, resize, and blocks without a descriptor, from every task and driver | list and semaphore change in two steps; memory runs out in the middle; a stale pointer on a free descriptor |
| SAMx5x MAC, `samx5xmac.c` | receive and transmit descriptor rings shared with the MAC, NCR, link state | deferred receive task, output from the IP task, interrupt handler, PHY task | one word shared with the hardware; search from index 0; exhausted pool; interrupt that stops the transmitter; lost update of NCR |
| PHYs, `phy_generic.c`, `ksz9893.c`, `phyHandling.c` | link state of the ports | maintenance task | both ports change together; a notification between IP task and PHY task |
| ENC28J60, `ENC28J60/*.c` | selected bank and its cache, next packet pointer, SPI semaphore, link | initialisation with retries, NIC task, output from the IP task | cached bank across a reset; semaphore on early returns; receive pointer; link that changes while it is read |
| SERCOM helpers, clocks, events, external interrupts, interrupt table, pins, timers, logic, debug output, utilities | registers | set-up calls | sequential; some arithmetic worth checking as pure functions |
| FreeRTOS kernel, FreeRTOS+TCP | | vendored | only their notifications and queues appear here, as used |

What makes each modelled component correct:

* DMX port: it always has a buffer to receive into; marks never leak; bytes
  stay inside frames; a frame being sent is not received into; a transmission
  ends and gives the pin back; a damaged frame is not delivered.
* RS485: a successful call has sent the whole message and released the bus; a
  call comes back; what reaches the queue is one whole frame.
* Queued I2C master: a successful transaction was transferred completely;
  nothing is stored behind `pcData`; an answered transaction is left alone;
  everybody is answered.
* Network buffers: the head of the list exists for whoever took the semaphore;
  descriptors and blocks are neither lost nor owned twice; a call looks like
  one step from outside.
* MAC, receiving: a block is the MAC's, the task's or the stack's; no filled
  descriptor is forgotten or taken twice; frames leave room in the event queue
  for everything else. (That the pool never runs dry is not among them: no build
  guarantees it, see section 4.)
* MAC, sending: a block on the ring is nobody else's until it was sent.
* MAC and PHY: a link that stays up brings the network up; driver, receiver and
  ports agree on it.
* SPI: the task that is notified has the whole message; the latch shows whole
  messages; an exchange ends.
* ENC28J60: controller and driver agree on the link and on the next packet; an
  initialisation fails for want of a controller only.

## 2. Modules

| Module | Content |
|---|---|
| `DmxPort` | `src/dmx/dmx.c`, one port |
| `MCDmxPort` | its bounded instances, five configurations |
| `DmxPort_proofs` | theorems about it |
| `Rs485` | `src/comm/rs485.c`, interrupt-driven sending and receiving, with the USART's two registers and the other stations |
| `MCRs485`, `Rs485_proofs` | instances and theorems |
| `I2cInterrupt` | `src/comm/i2c_interrupt.c`, driver task, queue, interrupt routines and bus |
| `MCI2cInterrupt`, `I2cInterrupt_proofs` | instances and theorems |
| `BufferPool` | abstract: what a pool of network buffers promises its users |
| `NetworkBuffers` | the two files that implement it, every call step by step; `ImplementsPool` is the refinement |
| `MCNetworkBuffers`, `NetworkBuffers_proofs` | instance and theorems, the refinement among them |
| `SamMacRx` | `samx5xmac.c`, receive ring and deferred task; `RxPool` sees its exchanges as steps of `BufferPool` |
| `SamMacTx` | `samx5xmac.c`, transmit ring, output function, transmit interrupt |
| `SamMacLink` | `samx5xmac.c` initialisation and link changes, `prvProcessNetworkDownEvent`, the tasks of `phy_generic.c` and `ksz9893.c` |
| `SpiShift` | `spi_shiftregisters.c` with the SERCOM's data registers |
| `Enc28j60` | `ENC28J60/NetworkInterface.c` and the bank cache of `enc28j60.c` |
| `MCDrivers` | one bounded instance of the five modules above |
| `SamMacRx_proofs`, `SamMacTxLink_proofs` | theorems about the three parts of the MAC |
| `SpiDevices_proofs` | theorems about `SpiShift` and `Enc28j60` |
| `MCDrivers_proofs` | theorems that carry those of the five parts over to `MCDrivers` |

`PROJECT.json` ("map") gives the source lines of every definition. Names are
those of the source where TLA+ allows. Some definitions are marked "Mutant":
plausible mistakes in the definition that follows them. They are not part of
any specification; exchanged for the original, each makes a property fail.

### Atomicity

An interrupt routine is not pre-empted by tasks, so its work for one flag is
one step. A task may be interrupted between any two of its stores, so each
store that another actor can notice is a step of its own, and a
read-modify-write of a bit field is a load and a store. The flags of a USART
may rise between two parts of one run of a handler; the parts are separate
actions.

### DmxPort

`status`, `slotCount`, `rxState`, `txState`, `currentRxBuffer`, ... are the
fields of `DmxPortConfig_t` and of its buffers. `Receive` is the RXC part of
`vDmxInterruptHandler`, one action for each state and for break and overflow;
`TransmitComplete` is the TXC part. `PushFrame` stands for both push functions:
it ends a frame, picks the next buffer (`pDmxPortGetNextBuffer`, two passes)
and then runs the callback, which may send the frame it is given, another one
or nothing. `SendCheck` to `SendArm` are the stores of `xDmxSendFrame` when a
task calls it. `overrun` and `nullDereference` are history variables.

Values of slots are left out: a byte matters as a start code or as the length
of an RDM message. The DRE loop of the handler is left out because nothing
enables DRE. An error that is neither a break nor an overflow drops the byte,
a stutter.

### Rs485

The task's position in `xRs485SendMessage` is `pc`; `data`, `shift` and `txc`
are the USART's DATA and shift registers and its TXC flag, `sent` a history of
what left in order. A byte is the pair of its message and its place. The
logical or in the two INTENCLR stores (lines 200 and 251) has the value 1, the
bit of DRE: that is what `ClearInterrupts` and `InterruptTxc` do.

Other stations send frames of any length in `FrameLengths`. An overflow loses
any byte of them (`LoseByte`). After a parity or a framing error the loop of
lines 216 to 219 clears the flags just the same, but the byte is in DATA, and
line 223 reads and stores it like any other: `GarbleByte` gives it any value and
any mark, so that an address byte may be missed and a false one seen. The
driver recognises a frame by counting from the last address byte, so two losses
cannot show: one from a frame that is longer than the buffer, whose next byte
takes the place of the lost one, and that of an address byte behind an
unfinished frame, which then goes on with the bytes of the next. `Unnoticed`
names the two. `spoilt` is a history variable that says that the frame on the bus
has an unnoticed loss or a byte received in error; the next address byte that
is heard well ends it.

### I2cInterrupt

`Receive` to `Answer` are the stores of one round of `vI2cInterruptTask`; the
pending bit and the value of its notification are `notified` and `value`, and
`EnterWait` does what `xTaskNotifyWait` does: it clears the value on entry,
but only when nothing is pending. `bus`, `mb` and `sb` say what the bus is
doing and which flags are up; `vI2cInterruptMBRoutine` and
`vI2cInterruptSBRoutine` work on `current`, whatever it is by then. Three
errors are one. `moved` and `late` are history variables.

### NetworkBuffers and BufferPool

`BufferPool` has no list, no semaphore and no calls: a user gets a descriptor
with memory, releases it, or does the same with a block alone, each in one
step. `NetworkBuffers` has a `pc` for each user and one action for each part of
a call that others can come between: taking the semaphore, the critical section
that unlinks the head, the allocation, and on the way back the memory, the list
and the semaphore. `implementation` is the file that is linked. With `held`,
`raw` and `Storage` as the refinement mapping, a get is a step of the pool when
the call returns, a release when it is called. The users also do what the
drivers do between the calls: take the memory off a descriptor (`Detach`),
exchange it (`Exchange`) and hand descriptors on (`Pass`).

Because of `ImplementsPool` the modules of the MAC treat a call as one step.

### SamMacRx, SamMacTx and SamMacLink

`samx5xmac.c` is three modules because its parts share no variable but NCR and
the pool. In `SamMacRx` the word of a ring descriptor is `Ownership`, `Wrap` and
`address`; `Swap`, `LoadWord` and `StoreWrap` are the loads and stores of lines
142 to 153, and `Receive` may come between any two of them. `rbqp` leaves the
ring when the MAC fills the last descriptor while its Wrap bit is clear; the
model ends reception there, since what follows in memory is not known.
`GetDescriptorFails` is the store through NULL of line 144. The get does not wait,
so it fails for want of a descriptor, for want of memory, and also when a
release has put a descriptor on the list and not yet given the semaphore:
`Available` is what the semaphore counts, `ungiven` what it does not count yet.
The heap serves the rest of the program too, so the action may happen whenever
the task asks. In `SamMacTx` the steps of `xSAMx5xMAC_OutputFrame` alternate with
`TransmitComplete`, `TransmitFails`, `TransmitHalts` and the interrupt. There and
in `SamMacLink` a store to a bit of NCR is a load and a store of the whole
register: `ncr` is the TXEN bit the sending task has loaded (the interrupt of
line 240 may clear it in between), `ipNCR` its RXEN bit. `EnableTransmitter` is
one step, because it stores TXEN itself. What the PHY task's store of RXEN does to
TXEN is left out. In `SamMacLink` `undone` is a history variable that says when an
old copy of RXEN was put back. A round of `phy_generic.c` reads the status first
and leaves its `state` alone when the negotiation is not complete (line 72) or
not acknowledged (line 85): `negotiated` remembers how the last round ended, and
`compatible` what the last comparison of abilities said. A task that could not
be created is not noticed, since `1 & -1` is 1. The last block of
`xSAMx5xMAC_LinkStatusChanged` (line 213) never runs and has no action.

What is assumed of the hardware: clearing RXEN leaves the receive pointer where
it is; clearing TXEN stops sending and returns the pointer to the start of the
ring; a descriptor with its used bit stops the transmitter; THALT stops it
after the frame it is at.

### SpiShift

A byte is its number in the exchange. The SERCOM has a shifter, a byte that
waits in DATA, and two places for bytes received; a store to DATA clears TXC;
RXC and TXC rise together. `young` marks a byte that began while the handler was
called or ran: it cannot end before the handler has looked for received bytes
or returned. This timing is an assumption about the processor, which is
faster than a byte on the line. `shown` is a history variable: the size of the
message, the bytes shifted and the bytes still on the way when the latch was
last pulsed. `stale` is another: an asynchronous
exchange began while a byte of an earlier one was still in the receive buffer.
The handler then counts that byte as the first of its own.

### Enc28j60

`iptask` and `nictask` say where the two tasks stand; `bank` is in the
controller and `lastBank` in the driver. The receive buffer is a ring of places
for packets. Assumed of the controller: `ERXWRPT = ERXRDPT` is an empty ring; a
link change is kept until PHIE is set; EDMANDL reads as 0 after a reset.

### MCDrivers

The five modules share no variable. `MCDrivers` puts them into one
specification with a variable `part`: the initial state chooses one of them,
and only its actions run. A behaviour of it is a behaviour of one module, with
the variables of the others constant, so a property of one module holds in this
specification if it holds of that module: that is the theorem
`EachPartIsItself` of `MCDrivers_proofs`. Fairness is that of the part that
runs; `RxFairSpec`, `LinkFairSpec` and `SpiFairSpec` state it for each module.
The allocators of this instance give the lowest free descriptor and block; the
theorems hold for every choice (`Gives`, `MayGive`).

## 3. Runs

| Run | States | What it asks |
|---|---|---|
| `dmx_callback` | 190 k | a callback that sends what it got, a frame of its own or nothing: no NULL buffer, honest marks, bytes inside frames |
| `dmx_repeater` | 72 k | a port that repeats every frame: nothing is received into the frame on its way, whose length stays what it was |
| `dmx_senders` | 98 k | two tasks and the callback race through `xDmxSendFrame`: a busy port always has somebody who frees it, and every transmission ends |
| `dmx_overrun` | violation | a frame that lost bytes is pushed as valid |
| `dmx_tx_bounds` | violation | the transmitter reads a byte behind a full received frame |
| `rs485` | 2.6 M | success means sent, calls return, queued frames are whole although bytes are lost and received in error |
| `rs485_disarm` | violation | the TXC interrupt stays enabled after the call |
| `i2c` | 379 k | success means transferred, reads in bounds, answered transactions untouched, everyone answered |
| `i2c_init` | violation | the driver task receives from a queue that does not exist yet |
| `network_buffers` | 125 k | three users race through both implementations: semaphore and list agree, nothing is lost or owned twice, each call is a step of `BufferPool` |
| `drivers` | 713 k | both rings of the MAC, the link between PHY and IP task, the shift registers, the ENC28J60: one owner for each block, no filled descriptor forgotten, the network comes up, exchanges are whole and end, driver and controller agree |
| `enc28j60_retry` | violation | an initialisation that failed once without a controller fails for ever |

`drivers` and `rs485` take about two minutes each, every other run less than one.
Deadlock is checked in every passing run but `drivers`, where the model really
stops: the receive task after a store through NULL, the IP task when the
maintenance task it waits for does not exist, and the SPI task after the handler
left the last byte unread.

### Bounds and why they are enough

* DMX: three buffers as in `dmx.h`, three slots, RDM messages of three and four
  bytes. Three buffers are what the two passes of the scan need to differ;
  three slots give a frame a first, a middle and a last slot; the three byte
  values are the two start codes and neither, and as length bytes they make an
  RDM message end by the minimum and by its length. The break takes two byte
  times so that it has a first and a last. `dmx_senders` takes two of
  everything, the smallest race there is.
* RS485: messages of one byte and of three, which have a first, a middle and a
  last byte; frames that leave room in a buffer of two bytes, fill it and are
  longer; a queue of one, so that it is full; two errors, each a lost byte or one
  received in error, so that a frame with one meets another. Frames of
  other stations are numbered alternately: a mixture of two consecutive frames is
  visible.
* I2C: two tasks, transactions of one and of two bytes of all three types, a
  queue for both: one transaction follows another that succeeded, failed or
  was given up. `moved` is bounded by the length because a transfer stops.
* Network buffers: two descriptors and three users, so that somebody waits for
  the semaphore and the list is empty, full and in between; three blocks, one
  more than the descriptors, so that a resize is possible and memory runs out.
* MAC, receiving: two ring descriptors, the first and the one with the Wrap bit;
  two network buffer descriptors and four blocks, so that the pool may be
  empty while a frame waits; an event queue of seven, the shortest that
  `FreeRTOSIPConfigDefaults.h:93` allows, so that the bound of `FramesLeaveRoom` is
  reached. Other events may fill the queue at any time, which `DropFrame` allows
  for. Sending: two ring descriptors, one network buffer, three blocks:
  a third frame meets a ring that still has the first two.
* Link: notifications are counted up to two, one given while another waits.
* SPI: messages of one to four bytes: the SERCOM holds three at most (shifter,
  DATA and what was received), a fourth makes all of them be used again.
* ENC28J60: a ring of three packets, empty, partly filled and full.
* The theorems of section 5 hold without these bounds.

### Fairness and why the code justifies it

* DMX: the USART finishes the byte it was given and its interrupt is taken;
  a task inside `xDmxSendFrame` is scheduled again. Nobody has to send or
  receive.
* RS485: the USART shifts, enabled interrupts are taken, the task inside the
  call is scheduled. A time-out never has to happen, and a call that comes
  back only by its time-out is not counted as progress.
* I2C: the driver task is scheduled, and since `xTimeout` is finite its wait
  ends. The bus and the devices owe nothing, so `RequestAnswered` holds for a
  dead bus as well.

* MAC: the receive task has the highest priority (`configMAX_PRIORITIES - 1`)
  and its wait ends after 250 ms at the latest; the IP task's retries are
  driven by its own timer; a maintenance task that started to report a change
  is scheduled until it has. The MAC, the stack and the PHY owe nothing.
* SPI: bytes that were started end, the handler's interrupts are taken and the
  task is scheduled. ENC28J60: none, its properties are safety.

## 4. What the runs found

* `dmx.c:285`: a frame that was received and is sent again goes out with one
  byte too many, because reception counts the start code in `slotCount` and
  transmission does not; for a full frame that byte lies behind the array.
* `dmx.c:206`: after an overflow the comment promises a reset of the port; the
  handler only clears the flag and delivers the frame with its hole.
* `rs485.c:200` and `251`: `||` instead of `|`; TXC is never disabled.
  `SuccessMeansSent` holds all the same, because `InterruptTxc` compares the
  index again.
* `i2c_interrupt.c:123`: the task is created before its queue. When a running
  task of lower priority calls `vI2cInterruptInit`, `xQueueReceive` is given
  NULL.

* `ENC28J60/NetworkInterface.c:182`: a first attempt without a controller leaves
  `lastBank` at 3; once a controller is there the bank is never selected, EREVID
  is read from bank 0 and every later attempt fails as "SPI disconnected".

### Conditions under which the properties hold

These are conditions of use that the code does not enforce.

* DMX: `txState` is Idle while the last byte is still being shifted, so a new
  `xDmxSendFrame` at that moment takes the pin away from it. Received frames
  are sent from the callback, not later by a task: with both, the load and
  store of the status byte may undo each other, and the proofs assume one side.
* RS485: `SendReturns` is stated for messages of two bytes or more. For one
  byte TXC may rise before line 196 clears it, and then nobody notifies the
  task: without a time-out the call hangs. `SuccessMeansSent` is stated for a
  port on which no call has timed out: a late TXC interrupt notifies the next
  call, which returns `pdPASS` at once. `FramesWhole` has the same condition,
  since after a time-out the receive pin comes back in the middle of a frame,
  and leaves out frames with an error that counting cannot show (`spoilt`, section
  2). TLC needs each kind: after an unnoticed loss the queue gets a frame with a
  hole, or with bytes of two frames, and after a parity or framing error one
  with a wrong byte, or one that begins at a false address mark; nothing tells
  the application. The property says that such a frame spoils no other. Other
  stations use the address mark
  and do not collide with the port's own messages.
* I2C: the properties about data are stated as long as no answer came after
  its transaction was given up. A late answer leaves a notification for the
  next transaction, which then succeeds at once. A refused read address leaves
  MB pending while it is masked; the model counts it as late, and the next
  write fails because of it. The requester sets `ucDataCounter` to 0 itself
  (the code does so only when there is a register address), does not touch a
  transaction before it is answered, and uses lengths up to 254.

* Network buffers: a user resizes and releases what it holds, and memory it
  takes off a descriptor it gives back itself. A resize needs memory on the
  descriptor. The low-water mark of `BufferAllocation_2.c:239` is left out.
* MAC, receiving: the unchecked NULL of line 144 is reachable in every build.
  `FreeRTOSIPConfigDefaults.h:93` rejects an event queue that is not longer than
  the pool by five, so frames that wait and buffers the stack holds can use up
  the pool, and memory can run out besides. No property excludes it;
  `EverySlotTaken` names the fault as the one end of its promise, and the other
  properties hold up to it. What that rule does give is proved: frames never take
  the places it keeps for other events (`FramesLeaveRoom`). Frames may be
  delivered in another order than they came, because the search starts at index 0.
* MAC, sending: the properties are stated for `ipconfigZERO_COPY_TX_DRIVER = 1`.
  With 0, TCP keeps its descriptor while the ring frees the block later
  (`samx5xmac.c:461`). A frame put on the ring while the interrupt stops the
  transmitter (line 240) keeps its block, but nothing says when it is sent:
  the search of line 413 starts at index 0 for every frame.
* Link: the store of an old copy of NCR may leave the receiver off on a link
  that is up; `DeafOnlyAfterStaleStore` says that nothing else does. A task that
  could not be created is never noticed: `xReturn &= xTaskCreate(...)` (lines 390
  and 393) with a failure of -1 leaves `xReturn` at `pdPASS`, `isInit` becomes true,
  and the call waits at line 403 without a limit; without the maintenance task
  for ever, and nobody tries again. `NetworkComesUp` speaks of a link that was
  reported, so it says nothing there. With `phy_generic.c` a
  cable that is unplugged while the negotiation is not complete or not
  acknowledged (lines 72 and 85) is read as down in every round and not reported
  in any: `LinkFollowsPorts` speaks of that driver only after a round that
  passed both lines (`negotiated`), and TLC finds it violated without. A late
  notification of an MII transfer (line 84) is not modelled.
* SPI: a device is used with one of the two calls only. The polling call reads
  one byte less than it writes and leaves the last in the receive buffer, so an
  asynchronous exchange after it would be shifted by a byte; `ReadIsWhole` is
  about asynchronous exchanges. When the last byte ends between the loop at the
  start of the handler and line 185, the handler disables its interrupts with
  that byte unread. A task that reads is then never notified: `ExchangeEnds`
  names that state (`LastByteIsLeft`). A task that only writes notices nothing,
  but its next exchange finds the byte: what it reads comes one place late, its
  end is counted a byte too early, and the handler, which does not read a byte
  more than the message has, may turn for ever at line 155. The three properties
  are therefore stated until that happens (`stale`); TLC finds each of the three
  violated without the condition. Sizes are not 0 and there is a task to
  notify. The polling loop stores its second byte before it looks at the size
  (lines 95 to 103): for a message of one byte it reads and shifts what lies
  behind it, and the pulse of line 110, or the one at the start of the next
  exchange (line 71 or 136), shows the outputs moved on by that byte.
  `LatchShowsWholeMessages` excepts exactly this pulse; TLC finds it violated
  without.
* ENC28J60: the early return of the output function (line 252) keeps the
  semaphore; from then on both tasks only time out. `ERXRDPT` is written
  without the workaround for odd values (line 157), which is about the
  controller's silicon. `enc28j60_int.c` is used by no file.

## 5. Proofs

Every theorem is for all values of the constants that satisfy the module's
assumptions: any frame size, any number of buffers from two on, any messages,
any number of requesters and lengths.

| Theorem | Says |
|---|---|
| `DmxPort_proofs!TypeCorrect` | types, for every use of the port |
| `DmxPort_proofs!ReceivesInBounds` | every received byte is stored inside its frame |
| `DmxPort_proofs!ReceiverAlwaysHasABuffer`, `MarksAreKept` | the handler always has a buffer and marks do not leak, if frames are sent from one side only |
| `DmxPort_proofs!ABusyPortIsServed` | a busy port is armed and knows its frame, or some task is about to arm it, for every use |
| `DmxPort_proofs!RepeaterNeverOverwrites`, `RepeaterSendsStableFrames` | a repeater never receives into what it sends, and that keeps its length |
| `Rs485_proofs!TypeCorrect` | types; the receive index stops one past the buffer |
| `Rs485_proofs!SuccessIsTransmission` | success means that the whole message left |
| `Rs485_proofs!WaitingSenderIsServed` | a waiting call always has a byte on its way or an enabled interrupt due |
| `Rs485_proofs!FramesAreWhole` | a queued frame is one frame of the bus, whole and in order, for frames and buffers of any length and any number of errors, but for a frame that has an error of its own that counting cannot show |
| `I2cInterrupt_proofs!TypeCorrect` | types |
| `I2cInterrupt_proofs!SuccessIsTransfer`, `ReadsStayInBounds` | success means that the whole transaction crossed the bus; received bytes are stored inside `pcData` |
| `I2cInterrupt_proofs!AnsweredIsLeftAlone` | no interrupt routine counts in a transaction that was answered |
| `NetworkBuffers_proofs!TypeCorrect`, `HeadExists`, `DescriptorsAreKept`, `AssertionHolds`, `BlocksAreKept` | the unchecked head of the list exists; nothing is lost or owned twice; the assertion of the code never fails |
| `NetworkBuffers_proofs!PoolRefinement` | both implementations refine `BufferPool` |
| `SamMacRx_proofs!RxTypeCorrect`, `FramesNeverFillTheQueue`, `RxBlocksAreKept`, `OnlyFramesAreTaken`, `PointersAreRight`, `RingIsLeftBetweenStores` | the safety properties of the receive side, for rings and pools of any size, every event queue a build may have and any allocator |
| `SamMacRx_proofs!PoolRulesAreKept` | every step of the receive side is one that `BufferPool` allows its users |
| `SamMacTxLink_proofs!TxTypeCorrect`, `TxBlocksAreKept`, `UnsentAreKept` | the same for the transmit side |
| `SamMacTxLink_proofs!LinkTypeCorrect`, `LinkIsThatOfThePorts`, `OnlyStaleStoreDeafens` | the reported link is that of the ports, with `phy_generic.c` after each round that passed lines 72 and 85; only one thing makes the driver deaf |
| `SpiDevices_proofs!SpiTypeCorrect` | types; no exchange reads more bytes than its message has, whatever was left behind |
| `SpiDevices_proofs!SpiMessageIsWhole`, `SpiLatchIsWhole` | what a notified task finds is its message, and the latch shows whole messages and nothing more, but for the polled message of one byte (section 4), for messages of any length |
| `SpiDevices_proofs!SpiTaskIsServed` | a task that waits for its exchange is served, but for the missed last byte (section 4) |
| `SpiDevices_proofs!EncTypeCorrect`, `DriverKnowsTheLink`, `RingIsInStep` | driver and controller agree, for a receive buffer of any size |
| `MCDrivers_proofs!EachPartIsItself` | each behaviour of the composition is one of every part |
| `MCDrivers_proofs!TypeCorrect`, `DriversAreSafe`, `DriversStepSafely` | types, the twelve invariants and the two action properties of the run `drivers`, for all constants |

The inductive invariants:

* DMX, `TypeInv` joins the types with `ReceiveInBounds`: the count stays in its
  type only because an incomplete frame has room for a byte, also of an RDM
  message whose length byte is anything. `PoolInv` says
  whose mark each mark is; with it the scan of the pool finds a buffer because
  at most one is withheld by each side. `ServedInv` adds to `BusyPortIsServed`
  that a port that is armed, or about to be, knows its frame. `RepeaterInv` adds that the frame just
  finished is never the one picked next while another is free.
* RS485, `SendInv` is a disjunction over the hand-overs of a message from task
  to handler and back: `Quiet` before the first byte, `Running` with the bytes
  on their way in order (`InOrder`), `Released` after the last.
  `SuccessMeansSent` alone is not inductive: it says nothing about where the
  bytes are before the end. `WakeInv` says for a waiting task which of the two
  interrupts is enabled, and that the one that is has something to come. For what
  is received, `FrameInv` ties the receive buffer to the frame on the bus as long
  as that is not spoilt: it is `Whole`, what was sent of that frame so far, or
  `Damaged`, and then too short ever to be full before the frame ends. A frame
  that is no longer than the buffer cannot make up for a lost byte, and the next
  address byte starts anew whatever is in the buffer; the losses of `Unnoticed`
  and the bytes received in error are the cases in which this argument fails.
  `BusInv` holds for every frame: a full buffer is copied at once, and a frame that
  has begun has bytes to come. TLC confirmed both on the run's instance first.
* I2C, `TransferInv`: queued transactions are distinct, wait with counter 0 and
  are not the current one (`QueuedOnce`); before the address is written nothing
  is pending (`NotStarted`); after it exactly one of bus, flags and
  notification has the next word (`OneThing`), and each says how far the counter
  and the bytes on the bus are (`Counted`). All of it holds while no answer was
  late, and TLC confirmed it on the instance of the run before it was proved.
  `AnsweredIsLeftAlone` follows step by step: an interrupt routine counts in
  `current` only, which still waits (`CurrentWaits`) whenever one can run.

* Network buffers, `Inv`: `CountInv` adds the semaphore, those who took it and
  have not yet unlinked, and those who will still give it, and finds the length
  of the list; `SemaphoreIsCovered` alone is not inductive. `MemoryInv` says who
  has memory: no descriptor on the list, each one that is handed out, unless it
  was taken off. The refinement then needs one lemma for each action: which
  step of the pool it is, or that `Storage` stays the same.
* MAC, receiving, `RxInv`: `HandInv` says in which steps the task has a
  descriptor, `PlaceInv` that queue, stack and hand are apart, `MemoryInv` that
  blocks are, `FrameInv` that a descriptor marked filled has a frame (and the
  word that is loaded has a mark only if it still has), `PointerInv` and
  `WrapInv` what the two stores have yet to do. `FramesNeverFillTheQueue` counts:
  by `PlaceInv` the frames in the queue and the one in hand hold descriptors, no
  two the same, so there are at most as many as descriptors, and
  `QueueAssumption`, the rule of the build, does the rest. `PoolRulesAreKept` is step
  simulation under that invariant: lemmas say who holds what in the view of
  `RxPool`, and each action is one step of the pool or changes nothing there.
* MAC, sending, `TxInv`: `TxMemoryInv` (`Apart`, `NotFree`, `Previous`, `NoneLost`)
  covers the moment in which the ring and the descriptor share a block;
  `WaitInv` says that an unsent frame is on a descriptor the MAC still owns,
  which the driver never overwrites.
* Link, `LinkInv`: `ReceiverInv` ties RXEN, `LinkIsUp` and the news under way
  together, `GenericInv` and `SwitchInv` say what the news is for each driver.
* SPI, `SpiInv`: each byte stored is shifted, in the shifter or waits in DATA
  (`LineInv`), and each byte shifted was read or is in the receive buffer, in
  order (`OrderInv`); `HandlerInv` says which interrupt is still to come for
  each state of the SERCOM, and that the handler, past its first loop, finds at
  most one byte received. `IdleInv` and `FirstInv` say that an exchange starts
  with nothing on the line, `ShownInv` what the last pulse can have shown. All but
  the types and `PollInv` hold until a byte is left behind. TLC confirmed it for
  messages of up to four bytes.
* ENC28J60, `EncInv`: up to the end of the configuration the ring is empty and
  the semaphore keeps the NIC task away (`NotYetUp`, `NotConfigured`), and a
  packet that is being taken is counted; the rest is modular arithmetic.

* `MCDrivers`: no invariant of its own. A step of one part leaves the variables
  of the others unchanged, so it is a step or a stutter of each; the theorems of
  the parts then apply to every behaviour.

Only model-checked is liveness: `TransmissionEnds`, `SendReturns`,
`RequestAnswered`, `EverySlotTaken`, `NetworkComesUp` and `ExchangeEnds`. Fairness
and ENABLED are beyond the prover. Of three of them the safety half is proved:
`BusyPortIsServed`, `SenderIsServed` and `WaitsForSomething` say that what is
waited for is never lost, in every state. `dmx_senders` checks the first; no run
lists the other two, since the liveness property of the run fails whenever one of
them does, and TLC agreed with each on the instances of `rs485` and `drivers`
before it was proved.

## 6. Not modelled, and what could follow

Left out of the modelled components:

* DMX: the LED task, pin swapping and `vDmxCopyFrame`. That reads `slotCount` twice
  around a copy without a lock (`dmx.c:362`), while the receiver may reuse the
  source; whether a copy is torn depends on its speed against the line, and the
  model has no time.
* RS485: the polled calls, characters without the address mark. `xRs485Init`
  enters as the initial state; that it never sets TXEN (line 109) matters to
  the polled calls only. A frame that meets a full `rxQueue` is dropped without
  notice (line 232), and is so in the model.
* I2C: `vI2CInterruptDisable` and `Enable`, the order of data bytes. The error
  routine never runs because its interrupt is not enabled.
* MAC: MII and I2C transfers to the PHY, speed, pins, clocks, addresses. PHYs:
  set-up and capabilities; `KSZ8091.c` and `phyHandling.c`, which nothing uses.
* ENC28J60: bytes on the SPI bus, `enc28j60_int.c`.

Not modelled, and worth it next:

1. `I2cMaster` and the AT24MAC: polling with time-outs, early returns that leave
   the bus owned (`i2c.c:82`), so that the next transfer waits for ever. It takes
   a model of what the SERCOM does when its smart mode (`i2c.c:48`) and the explicit
   commands (`i2c.c:112`) come together, which no test of the repository pins
   down. (Reading the code shows one thing without
   a model: the reads return one less than they read, so
   `at24mac_getMacAddress48` never reports success.)
2. Pure functions against reference definitions: SERCOM pads and baud rate,
   external interrupt configuration, hexadecimal parsing, RDM checksum, the
   loops of the GPIO shift registers.
3. Theorems about the DMX port for uses that send from a task and from the
   callback at once, without the load and store of the status byte undoing each
   other.

Outside the project for good: the vendored kernel and protocol stack (what the
drivers use of them is in the models), register set-up without a state machine
(clocks, pins, timers, logic), debug output and the fault handlers.
