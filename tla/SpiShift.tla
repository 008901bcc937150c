------------------------------- MODULE SpiShift -------------------------------
(***************************************************************************)
(* spi_shiftregisters.c: messages exchanged with a chain of shift          *)
(* registers, by a task that polls, or by an interrupt handler that tells  *)
(* a task when it is done.  A pulse of the latch pin ends an exchange: the *)
(* registers then show what they hold.                                     *)
(*                                                                         *)
(* The SERCOM has a byte in its shifter, one more that waits in DATA, and  *)
(* keeps two bytes received.  A byte is known by its number in its         *)
(* exchange, and is 0 when it belongs to an earlier one.                   *)
(*                                                                         *)
(* What time the handler has: it starts, and reads what there is to read,  *)
(* before the byte ends that began when it was called, and it returns      *)
(* before a byte ends that began while it ran.                             *)
(***************************************************************************)
EXTENDS Integers, Sequences

CONSTANT MaxSize                \* bound on the length of a message

ASSUME SpiAssumption == MaxSize \in Nat \ {0}

VARIABLES
  polled,                       \* the device is used with the polling call only
  currentMessageSize, currentReadIndex, currentWriteIndex,
  reading,                      \* currentReadMessage # NULL
  readMessage,
  taskpc,                       \* where the task stands that calls
  handlerpc,                    \* where the interrupt handler stands
  INTENSET,
  TXC,
  waits,                        \* DATA holds a byte; DRE is clear
  shifting,                     \* the shifter has one
  young,                        \* and that one cannot end yet
  received,                     \* the receive buffer; RXC is set unless it is empty
  ended,                        \* bytes of this exchange that were shifted
  told,                         \* the task has a notification
  shown,                        \* what the last pulse of the latch showed
  stale                         \* a byte of one exchange was left for the next to read

fieldVars == <<currentMessageSize, currentReadIndex, currentWriteIndex, reading, readMessage>>
lineVars == <<waits, shifting, young, received, ended>>

spiVars == <<polled, fieldVars, taskpc, handlerpc, INTENSET, TXC, lineVars, told, shown, stale>>

SpiTypeOK ==
  /\ polled \in BOOLEAN /\ reading \in BOOLEAN
  /\ currentMessageSize \in 0 .. MaxSize
  /\ currentReadIndex \in Nat /\ currentReadIndex <= currentMessageSize
  /\ currentWriteIndex \in Nat
  /\ readMessage \in Seq(Nat) /\ Len(readMessage) <= currentReadIndex
  /\ taskpc \in {"idle", "poll", "last", "write", "enable", "disable", "wait"}
  /\ handlerpc \in {"off", "read", "write", "latch"}
  /\ INTENSET \subseteq {"RXC", "DRE", "TXC"}
  /\ TXC \in BOOLEAN /\ waits \in BOOLEAN /\ shifting \in BOOLEAN /\ young \in BOOLEAN
  /\ received \in Seq(Nat) /\ Len(received) <= 2
  /\ ended \in Nat
  /\ shown \in [size : Nat, ended : Nat, coming : 0 .. 2]
  /\ told \in BOOLEAN /\ stale \in BOOLEAN

\* xSpiRegistersInitHardware
SpiInit ==
  /\ polled \in BOOLEAN
  /\ currentMessageSize = 0 /\ currentReadIndex = 0 /\ currentWriteIndex = 0
  /\ reading = FALSE /\ readMessage = <<>>
  /\ taskpc = "idle" /\ handlerpc = "off"
  /\ INTENSET = {} /\ TXC = FALSE
  /\ waits = FALSE /\ shifting = FALSE /\ young = FALSE
  /\ received = <<>> /\ ended = 0
  /\ shown = [size |-> 0, ended |-> 0, coming |-> 0]
  /\ told = FALSE /\ stale = FALSE

-----------------------------------------------------------------------------
(* The SERCOM                                                              *)

\* The byte in the shifter ends.  A receive buffer that is full loses it.
ByteEnds ==
  /\ shifting /\ ~young
  /\ ended' = ended + 1
  /\ received' = IF Len(received) < 2 THEN Append(received, ended + 1) ELSE received
  /\ IF waits
     THEN /\ waits' = FALSE
          /\ young' = (handlerpc # "off" \/ "DRE" \in INTENSET)
          /\ UNCHANGED <<shifting, TXC>>
     ELSE /\ shifting' = FALSE
          /\ TXC' = TRUE
          /\ UNCHANGED <<waits, young>>
  /\ UNCHANGED <<polled, fieldVars, taskpc, handlerpc, INTENSET, told, shown, stale>>

\* A store to DATA goes to the shifter when that is free, and clears TXC.
WriteData ==
  /\ TXC' = FALSE
  /\ IF shifting
     THEN waits' = TRUE /\ UNCHANGED <<shifting, young>>
     ELSE shifting' = TRUE /\ young' = (handlerpc # "off") /\ UNCHANGED waits
  /\ currentWriteIndex' = currentWriteIndex + 1

\* A load from DATA
ReadData ==
  /\ received' = Tail(received)
  /\ readMessage' = IF reading THEN Append(readMessage, Head(received)) ELSE readMessage
  /\ currentReadIndex' = currentReadIndex + 1

\* Bytes that were stored and have not ended yet
InFlight == (IF shifting THEN 1 ELSE 0) + (IF waits THEN 1 ELSE 0)

\* The registers show what they hold.
Latch == shown' = [size |-> currentMessageSize, ended |-> ended, coming |-> InFlight]

-----------------------------------------------------------------------------
(* vSpiRegistersReadWriteRegisters                                         *)

SetFields(size, read) ==
  /\ currentMessageSize' = size
  /\ reading' = read /\ readMessage' = <<>>
  /\ currentReadIndex' = 0
  /\ ended' = 0
  /\ received' = [i \in 1 .. Len(received) |-> 0]

\* Up to the store of the first byte
StartPolled ==
  /\ polled /\ taskpc = "idle"
  /\ \E size \in 1 .. MaxSize, read \in BOOLEAN : SetFields(size, read)
  /\ Latch
  /\ TXC' = FALSE /\ shifting' = TRUE
  /\ currentWriteIndex' = 1
  /\ taskpc' = "poll"
  /\ UNCHANGED <<polled, handlerpc, INTENSET, waits, young, told, stale>>

\* A turn of the loop, which stores a byte before it looks at the size
PollByte ==
  /\ taskpc = "poll" /\ TXC
  /\ received # <<>>
  /\ ReadData
  /\ WriteData
  /\ taskpc' = IF currentWriteIndex' < currentMessageSize THEN "poll" ELSE "last"
  /\ UNCHANGED <<polled, currentMessageSize, reading, handlerpc, INTENSET, ended, told, shown,
                 stale>>

FinishPolled ==
  /\ taskpc = "last" /\ TXC
  /\ Latch
  /\ taskpc' = "idle"
  /\ UNCHANGED <<polled, fieldVars, handlerpc, INTENSET, TXC, lineVars, told, stale>>

-----------------------------------------------------------------------------
(* vSpiRegistersReadWriteRegistersAsync                                    *)

StartAsync ==
  /\ ~polled /\ taskpc = "idle" /\ handlerpc = "off"
  /\ \E size \in 1 .. MaxSize, read \in BOOLEAN : SetFields(size, read)
  /\ currentWriteIndex' = 0
  /\ stale' = (stale \/ received # <<>>)
  /\ Latch
  /\ taskpc' = "write"
  /\ UNCHANGED <<polled, handlerpc, INTENSET, TXC, waits, shifting, young, told>>

WriteFirst ==
  /\ taskpc = "write" /\ handlerpc = "off"
  /\ WriteData
  /\ taskpc' = "enable"
  /\ UNCHANGED <<polled, currentMessageSize, reading, readMessage, currentReadIndex,
                 handlerpc, INTENSET, received, ended, told, shown, stale>>

EnableSpiInterrupts ==
  /\ taskpc = "enable" /\ handlerpc = "off"
  /\ INTENSET' = INTENSET \cup {"RXC", "DRE"}
  /\ taskpc' = "disable"
  /\ UNCHANGED <<polled, fieldVars, handlerpc, TXC, lineVars, told, shown, stale>>

DisableReceiveInterrupt ==
  /\ taskpc = "disable" /\ handlerpc = "off"
  /\ INTENSET' = INTENSET \ {"RXC"}
  /\ taskpc' = "wait"
  /\ UNCHANGED <<polled, fieldVars, handlerpc, TXC, lineVars, told, shown, stale>>

\* Nobody tells the task of the end of a message it only writes: it lets
\* enough time pass.  A byte that is left in the receive buffer stays there.
Wait ==
  /\ taskpc = "wait" /\ handlerpc = "off"
  /\ \/ reading /\ told
     \/ ~reading /\ INTENSET = {} /\ ~shifting
  /\ told' = FALSE
  /\ taskpc' = "idle"
  /\ UNCHANGED <<polled, fieldVars, handlerpc, INTENSET, TXC, lineVars, shown, stale>>

SpiTask ==
  \/ PollByte \/ FinishPolled
  \/ WriteFirst \/ EnableSpiInterrupts \/ DisableReceiveInterrupt \/ Wait

-----------------------------------------------------------------------------
(* vSpiRegistersSpiInterruptHandler                                        *)

\* The interrupts that call it
Raised ==
  {f \in INTENSET : \/ f = "RXC" /\ received # <<>>
                    \/ f = "DRE" /\ ~waits
                    \/ f = "TXC" /\ TXC}

HandlerStarts ==
  /\ handlerpc = "off" /\ Raised # {}
  /\ handlerpc' = "read"
  /\ UNCHANGED <<polled, fieldVars, taskpc, INTENSET, TXC, lineVars, told, shown, stale>>

\* Mutant: a byte too early.
ReadReceived_Early ==
  /\ handlerpc = "read" /\ received # <<>>
  /\ currentReadIndex < currentMessageSize
  /\ ReadData
  /\ IF reading /\ currentReadIndex' >= currentMessageSize - 1
     THEN told' = TRUE /\ INTENSET' = INTENSET \ {"RXC"}
     ELSE UNCHANGED <<told, INTENSET>>
  /\ UNCHANGED <<polled, currentMessageSize, currentWriteIndex, reading, taskpc, handlerpc,
                 TXC, waits, shifting, young, ended, shown, stale>>

\* A turn of the first loop.  With a byte more than the message has, the
\* loop turns for ever.
ReadReceived ==
  /\ handlerpc = "read" /\ received # <<>>
  /\ currentReadIndex < currentMessageSize
  /\ ReadData
  /\ IF reading /\ currentReadIndex' >= currentMessageSize
     THEN told' = TRUE /\ INTENSET' = INTENSET \ {"RXC"}
     ELSE UNCHANGED <<told, INTENSET>>
  /\ UNCHANGED <<polled, currentMessageSize, currentWriteIndex, reading, taskpc, handlerpc,
                 TXC, waits, shifting, young, ended, shown, stale>>

NothingReceived ==
  /\ handlerpc = "read" /\ received = <<>>
  /\ handlerpc' = "write"
  /\ young' = FALSE
  /\ UNCHANGED <<polled, fieldVars, taskpc, INTENSET, TXC, waits, shifting, received, ended,
                 told, shown, stale>>

\* The second loop
WriteNext ==
  /\ handlerpc = "write" /\ ~waits /\ "DRE" \in INTENSET
  /\ currentWriteIndex < currentMessageSize
  /\ WriteData
  /\ UNCHANGED <<polled, currentMessageSize, currentReadIndex, reading, readMessage, taskpc,
                 handlerpc, INTENSET, received, ended, told, shown, stale>>

\* Mutant: the end of the last byte calls nobody.
AllWritten_NoTXC ==
  /\ handlerpc = "write" /\ ~waits /\ "DRE" \in INTENSET
  /\ currentWriteIndex >= currentMessageSize
  /\ INTENSET' = INTENSET \ {"DRE"}
  /\ handlerpc' = "latch"
  /\ UNCHANGED <<polled, fieldVars, taskpc, TXC, lineVars, told, shown, stale>>

AllWritten ==
  /\ handlerpc = "write" /\ ~waits /\ "DRE" \in INTENSET
  /\ currentWriteIndex >= currentMessageSize
  /\ INTENSET' = (INTENSET \ {"DRE"}) \cup {"TXC"}
  /\ handlerpc' = "latch"
  /\ UNCHANGED <<polled, fieldVars, taskpc, TXC, lineVars, told, shown, stale>>

NothingToWrite ==
  /\ handlerpc = "write" /\ (waits \/ "DRE" \notin INTENSET)
  /\ handlerpc' = "latch"
  /\ UNCHANGED <<polled, fieldVars, taskpc, INTENSET, TXC, lineVars, told, shown, stale>>

\* Mutant: the pulse follows the last store.
LatchAndReturn_Always ==
  /\ handlerpc = "latch"
  /\ IF "TXC" \in INTENSET
     THEN Latch /\ TXC' = FALSE /\ INTENSET' = INTENSET \ {"TXC"}
     ELSE UNCHANGED <<shown, TXC, INTENSET>>
  /\ handlerpc' = "off"
  /\ young' = FALSE
  /\ UNCHANGED <<polled, fieldVars, taskpc, waits, shifting, received, ended, told, stale>>

\* The flag is tested, not the bit that enables its interrupt.
LatchAndReturn ==
  /\ handlerpc = "latch"
  /\ IF TXC
     THEN Latch /\ TXC' = FALSE /\ INTENSET' = INTENSET \ {"TXC"}
     ELSE UNCHANGED <<shown, TXC, INTENSET>>
  /\ handlerpc' = "off"
  /\ young' = FALSE
  /\ UNCHANGED <<polled, fieldVars, taskpc, waits, shifting, received, ended, told, stale>>

vSpiRegistersSpiInterruptHandler ==
  \/ HandlerStarts
  \/ ReadReceived \/ NothingReceived
  \/ WriteNext \/ AllWritten \/ NothingToWrite
  \/ LatchAndReturn

SpiNext ==
  \/ ByteEnds
  \/ StartPolled \/ StartAsync \/ SpiTask
  \/ vSpiRegistersSpiInterruptHandler

SpiSpec == SpiInit /\ [][SpiNext]_spiVars

SpiFairSpec ==
  /\ SpiSpec
  /\ WF_spiVars(ByteEnds) /\ WF_spiVars(SpiTask) /\ WF_spiVars(vSpiRegistersSpiInterruptHandler)

-----------------------------------------------------------------------------
(* Properties                                                              *)

\* A task that is told of the end (line 160) finds the bytes of its message,
\* all of them and in their order, however the handler's runs fall between
\* the bytes and the stores of lines 141 to 149, as long as no exchange left
\* a byte behind.
ReadIsWhole ==
  told /\ ~stale => readMessage = [i \in 1 .. currentMessageSize |-> i]

\* No pulse of the latch shows anything but a whole message on the outputs,
\* the one at the start of the next exchange included (lines 70, 109, 135 and
\* 186), with two exceptions.  The polling call stores its second byte before
\* it looks at the size (line 103), so that a message of one byte is shown
\* with what lies behind it in memory; and with a byte left behind the end of
\* an exchange is counted too early.
LatchShowsWholeMessages ==
  \/ shown.ended = shown.size /\ shown.coming = 0
  \/ polled /\ shown = [size |-> 1, ended |-> 2, coming |-> 0]
  \/ stale

\* When the last byte ends after the first loop of the handler looked for it
\* and before line 185 looks at TXC, the handler returns with that byte in
\* the receive buffer and every interrupt disabled.
LastByteIsLeft ==
  /\ taskpc = "wait" /\ handlerpc = "off"
  /\ INTENSET = {} /\ ~TXC /\ ~shifting
  /\ ended = currentMessageSize /\ received = <<ended>>

\* That is the only way for a task to be left waiting: whenever it waits with
\* no byte on its way and no interrupt to come, its wait is over, or its last
\* byte was left, or a byte was before.
WaitsForSomething ==
  taskpc = "wait" /\ handlerpc = "off" /\ Raised = {} /\ ~shifting =>
    (reading /\ told) \/ (~reading /\ INTENSET = {}) \/ LastByteIsLeft \/ stale

\* Every exchange ends, unless its last byte is left there; after an exchange
\* that found a byte left behind the handler may turn for ever at line 155.
ExchangeEnds == taskpc # "idle" ~> (taskpc = "idle" \/ LastByteIsLeft \/ stale)
=============================================================================
