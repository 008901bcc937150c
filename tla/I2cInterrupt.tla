----------------------------- MODULE I2cInterrupt -----------------------------
(***************************************************************************)
(* The queued I2C master of src/comm/i2c_interrupt.c.  Application tasks   *)
(* put pointers to their transactions in a queue and wait; the driver task *)
(* takes one transaction at a time, starts it on the SERCOM and waits for  *)
(* a notification with a time-out; the two interrupt routines move the     *)
(* bytes and notify the driver, which answers the requesting task.         *)
(*                                                                         *)
(* The interrupt routines work on pxCurrentTransaction, whatever that is   *)
(* when they run.  The order of the bytes in pcData (xBigEndian) and their *)
(* values are left out; ucDataCounter is kept.                             *)
(***************************************************************************)
EXTENDS Integers, Sequences

CONSTANTS
  Requesters,      \* tasks with one transaction each
  length,          \* ucDataLength of each transaction
  uxQueueLength,
  NONE

ASSUME ConfigAssumption ==
  /\ length \in [Requesters -> 1 .. 254]
  /\ uxQueueLength \in Nat \ {0}
  /\ NONE \notin Requesters

VARIABLES
  init,        \* how far vI2cInterruptInit is: "start", "task", "done"
  nullQueue,   \* xQueueReceive was called on a queue not yet created
  waiting,     \* the requesters whose transaction is queued or under way
  type, counter, success,   \* the fields of each transaction
  moved,       \* history: bytes that crossed the bus since it was last reset
  queue,       \* xTransactionQueue
  pc,          \* where the driver task is
  current,     \* pxCurrentTransaction
  xState,
  mbEnabled, sbEnabled,   \* INTENSET
  notified, value,        \* the notification of the driver task
  bus,         \* the operation on the bus
  mb,          \* INTFLAG.MB with its status, or "none"
  sb,          \* INTFLAG.SB
  timedOut,    \* history: the last transaction was given up
  late         \* history: an answer came for a transaction given up

requestVars == <<waiting, type>>
dataVars    == <<counter, moved>>
driverVars  == <<pc, current, success, timedOut>>
irqVars     == <<mbEnabled, sbEnabled>>
busVars     == <<bus, mb, sb>>
noteVars    == <<notified, value>>
vars == <<init, nullQueue, requestVars, dataVars, queue, driverVars, xState,
          irqVars, noteVars, busVars, late>>

Types  == {"I2C_WRITE", "I2C_READ", "I2C_WRITEREAD"}
States == {"I2C_IDLE", "I2C_WRITE_REGISTER", "I2C_WRITE_DATA", "I2C_READ_DATA"}

\* I2cmError_NoSlave, _ArbLost and _BusError are one error.
Errors == {"None", "Error"}
Steps  == {"receive", "reset", "state", "enable", "address", "wait", "blocked", "answer"}
Operations == {"none", "address", "register", "data", "addressRead", "read"}

TypeOK ==
  /\ init \in {"start", "task", "done"}
  /\ nullQueue \in BOOLEAN
  /\ waiting \subseteq Requesters
  /\ type \in [Requesters -> Types]
  /\ counter \in [Requesters -> 0 .. 255]
  /\ success \in [Requesters -> BOOLEAN]
  /\ moved \in Nat
  /\ queue \in Seq(Requesters) /\ Len(queue) <= uxQueueLength
  /\ pc \in Steps
  /\ current \in Requesters \cup {NONE}
  /\ xState \in States
  /\ mbEnabled \in BOOLEAN /\ sbEnabled \in BOOLEAN
  /\ notified \in BOOLEAN
  /\ value \in Errors
  /\ bus \in Operations
  /\ mb \in {"none", "ack", "error"}
  /\ sb \in BOOLEAN
  /\ timedOut \in BOOLEAN /\ late \in BOOLEAN

Init ==
  /\ init = "start" /\ nullQueue = FALSE
  /\ waiting = {}
  /\ type = [r \in Requesters |-> "I2C_WRITE"]
  /\ counter = [r \in Requesters |-> 0]
  /\ success = [r \in Requesters |-> FALSE]
  /\ moved = 0
  /\ queue = <<>>
  /\ pc = "receive" /\ current = NONE /\ xState = "I2C_IDLE"
  /\ mbEnabled = FALSE /\ sbEnabled = FALSE
  /\ notified = FALSE /\ value = "None"
  /\ bus = "none" /\ mb = "none" /\ sb = FALSE
  /\ timedOut = FALSE /\ late = FALSE

-----------------------------------------------------------------------------
(***************************************************************************)
(* vI2cInterruptInit: the driver task is created before its queue.  When a *)
(* running task of lower priority calls it, the driver runs in between.    *)
(***************************************************************************)
Create ==
  /\ \/ init = "start" /\ init' = "task"
     \/ init = "task" /\ init' = "done"
  /\ UNCHANGED <<nullQueue, requestVars, dataVars, queue, driverVars, xState,
                 irqVars, noteVars, busVars, late>>

DriverRuns == init # "start"

-----------------------------------------------------------------------------
(***************************************************************************)
(* A requesting task: it fills its transaction, with ucDataCounter = 0,    *)
(* queues it and leaves it alone until it is answered.                     *)
(***************************************************************************)
Request(r) ==
  /\ init = "done"
  /\ r \notin waiting
  /\ Len(queue) < uxQueueLength
  /\ queue' = Append(queue, r)
  /\ waiting' = waiting \cup {r}
  /\ \E t \in Types : type' = [type EXCEPT ![r] = t]
  /\ counter' = [counter EXCEPT ![r] = 0]
  /\ UNCHANGED <<init, nullQueue, moved, driverVars, xState, irqVars, noteVars, busVars, late>>

-----------------------------------------------------------------------------
(***************************************************************************)
(* vI2cInterruptTask.                                                      *)
(***************************************************************************)
DriverStep(from, to) ==
  /\ DriverRuns
  /\ pc = from
  /\ pc' = to
  /\ UNCHANGED <<init, requestVars, counter>>

Receive ==
  /\ DriverStep("receive", "reset")
  /\ init = "done"
  /\ queue # <<>>
  /\ current' = Head(queue)
  /\ queue' = Tail(queue)
  /\ UNCHANGED <<nullQueue, moved, success, timedOut, xState, irqVars, noteVars, busVars, late>>

\* configASSERT at the head of xQueueReceive.
ReceiveFromNull ==
  /\ DriverStep("receive", "receive")
  /\ init # "done"
  /\ nullQueue' = TRUE
  /\ UNCHANGED <<moved, current, success, timedOut, queue, xState, irqVars, noteVars, busVars, late>>

\* BUSSTATE is forced to idle: what is on the bus is abandoned.
ResetBus ==
  /\ DriverStep("reset", "state")
  /\ success' = [success EXCEPT ![current] = FALSE]
  /\ bus' = "none"
  /\ moved' = 0
  /\ timedOut' = FALSE
  /\ UNCHANGED <<nullQueue, current, queue, xState, irqVars, noteVars, mb, sb, late>>

\* Mutant: the type of the transaction is taken for the state.
SetState_TypeAsState ==
  /\ DriverStep("state", "enable")
  /\ xState' = type[current]
  /\ UNCHANGED <<nullQueue, moved, current, success, timedOut, queue, irqVars, noteVars, busVars, late>>

SetState ==
  /\ DriverStep("state", "enable")
  /\ xState' = IF type[current] = "I2C_READ" THEN "I2C_READ_DATA" ELSE "I2C_WRITE_REGISTER"
  /\ UNCHANGED <<nullQueue, moved, current, success, timedOut, queue, irqVars, noteVars, busVars, late>>

\* INTENSET bits are only ever added: a read leaves MB as it was.
EnableInterrupts ==
  /\ DriverStep("enable", "address")
  /\ mbEnabled' = (mbEnabled \/ xState # "I2C_READ_DATA")
  /\ sbEnabled' = TRUE
  /\ UNCHANGED <<nullQueue, moved, current, success, timedOut, queue, xState, noteVars, busVars, late>>

\* A store to ADDR starts the transfer and clears both flags.
Start(op) ==
  /\ bus' = op
  /\ mb' = "none"
  /\ sb' = FALSE

WriteAddress ==
  /\ DriverStep("address", "wait")
  /\ Start(IF type[current] = "I2C_READ" THEN "addressRead" ELSE "address")
  /\ UNCHANGED <<nullQueue, moved, current, success, timedOut, queue, xState, irqVars, noteVars, late>>

\* xTaskNotifyWait clears the value on entry unless a notification is pending.
EnterWait ==
  /\ DriverStep("wait", "blocked")
  /\ ~notified
  /\ value' = "None"
  /\ UNCHANGED <<nullQueue, moved, current, success, timedOut, queue, xState, irqVars, notified, busVars, late>>

WakeUp ==
  /\ \E step \in {"wait", "blocked"} : DriverStep(step, "answer")
  /\ notified
  /\ notified' = FALSE
  /\ success' = [success EXCEPT ![current] = (value = "None")]
  /\ UNCHANGED <<nullQueue, moved, current, timedOut, queue, xState, irqVars, value, busVars, late>>

\* xTimeout has passed.  An answer whose interrupt is masked or not yet taken
\* counts as late from here on.
TimeOut ==
  /\ DriverStep("blocked", "answer")
  /\ ~notified
  /\ timedOut' = TRUE
  /\ late' = (late \/ mb # "none" \/ sb)
  /\ success' = [success EXCEPT ![current] = FALSE]
  /\ UNCHANGED <<nullQueue, moved, current, queue, xState, irqVars, noteVars, busVars>>

\* Mutant: a transaction that failed is not answered.
Answer_OnlySuccess ==
  /\ pc = "answer"
  /\ pc' = "receive"
  /\ waiting' = IF success[current] THEN waiting \ {current} ELSE waiting
  /\ UNCHANGED <<init, nullQueue, type, dataVars, current, success, timedOut, queue,
                 xState, irqVars, noteVars, busVars, late>>

Answer ==
  /\ pc = "answer"
  /\ pc' = "receive"
  /\ waiting' = waiting \ {current}
  /\ UNCHANGED <<init, nullQueue, type, dataVars, current, success, timedOut, queue,
                 xState, irqVars, noteVars, busVars, late>>

Driver ==
  \/ Receive
  \/ ReceiveFromNull
  \/ ResetBus
  \/ SetState
  \/ EnableInterrupts
  \/ WriteAddress
  \/ EnterWait
  \/ WakeUp
  \/ TimeOut
  \/ Answer

-----------------------------------------------------------------------------
(***************************************************************************)
(* The bus: the operation under way is acknowledged, refused or disturbed, *)
(* or a byte arrives.  Nothing says when, or that it happens at all.       *)
(***************************************************************************)
Finish ==
  /\ bus # "none"
  /\ bus' = "none"
  /\ late' = (late \/ timedOut)
  /\ UNCHANGED <<init, nullQueue, requestVars, counter, queue, driverVars, xState, irqVars, noteVars>>

Acknowledged ==
  /\ bus \in {"address", "register", "data"}
  /\ Finish
  /\ mb' = "ack"
  /\ moved' = IF bus = "data" THEN moved + 1 ELSE moved
  /\ UNCHANGED sb

Failed ==
  /\ Finish
  /\ mb' = "error"
  /\ UNCHANGED <<moved, sb>>

Arrived ==
  /\ bus \in {"addressRead", "read"}
  /\ Finish
  /\ sb' = TRUE
  /\ moved' = moved + 1
  /\ UNCHANGED mb

-----------------------------------------------------------------------------
(***************************************************************************)
(* The interrupt routines.  ERROR interrupts are never enabled, so         *)
(* vI2cInterruptErrorRoutine does not run.                                 *)
(***************************************************************************)
Continue(op) == bus' = op

\* ucDataCounter is a byte.
NextCount == (counter[current] + 1) % 256

Notify(error) == notified' = TRUE /\ value' = error

\* Mutant: the write is over when its last byte is in DATA.
SendData_NoLastAck ==
  /\ counter' = [counter EXCEPT ![current] = NextCount]
  /\ Continue("data")
  /\ IF counter[current] + 1 >= length[current]
     THEN Notify("None") ELSE UNCHANGED noteVars

SendData ==
  IF counter[current] < length[current]
  THEN /\ counter' = [counter EXCEPT ![current] = NextCount]
       /\ Continue("data")
       /\ UNCHANGED noteVars
  ELSE Notify("None") /\ UNCHANGED <<counter, bus>>

\* The register address; the state that follows depends on the transaction.
SendRegister ==
  /\ counter' = [counter EXCEPT ![current] = 0]
  /\ Continue("register")
  /\ xState' = CASE type[current] = "I2C_WRITE" -> "I2C_WRITE_DATA"
                 [] type[current] = "I2C_WRITEREAD" -> "I2C_READ_DATA"
                 [] OTHER -> xState
  /\ UNCHANGED noteVars

vI2cInterruptMBRoutine ==
  /\ mbEnabled /\ mb # "none"
  /\ mb' = "none"
  /\ \/ /\ mb = "error"          \* the notification, then STOP
        /\ Notify("Error")
        /\ Continue("none")
        /\ UNCHANGED <<counter, xState>>
     \/ /\ mb = "ack"
        /\ xState = "I2C_WRITE_REGISTER"
        /\ SendRegister
     \/ /\ mb = "ack"
        /\ xState = "I2C_READ_DATA"
        /\ Continue("addressRead")
        /\ UNCHANGED <<counter, noteVars, xState>>
     \/ /\ mb = "ack"
        /\ xState = "I2C_WRITE_DATA"
        /\ SendData
        /\ UNCHANGED xState
  /\ UNCHANGED <<init, nullQueue, requestVars, moved, queue, driverVars, irqVars, sb, late>>

\* Mutant: one byte too many is acknowledged before the STOP.
vI2cInterruptSBRoutine_OneMore ==
  /\ sbEnabled /\ sb
  /\ sb' = FALSE
  /\ counter' = [counter EXCEPT ![current] = NextCount]
  /\ Continue(IF counter[current] <= length[current] THEN "read" ELSE "none")
  /\ notified' = (notified \/ counter[current] + 1 >= length[current])
  /\ UNCHANGED <<init, nullQueue, requestVars, moved, queue, driverVars, xState, irqVars,
                 value, mb, late>>

\* eSetBits with I2cmError_None leaves the value as it is.
vI2cInterruptSBRoutine ==
  /\ sbEnabled /\ sb
  /\ sb' = FALSE
  /\ counter' = [counter EXCEPT ![current] = NextCount]
  /\ IF NextCount < length[current]
     THEN Continue("read") /\ UNCHANGED notified
     ELSE Continue("none") /\ notified' = TRUE
  /\ UNCHANGED <<init, nullQueue, requestVars, moved, queue, driverVars, xState, irqVars,
                 value, mb, late>>

-----------------------------------------------------------------------------
\* A failed configASSERT stops the program.
Halted == nullQueue /\ UNCHANGED vars

Next ==
  \/ /\ ~nullQueue
     /\ \/ Create
        \/ \E r \in Requesters : Request(r)
        \/ Driver
        \/ Acknowledged
        \/ Failed
        \/ Arrived
        \/ vI2cInterruptMBRoutine
        \/ vI2cInterruptSBRoutine
  \/ Halted

\* The driver task is scheduled, and xTimeout is finite.  The bus owes
\* nothing.
Fairness == WF_vars(~nullQueue /\ (Create \/ Driver))

Spec == Init /\ [][Next]_vars /\ Fairness

-----------------------------------------------------------------------------
(***************************************************************************)
(* Properties.                                                             *)
(***************************************************************************)

\* A transaction answered with xTransactionSuccess has had all of its bytes
\* acknowledged or received, as long as no answer of a device came after its
\* transaction had been given up (i2c_interrupt.c:108-117).
SuccessMeansTransferred ==
  pc = "answer" /\ success[current] /\ ~late => moved = length[current]

\* The SB routine, which tests no bound before it stores
\* (i2c_interrupt.c:192-197), stores inside pcData.
ReadInBounds ==
  sb /\ sbEnabled /\ ~late => counter[current] < length[current]

\* Once it is answered, a transaction is the requester's own again: neither
\* interrupt routine counts in it (i2c_interrupt.c:117).
AnsweredIsUntouched ==
  [][\A r \in Requesters :
       r \notin waiting /\ r \notin waiting' /\ ~late => counter'[r] = counter[r]]_vars

\* Every transaction is answered, also when the device or the bus never does.
RequestAnswered == \A r \in Requesters : r \in waiting ~> r \notin waiting

\* What configASSERT( ( pxQueue ) ) at queue.c:1361 says: the driver task does
\* not receive from a queue that does not exist yet.
QueueExists == ~nullQueue
=============================================================================
