-------------------------- MODULE I2cInterrupt_proofs --------------------------
(***************************************************************************)
(* Proofs about the queued I2C master, for any number of requesters, any   *)
(* lengths and any size of the queue.                                      *)
(***************************************************************************)
EXTENDS I2cInterrupt, SequenceTheorems, TLAPS

(***************************************************************************)
(* The inductive invariant, as long as no answer was late.                 *)
(***************************************************************************)
\* A queued transaction waits for its turn with its counter at 0, and the
\* driver works on none of them.
QueuedOnce ==
  \A i \in 1 .. Len(queue) :
    /\ queue[i] \in waiting
    /\ counter[queue[i]] = 0
    /\ pc # "receive" => queue[i] # current
    /\ \A j \in 1 .. Len(queue) : i # j => queue[i] # queue[j]

\* No flag, no notification: the bus has nothing to say.
Silent == mb = "none" /\ ~sb /\ ~notified

CurrentWaits ==
  pc # "receive" => current \in waiting

\* Before its address is written, a transaction has not started; and what was
\* given up before it is still silent.
NotStarted ==
  /\ pc \in {"receive", "reset", "state", "enable", "address", "answer"} => Silent
  /\ pc \in {"receive", "reset", "answer"} => timedOut \/ bus = "none"
  /\ pc \in {"state", "enable", "address"} => bus = "none" /\ moved = 0
  /\ pc \in {"reset", "state", "enable", "address"} => counter[current] = 0
  /\ pc \in {"state", "enable", "address", "wait", "blocked"} => ~timedOut
  /\ pc \in {"enable", "address"} =>
       xState = IF type[current] = "I2C_READ" THEN "I2C_READ_DATA" ELSE "I2C_WRITE_REGISTER"

\* What the routines have done so far for the transaction under way.  Only one
\* of the bus, the two flags and the notification says what comes next.
OneThing ==
  /\ bus # "none" => mb = "none" /\ ~sb /\ ~notified
  /\ mb # "none" => ~sb /\ ~notified
  /\ sb => ~notified

Counted ==
  /\ xState = "I2C_WRITE_REGISTER" => type[current] # "I2C_READ"
  /\ bus \in {"address", "register", "addressRead"} => moved = 0
  /\ bus = "address" => xState = "I2C_WRITE_REGISTER"
  /\ bus = "register" => xState \in {"I2C_READ_DATA", "I2C_WRITE_DATA"}
  /\ bus \in {"register", "addressRead"} => counter[current] = 0
  /\ bus \in {"addressRead", "read"} => xState = "I2C_READ_DATA"
  /\ bus = "data" => xState = "I2C_WRITE_DATA" /\ counter[current] = moved + 1
                       /\ moved < length[current]
  /\ bus = "read" => counter[current] = moved /\ moved < length[current]
  /\ mb = "ack" /\ xState = "I2C_READ_DATA" => counter[current] = 0 /\ moved = 0
  /\ mb = "ack" /\ xState = "I2C_WRITE_REGISTER" => moved = 0
  /\ mb = "ack" /\ xState = "I2C_WRITE_DATA" =>
       counter[current] = moved /\ moved <= length[current]
  /\ sb => /\ xState = "I2C_READ_DATA"
           /\ moved = counter[current] + 1 /\ moved <= length[current]
  /\ notified /\ value = "None" => moved = length[current]

UnderWay == pc \in {"wait", "blocked"} => OneThing /\ Counted

Answered == pc = "answer" /\ success[current] => moved = length[current]

TransferInv ==
  ~late => QueuedOnce /\ CurrentWaits /\ NotStarted /\ UnderWay /\ Answered

IInv == TypeOK /\ TransferInv

USE ConfigAssumption

-----------------------------------------------------------------------------
(***************************************************************************)
(* Types.                                                                  *)
(***************************************************************************)
LEMMA InitType == Init => TypeOK
<1> SUFFICES ASSUME Init PROVE TypeOK
  OBVIOUS
<1>1. /\ type \in [Requesters -> Types]
      /\ counter \in [Requesters -> 0 .. 255]
      /\ success \in [Requesters -> BOOLEAN]
  BY DEF Init, Types
<1>2. queue \in Seq(Requesters) /\ Len(queue) <= uxQueueLength
  BY DEF Init
<1> QED
  BY <1>1, <1>2 DEF Init, TypeOK, States, Errors, Steps, Operations

LEMMA CountType ==
  ASSUME TypeOK, NEW n \in 0 .. 255
  PROVE  /\ (n + 1) % 256 \in 0 .. 255
         /\ n < 255 => (n + 1) % 256 = n + 1
  OBVIOUS

LEMMA CounterType ==
  ASSUME TypeOK
  PROVE  [counter EXCEPT ![current] = NextCount] \in [Requesters -> 0 .. 255]
<1>1. CASE current \in Requesters
  <2>1. counter[current] \in 0 .. 255
    BY <1>1 DEF TypeOK
  <2>2. NextCount \in 0 .. 255
    BY <2>1, CountType DEF NextCount
  <2> QED
    BY <1>1, <2>2 DEF TypeOK
<1>2. CASE current \notin Requesters
  <2>1. counter \in [Requesters -> 0 .. 255]
    BY DEF TypeOK
  <2>2. [counter EXCEPT ![current] = NextCount] = counter
    BY <1>2, <2>1, Zenon
  <2> QED
    BY <2>1, <2>2
<1> QED
  BY <1>1, <1>2

\* The parts of TypeOK the driver task, the requesters and the bus disturb.
LEMMA RequestType ==
  ASSUME TypeOK, NEW r \in Requesters, Request(r)
  PROVE  TypeOK'
<1>1. queue' \in Seq(Requesters) /\ Len(queue') <= uxQueueLength
  BY DEF TypeOK, Request
<1>2. PICK t \in Types : type' = [type EXCEPT ![r] = t]
  BY DEF Request
<1>3. type' \in [Requesters -> Types]
  <2>1. type \in [Requesters -> Types]
    BY DEF TypeOK
  <2> QED
    BY <1>2, <2>1
<1>4. counter' \in [Requesters -> 0 .. 255]
  <2>1. counter \in [Requesters -> 0 .. 255]
    BY DEF TypeOK
  <2> QED
    BY <2>1 DEF Request
<1> QED
  BY <1>1, <1>3, <1>4 DEF TypeOK, Request, driverVars, irqVars, noteVars, busVars

LEMMA ReceiveType ==
  ASSUME TypeOK, Receive
  PROVE  TypeOK'
<1>1. /\ current' \in Requesters
      /\ queue' \in Seq(Requesters) /\ Len(queue') <= uxQueueLength
  BY DEF TypeOK, Receive
<1> QED
  BY <1>1 DEF TypeOK, Receive, DriverStep, Steps, requestVars, irqVars, noteVars, busVars

LEMMA DriverType ==
  ASSUME TypeOK, Driver
  PROVE  TypeOK'
<1> USE DEF TypeOK, DriverStep, requestVars, irqVars, noteVars, busVars
<1>1. CASE Receive
  BY <1>1, ReceiveType
<1>2. CASE ReceiveFromNull
  BY <1>2 DEF ReceiveFromNull, Steps
<1>3. CASE ResetBus
  BY <1>3 DEF ResetBus, Steps, Operations
<1>4. CASE SetState
  BY <1>4 DEF SetState, Steps, States
<1>5. CASE EnableInterrupts
  BY <1>5 DEF EnableInterrupts, Steps
<1>6. CASE WriteAddress
  BY <1>6 DEF WriteAddress, Start, Steps, Operations
<1>7. CASE EnterWait
  BY <1>7 DEF EnterWait, Steps, Errors
<1>8. CASE WakeUp
  <2>1. pc' = "answer" /\ init' = init /\ UNCHANGED <<requestVars, counter>>
    BY <1>8 DEF WakeUp
  <2>2. success' \in [Requesters -> BOOLEAN]
    BY <1>8 DEF WakeUp
  <2> QED
    BY <1>8, <2>1, <2>2 DEF WakeUp, Steps
<1>9. CASE TimeOut
  BY <1>9 DEF TimeOut, Steps
<1>10. CASE Answer
  BY <1>10 DEF Answer, Steps, dataVars
<1> QED
  BY <1>1, <1>2, <1>3, <1>4, <1>5, <1>6, <1>7, <1>8, <1>9, <1>10 DEF Driver

LEMMA BusType ==
  ASSUME TypeOK, Acknowledged \/ Failed \/ Arrived
  PROVE  TypeOK'
<1> USE DEF TypeOK, Finish, requestVars, driverVars, irqVars, noteVars, Operations
<1>1. CASE Acknowledged
  BY <1>1 DEF Acknowledged
<1>2. CASE Failed
  BY <1>2 DEF Failed
<1>3. CASE Arrived
  BY <1>3 DEF Arrived
<1> QED
  BY <1>1, <1>2, <1>3

LEMMA ResetType ==
  ASSUME counter \in [Requesters -> 0 .. 255]
  PROVE  [counter EXCEPT ![current] = 0] \in [Requesters -> 0 .. 255]
<1>1. CASE current \in Requesters
  BY <1>1
<1>2. CASE current \notin Requesters
  <2>1. [counter EXCEPT ![current] = 0] = counter
    BY <1>2, Zenon
  <2> QED
    BY <2>1
<1> QED
  BY <1>1, <1>2

LEMMA MBType ==
  ASSUME TypeOK, vI2cInterruptMBRoutine
  PROVE  TypeOK'
<1>1. counter' \in [Requesters -> 0 .. 255]
  <2>1. counter \in [Requesters -> 0 .. 255]
    BY DEF TypeOK
  <2>2. \/ counter' = counter
        \/ counter' = [counter EXCEPT ![current] = NextCount]
        \/ counter' = [counter EXCEPT ![current] = 0]
    BY DEF vI2cInterruptMBRoutine, SendRegister, SendData
  <2>3. [counter EXCEPT ![current] = 0] \in [Requesters -> 0 .. 255]
    BY <2>1, ResetType
  <2> QED
    BY <2>1, <2>2, <2>3, CounterType
<1>2. /\ xState' \in States
      /\ notified' \in BOOLEAN /\ value' \in Errors
      /\ bus' \in Operations
  BY DEF TypeOK, vI2cInterruptMBRoutine, SendRegister, SendData, Notify, Continue,
         noteVars, States, Errors, Operations
<1> QED
  BY <1>1, <1>2 DEF TypeOK, vI2cInterruptMBRoutine, requestVars, driverVars, irqVars

LEMMA SBType ==
  ASSUME TypeOK, vI2cInterruptSBRoutine
  PROVE  TypeOK'
<1>1. counter' \in [Requesters -> 0 .. 255]
  BY CounterType DEF vI2cInterruptSBRoutine
<1>2. notified' \in BOOLEAN /\ bus' \in Operations
  BY DEF TypeOK, vI2cInterruptSBRoutine, Continue, Operations
<1> QED
  BY <1>1, <1>2 DEF TypeOK, vI2cInterruptSBRoutine, requestVars, driverVars, irqVars

LEMMA NextType ==
  ASSUME TypeOK, [Next]_vars
  PROVE  TypeOK'
<1>1. CASE Create
  BY <1>1 DEF TypeOK, Create, requestVars, dataVars, driverVars, irqVars, noteVars, busVars
<1>2. CASE UNCHANGED vars
  BY <1>2 DEF TypeOK, vars, requestVars, dataVars, driverVars, irqVars, noteVars, busVars
<1> QED
  BY <1>1, <1>2, RequestType, DriverType, BusType, MBType, SBType DEF Next, Halted

\* Every variable keeps its type; ucDataCounter stays a byte also when an
\* interrupt routine runs for a transaction that is over.
THEOREM TypeCorrect == Spec => []TypeOK
<1>1. Init => TypeOK
  BY InitType
<1>2. TypeOK /\ [Next]_vars => TypeOK'
  BY NextType
<1> QED
  BY <1>1, <1>2, PTL DEF Spec
-----------------------------------------------------------------------------
(***************************************************************************)
(* What success means.                                                     *)
(***************************************************************************)
\* TransferInv, for a state in which no answer has been late.
PunctualInv == QueuedOnce /\ CurrentWaits /\ NotStarted /\ UnderWay /\ Answered

LEMMA InitTransfer == Init => TransferInv
  BY DEF Init, TransferInv, QueuedOnce, CurrentWaits, NotStarted, Silent, UnderWay, Answered

\* A queue that is left alone, with every counter outside the driver's hands.
LEMMA QueueKept ==
  ASSUME TypeOK, QueuedOnce, UNCHANGED queue,
         pc' # "receive" => pc # "receive" /\ current' = current,
         \A i \in 1 .. Len(queue) :
           queue[i] \in waiting' /\ counter'[queue[i]] = counter[queue[i]]
  PROVE  QueuedOnce'
  BY DEF QueuedOnce

LEMMA RequestKeeps ==
  ASSUME TypeOK, PunctualInv, NEW r \in Requesters, Request(r)
  PROVE  PunctualInv'
<1> USE DEF PunctualInv, Request, driverVars, irqVars, noteVars, busVars
<1>1. /\ queue \in Seq(Requesters) /\ waiting \subseteq Requesters
      /\ counter \in [Requesters -> 0 .. 255]
  BY DEF TypeOK
<1>2. counter' \in [Requesters -> 0 .. 255] /\ counter'[r] = 0
  BY <1>1
<1>3. \A q \in waiting : q # r /\ counter'[q] = counter[q]
  BY <1>1
<1>4. PICK t \in Types : type' = [type EXCEPT ![r] = t]
  OBVIOUS
<1>5. \A q \in waiting : type'[q] = type[q]
  BY <1>1, <1>3, <1>4 DEF TypeOK
<1>6. QueuedOnce'
  <2>1. /\ Len(queue') = Len(queue) + 1
        /\ \A i \in 1 .. Len(queue) : queue'[i] = queue[i] /\ queue[i] \in waiting
        /\ queue'[Len(queue) + 1] = r
    BY <1>1, AppendProperties DEF QueuedOnce
  <2>2. pc # "receive" => current \in waiting
    BY DEF CurrentWaits
  <2> SUFFICES ASSUME NEW i \in 1 .. Len(queue')
               PROVE  /\ queue'[i] \in waiting'
                      /\ counter'[queue'[i]] = 0
                      /\ pc' # "receive" => queue'[i] # current'
                      /\ \A j \in 1 .. Len(queue') : i # j => queue'[i] # queue'[j]
    BY DEF QueuedOnce
  <2>3. Len(queue) \in Nat
    BY <1>1, LenProperties
  <2>4. CASE i = Len(queue) + 1
    <3>1. \A j \in 1 .. Len(queue') : i # j => j \in 1 .. Len(queue)
      BY <2>1, <2>3, <2>4
    <3> QED
      BY <1>2, <1>3, <2>1, <2>2, <2>4, <3>1
  <2>5. CASE i \in 1 .. Len(queue)
    <3>1. /\ queue'[i] \in waiting' /\ counter'[queue'[i]] = 0
          /\ pc' # "receive" => queue'[i] # current'
      BY <1>3, <2>1, <2>5 DEF QueuedOnce
    <3>2. ASSUME NEW j \in 1 .. Len(queue'), i # j PROVE queue'[i] # queue'[j]
      <4>1. j = Len(queue) + 1 \/ j \in 1 .. Len(queue)
        BY <2>1, <2>3
      <4> QED
        BY <1>3, <2>1, <2>5, <3>2, <4>1 DEF QueuedOnce
    <3> QED
      BY <3>1, <3>2
  <2> QED
    BY <2>1, <2>3, <2>4, <2>5
<1>7. CurrentWaits'
  BY DEF CurrentWaits
<1>8. pc # "receive" => counter'[current] = counter[current] /\ type'[current] = type[current]
  BY <1>3, <1>5 DEF CurrentWaits
<1>9. NotStarted'
  BY <1>8 DEF NotStarted, Silent
<1>10. UnderWay'
  BY <1>8 DEF UnderWay, OneThing, Counted
<1>11. Answered'
  BY DEF Answered
<1> QED
  BY <1>6, <1>7, <1>9, <1>10, <1>11

LEMMA ReceiveKeeps ==
  ASSUME TypeOK, PunctualInv, Receive
  PROVE  PunctualInv'
<1> USE DEF PunctualInv, Receive, DriverStep, requestVars, irqVars, noteVars, busVars
<1>1. queue \in Seq(Requesters) /\ queue # <<>>
  BY DEF TypeOK
<1>2. /\ current' = queue[1] /\ Len(queue) \in Nat /\ Len(queue) >= 1
      /\ Len(queue') = Len(queue) - 1
      /\ \A i \in 1 .. Len(queue') : queue'[i] = queue[i + 1]
  BY <1>1, HeadTailProperties, LenProperties, EmptySeq
<1>3. \A i \in 1 .. Len(queue') : i + 1 \in 1 .. Len(queue)
  BY <1>2
<1>4. QueuedOnce'
  <2>1. \A i \in 1 .. Len(queue') :
          /\ queue'[i] \in waiting' /\ counter'[queue'[i]] = 0 /\ queue'[i] # current'
          /\ \A j \in 1 .. Len(queue') : i # j => queue'[i] # queue'[j]
    BY <1>2, <1>3 DEF QueuedOnce
  <2> QED
    BY <2>1 DEF QueuedOnce
<1>5. current' \in waiting' /\ counter'[current'] = 0
  BY <1>2 DEF QueuedOnce
<1> QED
  BY <1>4, <1>5 DEF CurrentWaits, NotStarted, Silent, UnderWay, Answered

\* The steps of the driver up to the address.
LEMMA StartKeeps ==
  ASSUME TypeOK, PunctualInv, ResetBus \/ SetState \/ EnableInterrupts \/ WriteAddress
  PROVE  PunctualInv'
<1> USE DEF PunctualInv, DriverStep, requestVars, irqVars, noteVars, busVars
<1>1. QueuedOnce' /\ CurrentWaits'
  <2>1. /\ pc # "receive" /\ pc' # "receive"
        /\ UNCHANGED <<queue, current, waiting, counter>>
    BY DEF ResetBus, SetState, EnableInterrupts, WriteAddress
  <2> QED
    BY <2>1, QueueKept DEF QueuedOnce, CurrentWaits
<1>2. CASE ResetBus
  BY <1>1, <1>2 DEF ResetBus, NotStarted, Silent, UnderWay, Answered
<1>3. CASE SetState
  BY <1>1, <1>3 DEF SetState, NotStarted, Silent, UnderWay, Answered
<1>4. CASE EnableInterrupts
  BY <1>1, <1>4 DEF EnableInterrupts, NotStarted, Silent, UnderWay, Answered
<1>5. CASE WriteAddress
  BY <1>1, <1>5 DEF WriteAddress, Start, NotStarted, Silent, UnderWay, OneThing, Counted, Answered
<1> QED
  BY <1>2, <1>3, <1>4, <1>5

\* The wait and the answer.
LEMMA WaitKeeps ==
  ASSUME TypeOK, PunctualInv, ~late', EnterWait \/ WakeUp \/ TimeOut \/ Answer
  PROVE  PunctualInv'
<1> USE DEF PunctualInv, DriverStep, requestVars, irqVars, noteVars, busVars, dataVars
<1>1. CASE EnterWait
  <2>1. QueuedOnce' /\ CurrentWaits'
    BY <1>1, QueueKept DEF EnterWait, QueuedOnce, CurrentWaits
  <2> QED
    BY <1>1, <2>1 DEF EnterWait, NotStarted, Silent, UnderWay, OneThing, Counted, Answered
<1>2. CASE WakeUp
  <2>1. pc \in {"wait", "blocked"} /\ pc' = "answer" /\ UNCHANGED <<waiting, counter, type>>
    BY <1>2 DEF WakeUp
  <2>2. QueuedOnce' /\ CurrentWaits'
    BY <1>2, <2>1, QueueKept DEF WakeUp, QueuedOnce, CurrentWaits
  <2>3. OneThing /\ Counted
    BY <2>1 DEF UnderWay
  <2>4. NotStarted' /\ UnderWay'
    BY <1>2, <2>1, <2>3 DEF WakeUp, OneThing, NotStarted, Silent, UnderWay
  <2>5. Answered'
    <3>1. current \in Requesters /\ success \in [Requesters -> BOOLEAN]
      BY <2>1 DEF TypeOK, CurrentWaits
    <3>2. success'[current] = (value = "None")
      BY <1>2, <3>1 DEF WakeUp
    <3>3. UNCHANGED <<current, moved>>
      BY <1>2 DEF WakeUp
    <3> QED
      BY <1>2, <2>3, <3>2, <3>3 DEF WakeUp, Counted, Answered
  <2> QED
    BY <2>2, <2>4, <2>5
<1>3. CASE TimeOut
  <2>1. QueuedOnce' /\ CurrentWaits'
    BY <1>3, QueueKept DEF TimeOut, QueuedOnce, CurrentWaits
  <2>2. mb = "none" /\ ~sb
    BY <1>3 DEF TimeOut, TypeOK
  <2>3. ~success'[current]
    BY <1>3 DEF TimeOut, TypeOK, CurrentWaits
  <2> QED
    BY <1>3, <2>1, <2>2, <2>3 DEF TimeOut, NotStarted, Silent, UnderWay, Answered
<1>4. CASE Answer
  <2>1. QueuedOnce'
    BY <1>4, QueueKept DEF Answer, QueuedOnce
  <2> QED
    BY <1>4, <2>1 DEF Answer, CurrentWaits, NotStarted, Silent, UnderWay, Answered
<1> QED
  BY <1>1, <1>2, <1>3, <1>4

\* The bus acts only on the transaction the driver waits for.
LEMMA BusKeeps ==
  ASSUME TypeOK, PunctualInv, ~late', Acknowledged \/ Failed \/ Arrived
  PROVE  PunctualInv'
<1> USE DEF PunctualInv, Finish, requestVars, driverVars, irqVars, noteVars
<1>1. bus # "none" /\ ~timedOut
  BY DEF Acknowledged, Failed, Arrived
<1>2. pc \in {"wait", "blocked"} /\ OneThing /\ Counted
  BY <1>1 DEF TypeOK, Steps, NotStarted, UnderWay
<1>3. UNCHANGED <<queue, waiting, counter, type, pc, current, success, timedOut, xState,
                  notified, value>>
  BY DEF Acknowledged, Failed, Arrived
<1>4. QueuedOnce' /\ CurrentWaits' /\ NotStarted' /\ Answered'
  BY <1>2, <1>3, QueueKept DEF QueuedOnce, CurrentWaits, NotStarted, Answered
<1>5. counter[current] \in 0 .. 255 /\ moved \in Nat /\ length[current] \in 1 .. 254
  BY <1>2 DEF CurrentWaits, TypeOK
<1>6. OneThing' /\ Counted'
  <2>1. CASE Acknowledged
    BY <1>1, <1>2, <1>3, <1>5, <2>1 DEF Acknowledged, OneThing, Counted
  <2>2. CASE Failed
    BY <1>1, <1>2, <1>3, <1>5, <2>2 DEF Failed, OneThing, Counted
  <2>3. CASE Arrived
    BY <1>1, <1>2, <1>3, <1>5, <2>3 DEF Arrived, OneThing, Counted
  <2> QED
    BY <2>1, <2>2, <2>3
<1> QED
  BY <1>4, <1>6 DEF UnderWay

\* What an interrupt routine leaves alone while the driver waits.
LEMMA RoutineFrame ==
  ASSUME TypeOK, PunctualInv, pc \in {"wait", "blocked"},
         UNCHANGED <<requestVars, queue, driverVars>>,
         \A q \in Requesters : q # current => counter'[q] = counter[q]
  PROVE  QueuedOnce' /\ CurrentWaits' /\ NotStarted' /\ Answered'
<1> USE DEF PunctualInv, requestVars, driverVars
<1>1. QueuedOnce'
  <2>1. \A i \in 1 .. Len(queue) : queue[i] \in Requesters /\ queue[i] # current
    BY DEF QueuedOnce, TypeOK
  <2> QED
    BY <2>1, QueueKept DEF QueuedOnce
<1> QED
  BY <1>1 DEF CurrentWaits, NotStarted, Answered

LEMMA MBKeeps ==
  ASSUME TypeOK, PunctualInv, vI2cInterruptMBRoutine
  PROVE  PunctualInv'
<1> USE DEF PunctualInv
<1>1. pc \in {"wait", "blocked"} /\ OneThing /\ Counted
  BY DEF vI2cInterruptMBRoutine, TypeOK, Steps, NotStarted, Silent, UnderWay
<1>2. /\ current \in Requesters /\ counter \in [Requesters -> 0 .. 255]
      /\ counter[current] \in 0 .. 255 /\ moved \in Nat /\ length[current] \in 1 .. 254
  BY <1>1 DEF CurrentWaits, TypeOK
<1>3. UNCHANGED <<requestVars, queue, driverVars, moved, sb>>
  BY DEF vI2cInterruptMBRoutine
<1>4. \A q \in Requesters : q # current => counter'[q] = counter[q]
  BY <1>2 DEF vI2cInterruptMBRoutine, SendRegister, SendData
<1>5. counter[current] < length[current] => NextCount = counter[current] + 1
  BY <1>2, CountType DEF NextCount
<1>6. OneThing' /\ Counted'
  <2>0. mb # "none" /\ bus = "none" /\ ~sb /\ ~notified /\ mb' = "none"
    BY <1>1 DEF vI2cInterruptMBRoutine, OneThing
  <2> USE <1>1, <1>2, <1>3, <2>0 DEF OneThing, Counted, Continue, Notify, noteVars, driverVars,
                                     requestVars
  <2>1. CASE mb = "error"
    BY <2>1 DEF vI2cInterruptMBRoutine
  <2>2. CASE mb = "ack" /\ xState = "I2C_WRITE_REGISTER"
    <3>1. /\ counter'[current] = 0 /\ bus' = "register" /\ UNCHANGED noteVars
          /\ xState' = CASE type[current] = "I2C_WRITE" -> "I2C_WRITE_DATA"
                         [] type[current] = "I2C_WRITEREAD" -> "I2C_READ_DATA"
                         [] OTHER -> xState
      BY <2>2 DEF vI2cInterruptMBRoutine, SendRegister
    <3> QED
      <4>1. type[current] \in Types /\ type[current] # "I2C_READ"
        BY <2>2 DEF TypeOK
      <4>2. xState' \in {"I2C_READ_DATA", "I2C_WRITE_DATA"}
        BY <3>1, <4>1 DEF Types
      <4> QED
        BY <2>2, <3>1, <4>2
  <2>3. CASE mb = "ack" /\ xState = "I2C_READ_DATA"
    BY <2>3 DEF vI2cInterruptMBRoutine
  <2>4. CASE mb = "ack" /\ xState = "I2C_WRITE_DATA"
    <3>1. SendData /\ UNCHANGED xState
      BY <2>4 DEF vI2cInterruptMBRoutine
    <3>2. CASE counter[current] < length[current]
      <4>1. NextCount = counter[current] + 1
        BY <1>5, <3>2
      <4>2. counter'[current] = counter[current] + 1 /\ bus' = "data" /\ UNCHANGED noteVars
        BY <3>1, <3>2, <4>1 DEF SendData
      <4> QED
        BY <2>4, <3>1, <3>2, <4>2
    <3>3. CASE ~(counter[current] < length[current])
      BY <2>4, <3>1, <3>3 DEF SendData
    <3> QED
      BY <3>2, <3>3
  <2> QED
    BY <2>1, <2>2, <2>3, <2>4 DEF vI2cInterruptMBRoutine
<1> QED
  BY <1>1, <1>3, <1>4, <1>6, RoutineFrame DEF UnderWay

LEMMA SBKeeps ==
  ASSUME TypeOK, PunctualInv, vI2cInterruptSBRoutine
  PROVE  PunctualInv'
<1> USE DEF PunctualInv
<1>1. pc \in {"wait", "blocked"} /\ OneThing /\ Counted
  BY DEF vI2cInterruptSBRoutine, TypeOK, Steps, NotStarted, Silent, UnderWay
<1>2. /\ current \in Requesters /\ counter \in [Requesters -> 0 .. 255]
      /\ counter[current] \in 0 .. 255 /\ moved \in Nat /\ length[current] \in 1 .. 254
  BY <1>1 DEF CurrentWaits, TypeOK
<1>3. UNCHANGED <<requestVars, queue, driverVars, moved, mb, xState, value>>
  BY DEF vI2cInterruptSBRoutine
<1>4. \A q \in Requesters : q # current => counter'[q] = counter[q]
  BY <1>2 DEF vI2cInterruptSBRoutine
<1>5. /\ sb /\ bus = "none" /\ mb = "none" /\ ~notified /\ ~sb'
      /\ moved = counter[current] + 1 /\ moved <= length[current]
  BY <1>1 DEF vI2cInterruptSBRoutine, OneThing, Counted
<1>6. NextCount = moved /\ counter'[current] = moved
  BY <1>2, <1>5, CountType DEF vI2cInterruptSBRoutine, NextCount
<1>7. OneThing' /\ Counted'
  <2>1. current' = current
    BY <1>3 DEF driverVars
  <2>2. CASE moved < length[current]
    <3>1. bus' = "read" /\ ~notified'
      BY <1>5, <1>6, <2>2 DEF vI2cInterruptSBRoutine, Continue
    <3>2. xState = "I2C_READ_DATA"
      BY <1>1, <1>5 DEF Counted
    <3> QED
      BY <1>1, <1>2, <1>3, <1>5, <1>6, <2>1, <2>2, <3>1, <3>2 DEF OneThing, Counted
  <2>3. CASE ~(moved < length[current])
    <3>1. bus' = "none" /\ notified'
      BY <1>6, <2>3 DEF vI2cInterruptSBRoutine, Continue
    <3> QED
      BY <1>1, <1>2, <1>3, <1>5, <1>6, <2>1, <2>3, <3>1 DEF OneThing, Counted
  <2> QED
    BY <2>2, <2>3
<1> QED
  BY <1>1, <1>3, <1>4, <1>7, RoutineFrame DEF UnderWay

LEMMA NextTransfer ==
  ASSUME TypeOK, TransferInv, [Next]_vars
  PROVE  TransferInv'
<1> SUFFICES ASSUME ~late' PROVE PunctualInv'
  BY DEF TransferInv, PunctualInv
<1>1. ~late
  BY DEF Next, Halted, vars, Create, Request, Driver, Receive, ReceiveFromNull, ResetBus,
         SetState, EnableInterrupts, WriteAddress, EnterWait, WakeUp, TimeOut, Answer,
         Acknowledged, Failed, Arrived, Finish, vI2cInterruptMBRoutine, vI2cInterruptSBRoutine
<1>2. PunctualInv
  BY <1>1 DEF TransferInv, PunctualInv
<1>3. CASE Create \/ ReceiveFromNull \/ UNCHANGED vars
  <2>1. UNCHANGED <<requestVars, dataVars, queue, driverVars, xState, irqVars, noteVars, busVars>>
    BY <1>3 DEF Create, ReceiveFromNull, DriverStep, vars, dataVars, driverVars
  <2> QED
    BY <1>2, <2>1 DEF PunctualInv, QueuedOnce, CurrentWaits, NotStarted, Silent, UnderWay, OneThing,
       Counted, Answered, requestVars, dataVars, driverVars, irqVars, noteVars, busVars
<1> QED
  BY <1>2, <1>3, RequestKeeps, ReceiveKeeps, StartKeeps, WaitKeeps, BusKeeps, MBKeeps, SBKeeps
     DEF Next, Driver, Halted

LEMMA Inductive == Spec => []IInv
<1>1. Init => IInv
  BY InitType, InitTransfer DEF IInv
<1>2. IInv /\ [Next]_vars => IInv'
  BY NextType, NextTransfer DEF IInv
<1> QED
  BY <1>1, <1>2, PTL DEF Spec

\* For any number of tasks, any queue and any lengths, success means that
\* every byte of the transaction crossed the bus, whatever the devices and the
\* interleaving of driver and routines, unless an answer came too late.
THEOREM SuccessIsTransfer == Spec => []SuccessMeansTransferred
<1>1. IInv => SuccessMeansTransferred
  BY DEF IInv, TransferInv, Answered, SuccessMeansTransferred
<1> QED
  BY <1>1, Inductive, PTL

\* Under the same condition every received byte is stored inside pcData.
THEOREM ReadsStayInBounds == Spec => []ReadInBounds
<1>1. IInv => ReadInBounds
  <2> SUFFICES ASSUME IInv, sb = TRUE, ~late PROVE counter[current] < length[current]
    BY DEF ReadInBounds, IInv, TypeOK
  <2>1. pc \in {"wait", "blocked"} /\ Counted
    BY DEF IInv, TransferInv, TypeOK, Steps, NotStarted, Silent, UnderWay
  <2>2. current \in Requesters
    BY <2>1 DEF IInv, TransferInv, CurrentWaits, TypeOK
  <2>3. counter[current] \in 0 .. 255 /\ length[current] \in 1 .. 254
    BY <2>2 DEF IInv, TypeOK
  <2>4. moved = counter[current] + 1 /\ moved <= length[current]
    BY <2>1 DEF Counted
  <2> DEFINE c == counter[current]
             l == length[current]
  <2>5. c \in 0 .. 255 /\ l \in 1 .. 254 /\ c + 1 <= l
    BY <2>3, <2>4, Zenon
  <2> HIDE DEF c, l
  <2>6. c < l
    BY <2>5
  <2> QED
    BY <2>6, Zenon DEF c, l
<1> QED
  BY <1>1, Inductive, PTL

\* Both routines find an answer only while the driver waits, and then the
\* transaction they work on is not answered yet.
LEMMA RoutinesCountInWaiting ==
  ASSUME IInv, ~late, vI2cInterruptMBRoutine \/ vI2cInterruptSBRoutine
  PROVE  /\ current \in waiting
         /\ counter' = counter \/ \E n \in Nat : counter' = [counter EXCEPT ![current] = n]
<1>1. ~Silent
  BY DEF vI2cInterruptMBRoutine, vI2cInterruptSBRoutine, Silent
<1>2. pc # "receive"
  BY <1>1 DEF IInv, TransferInv, NotStarted
<1>3. current \in waiting
  BY <1>2 DEF IInv, TransferInv, CurrentWaits
<1>4. NextCount \in Nat
  <2>1. counter[current] \in 0 .. 255
    BY <1>3 DEF IInv, TypeOK
  <2> QED
    BY <2>1, CountType DEF NextCount, IInv
<1>5. counter' = counter \/ \E n \in Nat : counter' = [counter EXCEPT ![current] = n]
  BY <1>4 DEF vI2cInterruptMBRoutine, vI2cInterruptSBRoutine, SendRegister, SendData
<1> QED
  BY <1>3, <1>5

LEMMA UntouchedByStep ==
  ASSUME IInv, [Next]_vars, ~late,
         NEW r \in Requesters, r \notin waiting, r \notin waiting'
  PROVE  counter'[r] = counter[r]
<1>1. counter \in [Requesters -> 0 .. 255]
  BY DEF IInv, TypeOK
<1>2. ASSUME NEW q \in Requesters, Request(q) PROVE counter'[r] = counter[r]
  <2>1. q # r
    BY <1>2 DEF Request
  <2> QED
    BY <1>1, <1>2, <2>1 DEF Request
<1>3. CASE vI2cInterruptMBRoutine \/ vI2cInterruptSBRoutine
  <2>1. current # r
    BY <1>3, RoutinesCountInWaiting
  <2> QED
    BY <1>1, <1>3, <2>1, RoutinesCountInWaiting
<1>4. CASE Create \/ Driver \/ Acknowledged \/ Failed \/ Arrived \/ Halted \/ UNCHANGED vars
  BY <1>4 DEF Create, Driver, Receive, ReceiveFromNull, ResetBus, SetState, EnableInterrupts,
     WriteAddress, EnterWait, WakeUp, TimeOut, Answer, DriverStep, Acknowledged, Failed, Arrived,
     Finish, Halted, vars, dataVars
<1> QED
  BY <1>2, <1>3, <1>4 DEF Next

\* Once answered, a transaction is the requester's own again: no routine
\* counts in it, for any number of tasks and any interleaving, until an
\* answer comes late.
THEOREM AnsweredIsLeftAlone == Spec => AnsweredIsUntouched
<1>1. IInv /\ [Next]_vars
        => [\A r \in Requesters :
              r \notin waiting /\ r \notin waiting' /\ ~late => counter'[r] = counter[r]]_vars
  BY UntouchedByStep
<1> QED
  BY <1>1, Inductive, PTL DEF Spec, AnsweredIsUntouched
=============================================================================
