-------------------------- MODULE SpiDevices_proofs --------------------------
(***************************************************************************)
(* Theorems about the two devices on an SPI bus: SpiShift, for messages    *)
(* of any length, and Enc28j60, for a receive buffer of any size.          *)
(***************************************************************************)
EXTENDS SpiShift, Enc28j60, TLAPS

-----------------------------------------------------------------------------
(* The inductive invariant of SpiShift                                     *)

\* What holds whatever was left behind: the polling call has no handler.
PollInv ==
  /\ waits => shifting
  /\ TXC => ~shifting
  /\ polled => /\ taskpc \in {"idle", "poll", "last"}
               /\ handlerpc = "off" /\ INTENSET = {}
               /\ ~told /\ ~waits /\ ~stale
  /\ ~polled => taskpc \notin {"poll", "last"}
  /\ taskpc = "poll" =>
       /\ currentMessageSize >= 1 /\ currentReadIndex + 1 <= currentWriteIndex
       /\ currentWriteIndex < currentMessageSize \/ currentWriteIndex = 1
  /\ taskpc = "last" => \/ currentWriteIndex = currentMessageSize
                        \/ currentMessageSize = 1 /\ currentWriteIndex = 2

\* The bytes that were stored are shifted, in the shifter, or wait.
LineInv == currentWriteIndex = ended + InFlight

\* The last pulse showed a message, or the only byte of one and the next.
ShownInv ==
  \/ shown.ended = shown.size /\ shown.coming = 0
  \/ polled /\ shown = [size |-> 1, ended |-> 2, coming |-> 0]

\* Between two exchanges
IdleInv ==
  taskpc = "idle" =>
    /\ ~shifting /\ handlerpc = "off" /\ INTENSET = {} /\ ~told
    /\ ended = currentMessageSize \/ (polled /\ currentMessageSize = 1 /\ ended = 2)

\* Before the interrupts are enabled
FirstInv ==
  taskpc \in {"write", "enable"} =>
    /\ handlerpc = "off" /\ INTENSET = {} /\ ~told /\ ~waits
    /\ currentReadIndex = 0
    /\ currentWriteIndex = (IF taskpc = "write" THEN 0 ELSE 1)
    /\ taskpc = "enable" => shifting \/ TXC

\* The bytes of the message are read in their order.
OrderInv ==
  taskpc \in {"write", "enable", "disable", "wait"} =>
    /\ currentMessageSize >= 1 /\ currentWriteIndex <= currentMessageSize
    /\ Len(received) = ended - currentReadIndex
    /\ \A i \in 1 .. Len(received) : received[i] = currentReadIndex + i
    /\ reading => /\ Len(readMessage) = currentReadIndex
                  /\ \A i \in 1 .. Len(readMessage) : readMessage[i] = i
    /\ shifting /\ ~young => Len(received) <= 1

\* The handler and the interrupts that call it
HandlerInv ==
  taskpc \in {"disable", "wait"} =>
    /\ "DRE" \notin INTENSET => currentMessageSize <= currentWriteIndex
    /\ waits => "DRE" \in INTENSET
    /\ INTENSET \cap {"DRE", "TXC"} # {} => shifting \/ TXC
    /\ handlerpc \in {"write", "latch"} =>
         /\ Len(received) <= 1
         /\ shifting /\ ~young => received = <<>>
    /\ handlerpc = "latch" /\ "DRE" \in INTENSET => waits \/ (shifting /\ young)
    /\ told => /\ reading /\ currentReadIndex = currentMessageSize
               /\ "RXC" \notin INTENSET
               /\ handlerpc = "off" => INTENSET = {}
    /\ reading /\ ~told => currentReadIndex < currentMessageSize
    /\ taskpc = "wait" => "RXC" \notin INTENSET
    /\ INTENSET \cap {"DRE", "TXC"} = {} => ~shifting /\ ~TXC /\ Len(received) <= 1

\* As long as no byte was left behind, bytes read and bytes stored are in step.
InStep == ShownInv /\ LineInv /\ IdleInv /\ FirstInv /\ OrderInv /\ HandlerInv

SpiInv ==
  /\ SpiTypeOK /\ PollInv
  /\ ~stale => InStep

-----------------------------------------------------------------------------
(* What the SERCOM's registers hold after a step                           *)

\* A sequence with an element more
LEMMA Appended ==
  ASSUME NEW s \in Seq(Nat), NEW x \in Nat
  PROVE  /\ Append(s, x) \in Seq(Nat)
         /\ Len(Append(s, x)) = Len(s) + 1
         /\ \A i \in 1 .. Len(s) : Append(s, x)[i] = s[i]
         /\ Append(s, x)[Len(s) + 1] = x
  OBVIOUS

\* A sequence without its first element
LEMMA Rest ==
  ASSUME NEW s \in Seq(Nat), s # <<>>
  PROVE  /\ Head(s) \in Nat /\ Head(s) = s[1]
         /\ Tail(s) \in Seq(Nat)
         /\ Len(Tail(s)) = Len(s) - 1 /\ Len(s) >= 1
         /\ \A i \in 1 .. Len(s) - 1 : Tail(s)[i] = s[i + 1]
  OBVIOUS

\* A store to DATA keeps the types.
LEMMA WriteTypes ==
  ASSUME SpiTypeOK, WriteData
  PROVE  /\ TXC' \in BOOLEAN
         /\ waits' \in BOOLEAN /\ shifting' \in BOOLEAN /\ young' \in BOOLEAN
         /\ currentWriteIndex' \in Nat
<1>1. TXC' \in BOOLEAN /\ waits' \in BOOLEAN /\ shifting' \in BOOLEAN /\ young' \in BOOLEAN
  BY Zenon DEF SpiTypeOK, WriteData
<1>2. currentWriteIndex' \in Nat
  BY DEF SpiTypeOK, WriteData
<1> QED BY <1>1, <1>2

\* A load from DATA takes the oldest byte.
LEMMA ReadTypes ==
  ASSUME SpiTypeOK, ReadData, received # <<>>
  PROVE  /\ received' \in Seq(Nat) /\ Len(received') = Len(received) - 1
         /\ \A i \in 1 .. Len(received') : received'[i] = received[i + 1]
         /\ readMessage' \in Seq(Nat)
         /\ Len(readMessage') = Len(readMessage) + (IF reading THEN 1 ELSE 0)
         /\ \A i \in 1 .. Len(readMessage) : readMessage'[i] = readMessage[i]
         /\ reading => readMessage'[Len(readMessage) + 1] = received[1]
         /\ currentReadIndex' = currentReadIndex + 1
<1>1. received \in Seq(Nat) /\ readMessage \in Seq(Nat)
  BY DEF SpiTypeOK
<1>2. Head(received) \in Nat /\ Head(received) = received[1]
  BY <1>1, Rest
<1>3. received' \in Seq(Nat) /\ Len(received') = Len(received) - 1
      /\ \A i \in 1 .. Len(received') : received'[i] = received[i + 1]
  BY <1>1, Rest DEF ReadData
<1>4. CASE reading
  <2>1. readMessage' = Append(readMessage, received[1])
    BY <1>4, <1>2 DEF ReadData
  <2> QED BY <2>1, <1>1, <1>2, <1>3, <1>4, Appended DEF ReadData
<1>5. CASE ~reading
  <2>1. readMessage' = readMessage
    BY <1>5 DEF ReadData
  <2> QED BY <2>1, <1>1, <1>3, <1>5 DEF ReadData
<1> QED BY <1>4, <1>5

\* The byte that ends is received behind the others, if there is room.
LEMMA EndTypes ==
  ASSUME SpiTypeOK, ByteEnds
  PROVE  /\ received' \in Seq(Nat) /\ Len(received') <= 2 /\ ended' = ended + 1
         /\ Len(received) < 2 =>
              /\ Len(received') = Len(received) + 1
              /\ \A i \in 1 .. Len(received) : received'[i] = received[i]
              /\ received'[Len(received) + 1] = ended + 1
         /\ waits' \in BOOLEAN /\ shifting' \in BOOLEAN /\ young' \in BOOLEAN /\ TXC' \in BOOLEAN
<1>1. received \in Seq(Nat) /\ ended + 1 \in Nat /\ Len(received) <= 2 /\ Len(received) \in Nat
  BY DEF SpiTypeOK
<1>2. /\ received' \in Seq(Nat) /\ Len(received') <= 2
      /\ Len(received) < 2 =>
           /\ Len(received') = Len(received) + 1
           /\ \A i \in 1 .. Len(received) : received'[i] = received[i]
           /\ received'[Len(received) + 1] = ended + 1
  <2>1. CASE Len(received) < 2
    <3>1. received' = Append(received, ended + 1)
      BY <2>1 DEF ByteEnds
    <3>2. received' \in Seq(Nat) /\ Len(received') = Len(received) + 1
          /\ (\A i \in 1 .. Len(received) : received'[i] = received[i])
          /\ received'[Len(received) + 1] = ended + 1
      BY <3>1, <1>1, Appended
    <3> QED BY <3>2, <1>1, <2>1
  <2>2. CASE ~(Len(received) < 2)
    BY <1>1, <2>2 DEF ByteEnds
  <2> QED BY <2>1, <2>2
<1>3. waits' \in BOOLEAN /\ shifting' \in BOOLEAN /\ young' \in BOOLEAN /\ TXC' \in BOOLEAN
  BY Zenon DEF SpiTypeOK, ByteEnds
<1>4. ended' = ended + 1
  BY DEF ByteEnds
<1> QED BY <1>2, <1>3, <1>4

\* No bytes of the exchange are there when it starts.
LEMMA StartTypes ==
  ASSUME SpiTypeOK, NEW size \in 1 .. MaxSize, NEW read \in BOOLEAN, SetFields(size, read)
  PROVE  /\ currentMessageSize' \in 1 .. MaxSize /\ currentMessageSize' \in 0 .. MaxSize
         /\ reading' \in BOOLEAN
         /\ readMessage' = <<>> /\ readMessage' \in Seq(Nat) /\ Len(readMessage') = 0
         /\ currentReadIndex' = 0 /\ ended' = 0
         /\ received' \in Seq(Nat) /\ Len(received') = Len(received)
         /\ received = <<>> => received' = <<>>
<1>1. Len(received) \in Nat /\ MaxSize \in Nat
  BY SpiAssumption DEF SpiAssumption
<1> QED BY <1>1 DEF SetFields

-----------------------------------------------------------------------------
(* The inductive invariant of SpiShift is kept                             *)

LEMMA LatchType ==
  ASSUME SpiTypeOK, Latch
  PROVE  shown' \in [size : Nat, ended : Nat, coming : 0 .. 2]
  BY SpiAssumption DEF SpiAssumption, SpiTypeOK, Latch, InFlight

\* Types, and the polling call, are kept by every step.
LEMMA SpiTypeStep ==
  ASSUME SpiTypeOK, PollInv, SpiNext
  PROVE  SpiTypeOK' /\ PollInv'
<1>1. CASE ByteEnds
  <2>0. /\ received' \in Seq(Nat) /\ Len(received') <= 2 /\ ended' \in Nat
        /\ waits' \in BOOLEAN /\ shifting' \in BOOLEAN /\ young' \in BOOLEAN /\ TXC' \in BOOLEAN
    BY <1>1, EndTypes DEF SpiTypeOK
  <2>1. SpiTypeOK'
    BY <1>1, <2>0 DEF SpiTypeOK, ByteEnds, fieldVars
  <2>2. PollInv'
    BY <1>1 DEF PollInv, ByteEnds, fieldVars
  <2> QED BY <2>1, <2>2
<1>2. CASE StartPolled
  <2>1. PICK size \in 1 .. MaxSize, read \in BOOLEAN : SetFields(size, read)
    BY <1>2 DEF StartPolled
  <2>2. /\ currentMessageSize' \in 0 .. MaxSize /\ currentMessageSize' >= 1 /\ reading' \in BOOLEAN
        /\ readMessage' \in Seq(Nat) /\ Len(readMessage') = 0
        /\ currentReadIndex' = 0 /\ ended' = 0
        /\ received' \in Seq(Nat) /\ Len(received') = Len(received)
    BY <2>1, StartTypes, SpiAssumption DEF SpiAssumption
  <2>3. shown' \in [size : Nat, ended : Nat, coming : 0 .. 2]
    BY <1>2, LatchType DEF StartPolled
  <2>4. TXC' \in BOOLEAN /\ shifting' \in BOOLEAN
    BY <1>2, Zenon DEF StartPolled
  <2>5. SpiTypeOK'
    BY <1>2, <2>2, <2>3, <2>4 DEF SpiTypeOK, StartPolled
  <2>6. PollInv'
    BY <1>2, <2>2 DEF PollInv, StartPolled
  <2> QED BY <2>5, <2>6
<1>3. CASE PollByte
  <2>1. currentReadIndex + 1 <= currentMessageSize
    BY <1>3 DEF SpiTypeOK, PollInv, PollByte
  <2>2. /\ received' \in Seq(Nat) /\ Len(received') <= 2
        /\ readMessage' \in Seq(Nat) /\ Len(readMessage') <= currentReadIndex'
        /\ currentReadIndex' = currentReadIndex + 1
    BY <1>3, ReadTypes DEF SpiTypeOK, PollInv, PollByte
  <2>3. SpiTypeOK'
    <3>1. TXC' \in BOOLEAN /\ waits' \in BOOLEAN /\ shifting' \in BOOLEAN /\ young' \in BOOLEAN
          /\ currentWriteIndex' \in Nat
      BY <1>3, WriteTypes DEF PollByte
    <3> QED BY <1>3, <2>1, <2>2, <3>1 DEF SpiTypeOK, PollByte
  <2>4. PollInv'
    <3>1. taskpc' = "poll" => /\ currentReadIndex' + 1 <= currentWriteIndex'
                              /\ currentWriteIndex' < currentMessageSize'
      BY <1>3, <2>2 DEF SpiTypeOK, PollInv, PollByte, WriteData
    <3>2. taskpc' = "last" => \/ currentWriteIndex' = currentMessageSize'
                              \/ currentMessageSize' = 1 /\ currentWriteIndex' = 2
      BY <1>3 DEF SpiTypeOK, PollInv, PollByte, WriteData
    <3>3. taskpc' \in {"poll", "last"} /\ ~waits'
      BY <1>3 DEF PollInv, PollByte, WriteData
    <3>4. (waits' => shifting') /\ (TXC' => ~shifting')
      BY <1>3 DEF PollByte, WriteData
    <3> QED BY <1>3, <2>2, <3>1, <3>2, <3>3, <3>4 DEF PollInv, PollByte
  <2> QED BY <2>3, <2>4
<1>4. CASE FinishPolled
  BY <1>4, LatchType DEF SpiTypeOK, PollInv, FinishPolled, fieldVars, lineVars
<1>5. CASE StartAsync
  <2>1. PICK size \in 1 .. MaxSize, read \in BOOLEAN : SetFields(size, read)
    BY <1>5 DEF StartAsync
  <2>2. /\ currentMessageSize' \in 0 .. MaxSize /\ currentMessageSize' >= 1 /\ reading' \in BOOLEAN
        /\ readMessage' \in Seq(Nat) /\ Len(readMessage') = 0
        /\ currentReadIndex' = 0 /\ ended' = 0
        /\ received' \in Seq(Nat) /\ Len(received') = Len(received)
    BY <2>1, StartTypes, SpiAssumption DEF SpiAssumption
  <2>3. shown' \in [size : Nat, ended : Nat, coming : 0 .. 2]
    BY <1>5, LatchType DEF StartAsync
  <2>4. stale' \in BOOLEAN
    BY <1>5, Zenon DEF StartAsync
  <2>5. SpiTypeOK'
    BY <1>5, <2>2, <2>3, <2>4 DEF SpiTypeOK, StartAsync
  <2>6. PollInv'
    BY <1>5, <2>2 DEF PollInv, StartAsync
  <2> QED BY <2>5, <2>6
<1>6. CASE WriteFirst
  BY <1>6, WriteTypes DEF SpiTypeOK, PollInv, WriteFirst, WriteData
<1>7. CASE EnableSpiInterrupts
  BY <1>7 DEF SpiTypeOK, PollInv, EnableSpiInterrupts, fieldVars, lineVars
<1>8. CASE DisableReceiveInterrupt
  BY <1>8 DEF SpiTypeOK, PollInv, DisableReceiveInterrupt, fieldVars, lineVars
<1>9. CASE Wait
  BY <1>9 DEF SpiTypeOK, PollInv, Wait, fieldVars, lineVars
<1>10. CASE HandlerStarts
  BY <1>10 DEF SpiTypeOK, PollInv, HandlerStarts, Raised, fieldVars, lineVars
<1>11. CASE ReadReceived
  <2>1. currentReadIndex + 1 <= currentMessageSize
    BY <1>11 DEF SpiTypeOK, ReadReceived
  <2>2. told' \in BOOLEAN
    BY <1>11, Zenon DEF SpiTypeOK, ReadReceived
  <2>4. SpiTypeOK'
    <3>3. /\ received \in Seq(Nat) /\ Len(received) <= 2
          /\ readMessage \in Seq(Nat) /\ Len(readMessage) <= currentReadIndex
          /\ currentReadIndex \in Nat
      BY DEF SpiTypeOK
    <3>1. /\ received' \in Seq(Nat) /\ Len(received') <= 2
          /\ readMessage' \in Seq(Nat) /\ Len(readMessage') <= currentReadIndex'
          /\ currentReadIndex' = currentReadIndex + 1
      BY <1>11, <3>3, ReadTypes DEF ReadReceived
    <3>2. INTENSET' \subseteq {"RXC", "DRE", "TXC"}
      BY <1>11 DEF SpiTypeOK, ReadReceived
    <3> QED BY <1>11, <2>1, <2>2, <3>1, <3>2 DEF SpiTypeOK, ReadReceived
  <2>3. PollInv'
    BY <1>11, ReadTypes DEF PollInv, ReadReceived
  <2> QED BY <2>3, <2>4
<1>12. CASE NothingReceived
  BY <1>12 DEF SpiTypeOK, PollInv, NothingReceived, fieldVars
<1>13. CASE WriteNext
  BY <1>13, WriteTypes DEF SpiTypeOK, PollInv, WriteNext, WriteData
<1>14. CASE AllWritten
  BY <1>14 DEF SpiTypeOK, PollInv, AllWritten, fieldVars, lineVars
<1>15. CASE NothingToWrite
  BY <1>15 DEF SpiTypeOK, PollInv, NothingToWrite, fieldVars, lineVars
<1>16. CASE LatchAndReturn
  BY <1>16, LatchType DEF SpiTypeOK, PollInv, LatchAndReturn, fieldVars
<1> QED BY <1>1, <1>2, <1>3, <1>4, <1>5, <1>6, <1>7, <1>8, <1>9, <1>10, <1>11, <1>12, <1>13,
           <1>14, <1>15, <1>16 DEF SpiNext, SpiTask, vSpiRegistersSpiInterruptHandler

\* So is the rest, as long as no byte is left behind.
LEMMA InStepStep ==
  ASSUME SpiTypeOK, SpiTypeOK', PollInv, InStep, ~stale, ~stale', SpiNext
  PROVE  InStep'
<1>1. CASE ByteEnds
  <2>1. ShownInv'
    BY <1>1 DEF InStep, ShownInv, ByteEnds
  <2>2. LineInv'
    <3>1. CASE waits
      BY <1>1, <3>1 DEF SpiTypeOK, InStep, LineInv, InFlight, ByteEnds, fieldVars
    <3>2. CASE ~waits
      BY <1>1, <3>2 DEF InStep, LineInv, InFlight, ByteEnds, fieldVars
    <3> QED BY <3>1, <3>2
  <2>3. IdleInv'
    BY <1>1, EndTypes DEF InStep, IdleInv, ByteEnds
  <2>4. FirstInv'
    BY <1>1, EndTypes DEF InStep, FirstInv, ByteEnds, fieldVars
  <2>5. OrderInv'
    <3> SUFFICES ASSUME taskpc \in {"write", "enable", "disable", "wait"}
                 PROVE  OrderInv'
      BY <1>1 DEF OrderInv, ByteEnds
    <3>1. /\ Len(received) < 2 /\ Len(received) \in Nat
          /\ Len(received) = ended - currentReadIndex
          /\ \A i \in 1 .. Len(received) : received[i] = currentReadIndex + i
      BY <1>1 DEF InStep, OrderInv, ByteEnds
    <3>2. /\ Len(received') = Len(received) + 1 /\ ended' = ended + 1
          /\ \A i \in 1 .. Len(received) : received'[i] = received[i]
          /\ received'[Len(received) + 1] = ended + 1
      BY <1>1, <3>1, EndTypes
    <3>3. Len(received') = ended' - currentReadIndex'
      BY <1>1, <3>1, <3>2 DEF SpiTypeOK, ByteEnds, fieldVars
    <3>4. ASSUME NEW i \in 1 .. Len(received')
          PROVE  received'[i] = currentReadIndex + i
      <4>1. CASE i = Len(received) + 1
        BY <3>1, <3>2, <4>1 DEF SpiTypeOK
      <4>2. CASE i # Len(received) + 1
        <5>1. i \in 1 .. Len(received)
          BY <3>1, <3>2, <4>2
        <5> QED BY <3>1, <3>2, <5>1
      <4> QED BY <4>1, <4>2
    <3>5. shifting' /\ ~young' => Len(received') <= 1
      BY <1>1, <3>1, <3>2 DEF InStep, FirstInv, HandlerInv, ByteEnds
    <3> QED BY <1>1, <3>3, <3>4, <3>5 DEF InStep, OrderInv, ByteEnds, fieldVars
  <2>6. HandlerInv'
    <3> SUFFICES ASSUME taskpc \in {"disable", "wait"}
                 PROVE  HandlerInv'
      BY <1>1 DEF HandlerInv, ByteEnds
    <3>1. Len(received) \in Nat /\ (Len(received) < 2 => Len(received') = Len(received) + 1)
      BY <1>1, EndTypes DEF SpiTypeOK
    <3>2. handlerpc \in {"write", "latch"} => Len(received) = 0 /\ (shifting' => young')
      <4>1. handlerpc \in {"write", "latch"} => received = <<>>
        BY <1>1 DEF InStep, HandlerInv, ByteEnds
      <4>2. handlerpc \in {"write", "latch"} /\ shifting' => young'
        BY <1>1, Zenon DEF ByteEnds
      <4> QED BY <4>1, <4>2
    <3>3. handlerpc \in {"write", "latch"} => Len(received') <= 1
      BY <3>1, <3>2
    <3> QED BY <1>1, <3>2, <3>3 DEF InStep, HandlerInv, ByteEnds, fieldVars
  <2> QED BY <2>1, <2>2, <2>3, <2>4, <2>5, <2>6 DEF InStep
<1>2. CASE StartPolled
  <2>1. PICK size \in 1 .. MaxSize, read \in BOOLEAN : SetFields(size, read)
    BY <1>2 DEF StartPolled
  <2>2. ShownInv'
    BY <1>2, <2>1, StartTypes DEF SpiTypeOK, PollInv, InStep, ShownInv, IdleInv, InFlight,
       StartPolled, Latch
  <2>3. LineInv'
    <3>1. ended' = 0 /\ ~waits'
      BY <1>2, <2>1, StartTypes DEF PollInv, StartPolled
    <3> QED BY <1>2, <3>1 DEF LineInv, InFlight, StartPolled
  <2>4. IdleInv'
    BY <1>2, <2>1, StartTypes DEF IdleInv, StartPolled
  <2>5. FirstInv'
    BY <1>2, <2>1, StartTypes DEF FirstInv, StartPolled
  <2>6. OrderInv'
    BY <1>2, <2>1, StartTypes DEF OrderInv, StartPolled
  <2>7. HandlerInv'
    BY <1>2, <2>1, StartTypes DEF HandlerInv, StartPolled
  <2> QED BY <2>2, <2>3, <2>4, <2>5, <2>6, <2>7 DEF InStep
<1>3. CASE PollByte
  BY <1>3, ReadTypes, WriteTypes DEF SpiTypeOK, PollInv, InStep, ShownInv, LineInv, InFlight,
     IdleInv, FirstInv, OrderInv, HandlerInv, PollByte, WriteData
<1>4. CASE FinishPolled
  BY <1>4 DEF SpiTypeOK, PollInv, InStep, ShownInv, LineInv, InFlight, IdleInv, FirstInv, OrderInv,
     HandlerInv, FinishPolled, Latch, fieldVars, lineVars
<1>5. CASE StartAsync
  <2>1. PICK size \in 1 .. MaxSize, read \in BOOLEAN : SetFields(size, read)
    BY <1>5 DEF StartAsync
  <2>2. ShownInv'
    BY <1>5, <2>1, StartTypes DEF SpiTypeOK, PollInv, InStep, ShownInv, IdleInv, InFlight,
       StartAsync, Latch
  <2>3. LineInv'
    <3>1. ended' = 0 /\ ~waits'
      BY <1>5, <2>1, StartTypes DEF PollInv, InStep, IdleInv, StartAsync
    <3> QED BY <1>5, <3>1 DEF InStep, IdleInv, LineInv, InFlight, StartAsync
  <2>4. IdleInv'
    BY <1>5, <2>1, StartTypes DEF IdleInv, StartAsync
  <2>5. FirstInv'
    BY <1>5, <2>1, StartTypes DEF PollInv, InStep, IdleInv, FirstInv, StartAsync
  <2>6. OrderInv'
    <3>1. received' = <<>> /\ readMessage' = <<>>
      BY <1>5, <2>1, StartTypes DEF StartAsync
    <3>2. /\ ended' = 0 /\ currentReadIndex' = 0 /\ currentWriteIndex' = 0 /\ ~shifting'
          /\ currentMessageSize' >= 1
      BY <1>5, <2>1, StartTypes DEF InStep, IdleInv, StartAsync
    <3> QED BY <3>1, <3>2, SpiTypeOK' DEF SpiTypeOK, OrderInv
  <2>7. HandlerInv'
    BY <1>5, <2>1, StartTypes DEF HandlerInv, StartAsync
  <2> QED BY <2>2, <2>3, <2>4, <2>5, <2>6, <2>7 DEF InStep
<1>6. CASE WriteFirst
  BY <1>6, WriteTypes DEF SpiTypeOK, InStep, ShownInv, LineInv, InFlight, IdleInv, FirstInv,
     OrderInv, HandlerInv, WriteFirst, WriteData
<1>7. CASE EnableSpiInterrupts
  BY <1>7 DEF SpiTypeOK, InStep, ShownInv, LineInv, InFlight, IdleInv, FirstInv, OrderInv,
     HandlerInv, EnableSpiInterrupts, fieldVars, lineVars
<1>8. CASE DisableReceiveInterrupt
  BY <1>8 DEF InStep, ShownInv, LineInv, InFlight, IdleInv, FirstInv, OrderInv, HandlerInv,
     DisableReceiveInterrupt, fieldVars, lineVars
<1>9. CASE Wait
  BY <1>9 DEF SpiTypeOK, InStep, ShownInv, LineInv, InFlight, IdleInv, FirstInv, OrderInv,
     HandlerInv, Wait, fieldVars, lineVars
<1>10. CASE HandlerStarts
  BY <1>10 DEF InStep, ShownInv, LineInv, InFlight, IdleInv, FirstInv, OrderInv, HandlerInv,
     HandlerStarts, Raised, fieldVars, lineVars
<1>11. CASE ReadReceived
  <2>1. ShownInv'
    BY <1>11 DEF InStep, ShownInv, ReadReceived
  <2>2. LineInv'
    BY <1>11, ReadTypes DEF InStep, LineInv, InFlight, ReadReceived
  <2>3. IdleInv'
    BY <1>11, ReadTypes DEF InStep, IdleInv, ReadReceived
  <2>4. FirstInv'
    BY <1>11, ReadTypes DEF InStep, FirstInv, ReadReceived
  <2>5. OrderInv'
    <3> SUFFICES ASSUME taskpc \in {"disable", "wait"}
                 PROVE  OrderInv'
      BY <1>11 DEF InStep, FirstInv, OrderInv, ReadReceived
    <3>1. /\ currentMessageSize >= 1 /\ currentWriteIndex <= currentMessageSize
          /\ Len(received) \in Nat /\ Len(received) = ended - currentReadIndex
          /\ \A i \in 1 .. Len(received) : received[i] = currentReadIndex + i
          /\ shifting /\ ~young => Len(received) <= 1
      BY DEF InStep, OrderInv
    <3>2. reading => /\ Len(readMessage) = currentReadIndex
                     /\ \A i \in 1 .. Len(readMessage) : readMessage[i] = i
      BY DEF InStep, OrderInv
    <3>3. /\ Len(received') = Len(received) - 1 /\ currentReadIndex' = currentReadIndex + 1
          /\ \A i \in 1 .. Len(received') : received'[i] = received[i + 1]
          /\ Len(readMessage') = Len(readMessage) + (IF reading THEN 1 ELSE 0)
          /\ \A i \in 1 .. Len(readMessage) : readMessage'[i] = readMessage[i]
          /\ reading => readMessage'[Len(readMessage) + 1] = received[1]
      BY <1>11, ReadTypes DEF ReadReceived
    <3>4. received # <<>> /\ Len(received) >= 1
      BY <1>11, Rest DEF ReadReceived
    <3>9. Len(readMessage) \in Nat /\ currentReadIndex \in Nat
      BY DEF SpiTypeOK
    <3>5. ASSUME NEW i \in 1 .. Len(received')
          PROVE  received'[i] = currentReadIndex' + i
      <4>1. i + 1 \in 1 .. Len(received)
        BY <3>1, <3>3
      <4> QED BY <3>1, <3>3, <4>1 DEF SpiTypeOK
    <3>6. ASSUME reading, NEW i \in 1 .. Len(readMessage')
          PROVE  readMessage'[i] = i
      <4>1. CASE i = Len(readMessage) + 1
        BY <3>1, <3>2, <3>3, <3>4, <3>6, <3>9, <4>1
      <4>2. CASE i # Len(readMessage) + 1
        <5>1. i \in 1 .. Len(readMessage)
          BY <3>3, <3>6, <3>9, <4>2
        <5> QED BY <3>2, <3>3, <3>6, <5>1
      <4> QED BY <4>1, <4>2
    <3>7. Len(received') = ended - currentReadIndex' /\ (shifting /\ ~young => Len(received') <= 1)
      BY <3>1, <3>3 DEF SpiTypeOK
    <3>8. reading => Len(readMessage') = currentReadIndex'
      BY <3>2, <3>3
    <3> QED BY <1>11, <3>1, <3>5, <3>6, <3>7, <3>8 DEF OrderInv, ReadReceived
  <2>6. HandlerInv'
    <3> SUFFICES ASSUME taskpc \in {"disable", "wait"}
                 PROVE  HandlerInv'
      BY <1>11 DEF HandlerInv, ReadReceived
    <3>1. ~told
      BY <1>11 DEF SpiTypeOK, InStep, HandlerInv, ReadReceived
    <3>2. told' => /\ reading /\ currentReadIndex' = currentMessageSize
                   /\ "RXC" \notin INTENSET'
      <4>1. currentReadIndex' = currentReadIndex + 1 /\ currentMessageSize \in Int
        BY <1>11 DEF SpiTypeOK, ReadReceived, ReadData
      <4>2. CASE reading /\ currentReadIndex' >= currentMessageSize
        BY <1>11, <4>1, <4>2 DEF SpiTypeOK, ReadReceived
      <4>3. CASE ~(reading /\ currentReadIndex' >= currentMessageSize)
        BY <1>11, <3>1, <4>3 DEF ReadReceived
      <4> QED BY <4>2, <4>3
    <3>3. /\ INTENSET' \cap {"DRE", "TXC"} = INTENSET \cap {"DRE", "TXC"}
          /\ "DRE" \in INTENSET' <=> "DRE" \in INTENSET
      BY <1>11 DEF ReadReceived
    <3>4. reading /\ ~told' => currentReadIndex' < currentMessageSize
      <4>1. currentReadIndex' \in Int /\ currentMessageSize \in Int
        BY <1>11, ReadTypes, SpiAssumption DEF SpiAssumption, SpiTypeOK, ReadReceived
      <4> QED BY <1>11, <4>1 DEF ReadReceived
    <3>5. Len(received) \in Nat /\ Len(received') = Len(received) - 1
      BY <1>11, ReadTypes DEF SpiTypeOK, ReadReceived
    <3> QED BY <1>11, <3>2, <3>3, <3>4, <3>5 DEF InStep, HandlerInv, ReadReceived
  <2> QED BY <2>1, <2>2, <2>3, <2>4, <2>5, <2>6 DEF InStep
<1>12. CASE NothingReceived
  BY <1>12 DEF InStep, ShownInv, LineInv, InFlight, IdleInv, FirstInv, OrderInv, HandlerInv,
     NothingReceived, fieldVars
<1>13. CASE WriteNext
  BY <1>13, WriteTypes DEF SpiTypeOK, InStep, ShownInv, LineInv, InFlight, IdleInv, FirstInv,
     OrderInv, HandlerInv, WriteNext, WriteData
<1>14. CASE AllWritten
  BY <1>14 DEF InStep, ShownInv, LineInv, InFlight, IdleInv, FirstInv, OrderInv, HandlerInv,
     AllWritten, fieldVars, lineVars
<1>15. CASE NothingToWrite
  BY <1>15 DEF InStep, ShownInv, LineInv, InFlight, IdleInv, FirstInv, OrderInv, HandlerInv,
     NothingToWrite, fieldVars, lineVars
<1>16. CASE LatchAndReturn
  <2>1. ShownInv'
    <3>1. CASE TXC
      <4>1. taskpc \in {"disable", "wait"} /\ handlerpc = "latch" /\ ~shifting /\ ~waits
        BY <1>16, <3>1 DEF SpiTypeOK, PollInv, InStep, IdleInv, FirstInv, LatchAndReturn
      <4>2. ended = currentMessageSize
        BY <4>1 DEF SpiTypeOK, InStep, LineInv, InFlight, OrderInv, HandlerInv
      <4> QED BY <1>16, <3>1, <4>1, <4>2 DEF ShownInv, LatchAndReturn, Latch, InFlight
    <3>2. CASE ~TXC
      BY <1>16, <3>2 DEF InStep, ShownInv, LatchAndReturn
    <3> QED BY <3>1, <3>2
  <2>2. LineInv' /\ IdleInv' /\ FirstInv'
    BY <1>16 DEF InStep, LineInv, InFlight, IdleInv, FirstInv, LatchAndReturn, fieldVars
  <2>3. OrderInv'
    <3>1. handlerpc = "latch" /\ taskpc' = taskpc
      BY <1>16 DEF LatchAndReturn
    <3>2. taskpc \in {"write", "enable", "disable", "wait"} =>
            (shifting /\ ~young' => Len(received) <= 1)
      BY <3>1 DEF InStep, FirstInv, HandlerInv
    <3> QED BY <1>16, <3>2 DEF InStep, OrderInv, LatchAndReturn, fieldVars
  <2>4. HandlerInv'
    <3> SUFFICES ASSUME taskpc \in {"disable", "wait"}
                 PROVE  HandlerInv'
      BY <1>16 DEF HandlerInv, LatchAndReturn
    <3>1. HandlerInv /\ handlerpc = "latch" /\ handlerpc' = "off"
      BY <1>16 DEF InStep, LatchAndReturn
    <3>2. /\ "DRE" \in INTENSET' <=> "DRE" \in INTENSET
          /\ "RXC" \in INTENSET' <=> "RXC" \in INTENSET
          /\ "TXC" \in INTENSET' => "TXC" \in INTENSET /\ ~TXC
          /\ TXC \/ UNCHANGED <<TXC, INTENSET>>
          /\ TXC => ~TXC' /\ "TXC" \notin INTENSET'
      BY <1>16 DEF LatchAndReturn
    <3>3. TXC => ~shifting /\ ~waits /\ "DRE" \notin INTENSET
      BY <3>1 DEF PollInv, HandlerInv
    <3>4. ASSUME told
          PROVE  INTENSET' = {}
      <4>1. ~shifting /\ ~waits
        <5>1. /\ currentReadIndex = currentMessageSize /\ Len(received) \in Nat
              /\ Len(received) = ended - currentReadIndex
              /\ currentWriteIndex <= currentMessageSize
          BY <3>1, <3>4 DEF SpiTypeOK, HandlerInv, InStep, OrderInv
        <5> QED BY <5>1 DEF SpiTypeOK, InStep, LineInv, InFlight
      <4>2. "RXC" \notin INTENSET /\ "DRE" \notin INTENSET
        BY <3>1, <3>4, <4>1 DEF HandlerInv
      <4>3. TXC \/ INTENSET = {}
        BY <3>1, <4>1, <4>2 DEF SpiTypeOK, HandlerInv
      <4> QED BY <3>2, <4>2, <4>3, SpiTypeOK' DEF SpiTypeOK
    <3> QED BY <1>16, <3>1, <3>2, <3>3, <3>4 DEF HandlerInv, LatchAndReturn, fieldVars
  <2> QED BY <2>1, <2>2, <2>3, <2>4 DEF InStep
<1> QED BY <1>1, <1>2, <1>3, <1>4, <1>5, <1>6, <1>7, <1>8, <1>9, <1>10, <1>11, <1>12, <1>13,
           <1>14, <1>15, <1>16 DEF SpiNext, SpiTask, vSpiRegistersSpiInterruptHandler

LEMMA SpiInitInv ==
  ASSUME SpiInit
  PROVE  SpiInv
<1>1. SpiTypeOK /\ PollInv
  <2>1. /\ TXC \in BOOLEAN /\ waits \in BOOLEAN /\ shifting \in BOOLEAN /\ young \in BOOLEAN
        /\ told \in BOOLEAN /\ stale \in BOOLEAN /\ reading \in BOOLEAN
    BY Zenon DEF SpiInit
  <2> QED BY <2>1, SpiAssumption DEF SpiAssumption, SpiInit, SpiTypeOK, PollInv
<1>2. InStep
  BY DEF SpiInit, InStep, ShownInv, LineInv, InFlight, IdleInv, FirstInv, OrderInv, HandlerInv
<1> QED BY <1>1, <1>2 DEF SpiInv

LEMMA SpiNextInv ==
  ASSUME SpiInv, [SpiNext]_spiVars
  PROVE  SpiInv'
<1>1. CASE SpiNext
  <2>1. SpiTypeOK' /\ PollInv'
    BY <1>1, SpiTypeStep DEF SpiInv
  <2>2. stale => stale'
    BY <1>1 DEF SpiNext, ByteEnds, StartPolled, StartAsync, SpiTask, PollByte, FinishPolled,
       WriteFirst, EnableSpiInterrupts, DisableReceiveInterrupt, Wait,
       vSpiRegistersSpiInterruptHandler, HandlerStarts, ReadReceived, NothingReceived, WriteNext,
       AllWritten, NothingToWrite, LatchAndReturn
  <2>3. ASSUME ~stale'
        PROVE  InStep'
    BY <1>1, <2>1, <2>2, <2>3, InStepStep DEF SpiInv
  <2> QED BY <2>1, <2>3 DEF SpiInv
<1>2. CASE UNCHANGED spiVars
  BY <1>2 DEF spiVars, fieldVars, lineVars, SpiInv, SpiTypeOK, PollInv, InStep, ShownInv, LineInv,
     InFlight, IdleInv, FirstInv, OrderInv, HandlerInv

<1> QED BY <1>1, <1>2

LEMMA SpiInvariance == SpiSpec => []SpiInv
<1>1. SpiInit => SpiInv
  BY SpiInitInv
<1>2. SpiInv /\ [SpiNext]_spiVars => SpiInv'
  BY SpiNextInv
<1> QED BY <1>1, <1>2, PTL DEF SpiSpec

-----------------------------------------------------------------------------
(* The theorems about SpiShift                                             *)

\* Types, and the bounds of the message and of the receive buffer: neither call
\* stores a byte behind the end of the message it reads (lines 88 and 158),
\* whatever an earlier exchange left behind.
THEOREM SpiTypeCorrect == SpiSpec => []SpiTypeOK
<1>1. SpiInv => SpiTypeOK
  BY DEF SpiInv
<1> QED BY <1>1, SpiInvariance, PTL

\* A task that is told of the end has its message whole and in order.
THEOREM SpiMessageIsWhole == SpiSpec => []ReadIsWhole
<1>1. SpiInv => ReadIsWhole
  <2> SUFFICES ASSUME SpiInv, told, ~stale
               PROVE  readMessage = [i \in 1 .. currentMessageSize |-> i]
    BY DEF ReadIsWhole
  <2>1. taskpc \in {"disable", "wait"}
    BY DEF SpiInv, SpiTypeOK, PollInv, InStep, IdleInv, FirstInv
  <2>2. /\ Len(readMessage) = currentMessageSize
        /\ \A i \in 1 .. Len(readMessage) : readMessage[i] = i
    BY <2>1 DEF SpiInv, InStep, OrderInv, HandlerInv
  <2>3. readMessage \in Seq(Nat)
    BY DEF SpiInv, SpiTypeOK
  <2>4. readMessage = [i \in 1 .. Len(readMessage) |-> readMessage[i]]
    BY <2>3
  <2> QED BY <2>2, <2>3, <2>4
<1> QED BY <1>1, SpiInvariance, PTL

\* No pulse of the latch shows part of a message.
THEOREM SpiLatchIsWhole == SpiSpec => []LatchShowsWholeMessages
<1>1. SpiInv => LatchShowsWholeMessages
  BY DEF SpiInv, InStep, ShownInv, LatchShowsWholeMessages
<1> QED BY <1>1, SpiInvariance, PTL

\* A task is left waiting with its last byte only.
THEOREM SpiTaskIsServed == SpiSpec => []WaitsForSomething
<1>1. SpiInv => WaitsForSomething
  <2> SUFFICES ASSUME SpiInv, taskpc = "wait", handlerpc = "off", Raised = {}, ~shifting, ~stale
               PROVE  (reading /\ told) \/ (~reading /\ INTENSET = {}) \/ LastByteIsLeft
    BY DEF WaitsForSomething
  <2>1. ~waits
    BY DEF SpiInv, PollInv
  <2>2. INTENSET = {} /\ ~TXC
    BY <2>1 DEF SpiInv, SpiTypeOK, InStep, HandlerInv, Raised
  <2>3. ended = currentMessageSize /\ Len(received) <= 1
    BY <2>1, <2>2 DEF SpiInv, SpiTypeOK, InStep, LineInv, InFlight, OrderInv, HandlerInv
  <2>4. ASSUME reading, ~told
        PROVE  LastByteIsLeft
    <3>1. /\ currentReadIndex < currentMessageSize
          /\ Len(received) = ended - currentReadIndex
          /\ \A i \in 1 .. Len(received) : received[i] = currentReadIndex + i
      BY <2>4 DEF SpiInv, InStep, OrderInv, HandlerInv
    <3>2. Len(received) = 1 /\ received[1] = ended
      BY <2>3, <3>1 DEF SpiInv, SpiTypeOK
    <3>3. received = <<ended>>
      BY <3>2 DEF SpiInv, SpiTypeOK
    <3> QED BY <2>2, <2>3, <3>3 DEF LastByteIsLeft
  <2> QED BY <2>2, <2>4
<1> QED BY <1>1, SpiInvariance, PTL

-----------------------------------------------------------------------------
(* The ring of the receive buffer                                          *)

\* A pointer one turn around the ring is the same place.
LEMMA Around ==
  ASSUME NEW x \in Int, -RxUnits <= x, x < RxUnits
  PROVE  x % RxUnits = IF x >= 0 THEN x ELSE x + RxUnits
  BY EncAssumption, SMT DEF EncAssumption

\* The place behind the last one is the first.
LEMMA Wrapped ==
  ASSUME NEW p \in 0 .. RxUnits - 1
  PROVE  Following(p) = IF p = RxUnits - 1 THEN 0 ELSE p + 1
<1>1. CASE p = RxUnits - 1
  BY <1>1, EncAssumption, SMT DEF EncAssumption, Following
<1>2. CASE p # RxUnits - 1
  BY <1>2, EncAssumption, SMT DEF EncAssumption, Following
<1> QED BY <1>1, <1>2

-----------------------------------------------------------------------------
(* The inductive invariant of Enc28j60                                     *)

\* The NIC task has read the header of a packet and not yet counted it.
Taking == nictask \in {"buffer", "erxrdpt", "pktdec"}

\* Up to the end of the configuration nothing was received, and the
\* semaphore keeps the NIC task from the controller.
NotYetUp ==
  iptask \in {"reset", "revision", "retry", "configure", "give"} =>
    semph_spi_free = 0 /\ nictask \in {"none", "wait", "take"}

NotConfigured ==
  /\ iptask \in {"reset", "revision", "retry", "configure"} =>
       /\ ~ECON1_RXEN /\ EPKTCNT = 0
       /\ ERXWRPT = 0 /\ ERXRDPT = 0 /\ nextPckPtr = 0
  /\ iptask \in {"reset", "revision", "retry"} => nictask = "none" /\ ~linkUp

EncInv ==
  /\ EncTypeOK
  /\ NotYetUp /\ NotConfigured
  /\ Taking => EPKTCNT > 0
  /\ LinkIsKnown
  /\ NextPacketIsRight

\* Between two steps that move no pointer of the ring.
Pointers == <<ERXWRPT, ERXRDPT, EPKTCNT, nextPckPtr>>

LEMMA EncInitInv ==
  ASSUME EncInit
  PROVE  EncInv
<1>1. EncTypeOK
  <2>1. 0 \in 0 .. RxUnits - 1 /\ 0 \in 0 .. RxUnits /\ 0 \in Banks /\ 0 \in 0 .. 1
    BY EncAssumption DEF EncAssumption, Banks
  <2> QED BY <2>1 DEF EncInit, EncTypeOK
<1>4. NotYetUp /\ NotConfigured /\ (Taking => EPKTCNT > 0)
  BY DEF EncInit, NotYetUp, NotConfigured, Taking
<1>5. LinkIsKnown
  BY DEF EncInit, LinkIsKnown
<1>2. 0 % RxUnits = 0
  BY Around, EncAssumption DEF EncAssumption
<1>3. NextPacketIsRight
  BY <1>2 DEF EncInit, NextPacketIsRight
<1> QED BY <1>1, <1>3, <1>4, <1>5 DEF EncInv

-----------------------------------------------------------------------------
(* The steps that move the pointers of the ring                            *)

LEMMA ArrivalKeepsRing ==
  ASSUME EncInv, PacketArrives
  PROVE  NextPacketIsRight' /\ EPKTCNT' \in 0 .. RxUnits /\ ERXWRPT' \in 0 .. RxUnits - 1
<1> DEFINE k == IF Taking THEN 1 ELSE 0
           j == IF nictask = "pktdec" THEN 1 ELSE 0
<1>1. /\ ERXWRPT \in 0 .. RxUnits - 1 /\ ERXRDPT \in 0 .. RxUnits - 1
      /\ EPKTCNT \in 0 .. RxUnits /\ RxUnits \in Nat /\ RxUnits >= 2
      /\ k \in 0 .. 1 /\ j \in 0 .. 1 /\ k <= EPKTCNT /\ j <= k
  BY EncAssumption DEF EncAssumption, EncInv, EncTypeOK, Taking
<1>2. /\ nextPckPtr = (ERXWRPT - EPKTCNT + k) % RxUnits
      /\ (ERXWRPT - ERXRDPT) % RxUnits = EPKTCNT - j
  BY DEF EncInv, NextPacketIsRight, Taking
<1>3. /\ ERXWRPT' = Following(ERXWRPT) /\ Following(ERXWRPT) # ERXRDPT
      /\ EPKTCNT' = EPKTCNT + 1
      /\ ERXRDPT' = ERXRDPT /\ nextPckPtr' = nextPckPtr /\ nictask' = nictask
  BY DEF PacketArrives, driver
<1> HIDE DEF k, j
<1>4. Following(ERXWRPT) = IF ERXWRPT = RxUnits - 1 THEN 0 ELSE ERXWRPT + 1
  BY <1>1, Wrapped
<1>5. EPKTCNT - j =
        IF ERXWRPT >= ERXRDPT THEN ERXWRPT - ERXRDPT ELSE ERXWRPT - ERXRDPT + RxUnits
  <2>1. -RxUnits <= ERXWRPT - ERXRDPT /\ ERXWRPT - ERXRDPT < RxUnits
    BY <1>1
  <2> QED BY <2>1, <1>1, <1>2, Around
<1>6. EPKTCNT' \in 0 .. RxUnits /\ ERXWRPT' \in 0 .. RxUnits - 1
  BY <1>1, <1>3, <1>4, <1>5
<1>7. (ERXWRPT' - ERXRDPT') % RxUnits = EPKTCNT' - j
  <2>1. /\ -RxUnits <= ERXWRPT' - ERXRDPT' /\ ERXWRPT' - ERXRDPT' < RxUnits
        /\ ERXWRPT' - ERXRDPT' \in Int
    BY <1>1, <1>3, <1>6
  <2>2. (ERXWRPT' - ERXRDPT') % RxUnits =
          IF ERXWRPT' - ERXRDPT' >= 0 THEN ERXWRPT' - ERXRDPT'
                                      ELSE ERXWRPT' - ERXRDPT' + RxUnits
    BY <2>1, Around
  <2> QED BY <2>2, <1>1, <1>3, <1>4, <1>5, <1>6
<1>8. nextPckPtr' = (ERXWRPT' - EPKTCNT' + k) % RxUnits
  <2>1. /\ ERXWRPT - EPKTCNT + k \in Int /\ ERXWRPT' - EPKTCNT' + k \in Int
        /\ -RxUnits <= ERXWRPT - EPKTCNT + k /\ ERXWRPT - EPKTCNT + k < RxUnits
        /\ -RxUnits <= ERXWRPT' - EPKTCNT' + k /\ ERXWRPT' - EPKTCNT' + k < RxUnits
    BY <1>1, <1>3, <1>6
  <2>2. /\ (ERXWRPT - EPKTCNT + k) % RxUnits =
             IF ERXWRPT - EPKTCNT + k >= 0 THEN ERXWRPT - EPKTCNT + k
                                           ELSE ERXWRPT - EPKTCNT + k + RxUnits
        /\ (ERXWRPT' - EPKTCNT' + k) % RxUnits =
             IF ERXWRPT' - EPKTCNT' + k >= 0 THEN ERXWRPT' - EPKTCNT' + k
                                             ELSE ERXWRPT' - EPKTCNT' + k + RxUnits
    BY <2>1, Around
  <2> QED BY <2>2, <1>1, <1>2, <1>3, <1>4, <1>6
<1>9. NextPacketIsRight'
  BY <1>3, <1>7, <1>8 DEF NextPacketIsRight, k, j, Taking
<1> QED BY <1>6, <1>9

LEMMA HeaderKeepsRing ==
  ASSUME EncInv, ReadHeader
  PROVE  NextPacketIsRight' /\ nextPckPtr' \in 0 .. RxUnits - 1
<1>1. /\ ERXWRPT \in 0 .. RxUnits - 1 /\ nextPckPtr \in 0 .. RxUnits - 1
      /\ EPKTCNT \in 1 .. RxUnits /\ RxUnits \in Nat /\ RxUnits >= 2
  BY EncAssumption DEF EncAssumption, EncInv, EncTypeOK, ReadHeader
<1>2. /\ nextPckPtr = (ERXWRPT - EPKTCNT) % RxUnits
      /\ (ERXWRPT - ERXRDPT) % RxUnits = EPKTCNT
  BY <1>1 DEF EncInv, EncTypeOK, NextPacketIsRight, ReadHeader, NicGoes
<1>3. /\ nextPckPtr' = Following(nextPckPtr) /\ nictask' = "buffer"
      /\ ERXWRPT' = ERXWRPT /\ ERXRDPT' = ERXRDPT /\ EPKTCNT' = EPKTCNT
  BY DEF ReadHeader, NicGoes, rxRing
<1>4. Following(nextPckPtr) = IF nextPckPtr = RxUnits - 1 THEN 0 ELSE nextPckPtr + 1
  BY <1>1, Wrapped
<1>5. /\ (ERXWRPT - EPKTCNT) % RxUnits =
           IF ERXWRPT - EPKTCNT >= 0 THEN ERXWRPT - EPKTCNT ELSE ERXWRPT - EPKTCNT + RxUnits
      /\ (ERXWRPT - EPKTCNT + 1) % RxUnits =
           IF ERXWRPT - EPKTCNT + 1 >= 0 THEN ERXWRPT - EPKTCNT + 1
                                         ELSE ERXWRPT - EPKTCNT + 1 + RxUnits
  <2>1. /\ ERXWRPT - EPKTCNT \in Int /\ ERXWRPT - EPKTCNT + 1 \in Int
        /\ -RxUnits <= ERXWRPT - EPKTCNT /\ ERXWRPT - EPKTCNT + 1 < RxUnits
        /\ ERXWRPT - EPKTCNT < RxUnits /\ -RxUnits <= ERXWRPT - EPKTCNT + 1
    BY <1>1
  <2> QED BY <2>1, Around
<1>6. nextPckPtr' = (ERXWRPT - EPKTCNT + 1) % RxUnits
  BY <1>1, <1>2, <1>3, <1>4, <1>5
<1>7. (ERXWRPT' - ERXRDPT') % RxUnits = EPKTCNT' - 0
  BY <1>1, <1>2, <1>3
<1>8. NextPacketIsRight'
  BY <1>3, <1>6, <1>7 DEF NextPacketIsRight
<1> QED BY <1>1, <1>3, <1>4, <1>8

LEMMA FreeKeepsRing ==
  ASSUME EncInv, FreePacket
  PROVE  NextPacketIsRight'
<1>1. /\ ERXWRPT \in 0 .. RxUnits - 1 /\ nextPckPtr \in 0 .. RxUnits - 1
      /\ EPKTCNT \in 1 .. RxUnits /\ RxUnits \in Nat /\ RxUnits >= 2
  BY EncAssumption DEF EncAssumption, EncInv, EncTypeOK, FreePacket, NicGoes, Taking
<1>2. nextPckPtr = (ERXWRPT - EPKTCNT + 1) % RxUnits
  BY DEF EncInv, NextPacketIsRight, FreePacket, NicGoes
<1>3. /\ ERXRDPT' = nextPckPtr /\ nictask' = "pktdec"
      /\ ERXWRPT' = ERXWRPT /\ EPKTCNT' = EPKTCNT /\ nextPckPtr' = nextPckPtr
  BY DEF FreePacket, NicGoes, driver
<1>4. nextPckPtr = IF ERXWRPT - EPKTCNT + 1 >= 0 THEN ERXWRPT - EPKTCNT + 1
                                                 ELSE ERXWRPT - EPKTCNT + 1 + RxUnits
  <2>1. /\ ERXWRPT - EPKTCNT + 1 \in Int
        /\ -RxUnits <= ERXWRPT - EPKTCNT + 1 /\ ERXWRPT - EPKTCNT + 1 < RxUnits
    BY <1>1
  <2> QED BY <2>1, <1>2, Around
<1>5. (ERXWRPT - nextPckPtr) % RxUnits =
        IF ERXWRPT - nextPckPtr >= 0 THEN ERXWRPT - nextPckPtr
                                     ELSE ERXWRPT - nextPckPtr + RxUnits
  <2>1. /\ ERXWRPT - nextPckPtr \in Int
        /\ -RxUnits <= ERXWRPT - nextPckPtr /\ ERXWRPT - nextPckPtr < RxUnits
    BY <1>1
  <2> QED BY <2>1, Around
<1>6. (ERXWRPT - nextPckPtr) % RxUnits = EPKTCNT - 1
  BY <1>1, <1>4, <1>5
<1> QED BY <1>2, <1>3, <1>6 DEF NextPacketIsRight

LEMMA CountKeepsRing ==
  ASSUME EncInv, CountPacket
  PROVE  NextPacketIsRight' /\ EPKTCNT' \in 0 .. RxUnits
<1>1. EPKTCNT \in 1 .. RxUnits /\ ERXWRPT \in Int /\ RxUnits \in Nat
  BY EncAssumption DEF EncAssumption, EncInv, EncTypeOK, CountPacket, NicGoes, Taking
<1>2. /\ nextPckPtr = (ERXWRPT - EPKTCNT + 1) % RxUnits
      /\ (ERXWRPT - ERXRDPT) % RxUnits = EPKTCNT - 1
  BY DEF EncInv, NextPacketIsRight, CountPacket, NicGoes
<1>3. /\ EPKTCNT' = EPKTCNT - 1 /\ nictask' = "count"
      /\ ERXWRPT' = ERXWRPT /\ ERXRDPT' = ERXRDPT /\ nextPckPtr' = nextPckPtr
  BY DEF CountPacket, NicGoes, driver
<1>4. ERXWRPT' - EPKTCNT' + 0 = ERXWRPT - EPKTCNT + 1 /\ EPKTCNT' - 0 = EPKTCNT - 1
  BY <1>1, <1>3
<1>5. NextPacketIsRight'
  BY <1>2, <1>3, <1>4 DEF NextPacketIsRight
<1> QED BY <1>1, <1>3, <1>5

\* A reset, and the configuration, start the ring again.
LEMMA EmptyRing ==
  ASSUME ERXWRPT' = 0, ERXRDPT' = 0, EPKTCNT' = 0, nextPckPtr' = 0, ~Taking'
  PROVE  NextPacketIsRight'
<1>1. 0 % RxUnits = 0
  BY Around, EncAssumption DEF EncAssumption
<1> QED BY <1>1 DEF NextPacketIsRight, Taking

\* Every other step leaves the ring as it is.
LEMMA SameRing ==
  ASSUME EncInv, UNCHANGED Pointers,
         UNCHANGED nictask \/ (nictask \notin {"erxrdpt", "pktdec"} /\ Taking' = Taking
                                 /\ nictask' # "pktdec")
  PROVE  NextPacketIsRight'
  BY DEF EncInv, Pointers, NextPacketIsRight, Taking

-----------------------------------------------------------------------------
(* Every step keeps the invariant                                          *)

LEMMA ResetType ==
  ASSUME ResetState
  PROVE  /\ bank' \in Banks
         /\ link' \in BOOLEAN /\ LINKIF' \in BOOLEAN /\ TXRTS' \in BOOLEAN
         /\ ECON1_RXEN' \in BOOLEAN
         /\ ERXWRPT' \in 0 .. RxUnits - 1 /\ ERXRDPT' \in 0 .. RxUnits - 1
         /\ EPKTCNT' \in 0 .. RxUnits
<1>1. 0 \in Banks /\ 0 \in 0 .. RxUnits - 1 /\ 0 \in 0 .. RxUnits
  BY EncAssumption DEF EncAssumption, Banks
<1>2. bank' \in Banks /\ ERXWRPT' \in 0 .. RxUnits - 1 /\ ERXRDPT' \in 0 .. RxUnits - 1
      /\ EPKTCNT' \in 0 .. RxUnits
  BY <1>1 DEF ResetState
<1>3. link' \in BOOLEAN /\ LINKIF' \in BOOLEAN /\ TXRTS' \in BOOLEAN /\ ECON1_RXEN' \in BOOLEAN
  BY Zenon DEF ResetState
<1> QED BY <1>2, <1>3

\* Types, apart from what the lemmas above say of the ring.
LEMMA StepType ==
  ASSUME EncInv, EncNext
  PROVE  EncTypeOK'
<1> SUFFICES ASSUME EncTypeOK PROVE EncTypeOK'
  BY DEF EncInv
<1>1. CASE Connect
  <2>1. /\ connected' = ~connected /\ ResetState
        /\ UNCHANGED <<lastBank, linkUp, nextPckPtr, semph_spi_free, iptask, nictask>>
    BY <1>1 DEF Connect, driver
  <2>2. connected' \in BOOLEAN
    BY <2>1, Zenon
  <2> QED BY <2>1, <2>2, ResetType DEF EncTypeOK
<1>5. CASE ResetController
  <2>1. /\ UNCHANGED <<connected, lastBank, linkUp, nextPckPtr, semph_spi_free, nictask>>
        /\ iptask' = "revision"
    BY <1>5 DEF ResetController, driver
  <2>2. CASE ResetState
    BY <2>1, <2>2, ResetType DEF EncTypeOK
  <2>3. CASE UNCHANGED <<bank, phyVars, TXRTS, rxRing>>
    BY <2>1, <2>3 DEF EncTypeOK, phyVars, rxRing
  <2> QED BY <1>5, <2>2, <2>3 DEF ResetController
<1> USE EncAssumption DEF EncAssumption, EncTypeOK, Banks
<1>2. CASE LinkChanges
  BY <1>2 DEF LinkChanges, rxRing, driver
<1>3. CASE PacketArrives
  BY <1>3, ArrivalKeepsRing DEF PacketArrives, phyVars, driver
<1>4. CASE FrameSent
  BY <1>4 DEF FrameSent, phyVars, rxRing, driver
<1>6. CASE ReadRevision
  BY <1>6 DEF ReadRevision, ENC_BankSel, phyVars, rxRing
<1>7. CASE RetryInitialise
  BY <1>7 DEF RetryInitialise, controller, phyVars, rxRing, driver
<1>8. CASE Configure
  BY <1>8 DEF Configure, ENC_BankSel, phyVars
<1>9. CASE GiveSemaphore \/ TakeForOutput \/ OutputDone \/ StartOutput
  BY <1>9 DEF GiveSemaphore, TakeForOutput, OutputDone, StartOutput, controller, phyVars,
     rxRing, driver
<1>10. CASE WriteFrame
  BY <1>10 DEF WriteFrame, phyVars, rxRing, driver
<1>11. CASE WaitEnds \/ TakeForNic \/ ReadEIR \/ TakePacket \/ NicDone
  BY <1>11 DEF WaitEnds, TakeForNic, ReadEIR, TakePacket, NicDone, NicGoes, controller,
     phyVars, rxRing, driver
<1>12. CASE ReadPHIR \/ ReadPHSTAT2
  BY <1>12 DEF ReadPHIR, ReadPHSTAT2, NicGoes, phyVars, rxRing, driver
<1>13. CASE ReadHeader
  BY <1>13, HeaderKeepsRing DEF ReadHeader, NicGoes, phyVars, rxRing
<1>14. CASE FreePacket
  BY <1>14 DEF FreePacket, NicGoes, phyVars, driver
<1>15. CASE CountPacket
  BY <1>15, CountKeepsRing DEF CountPacket, NicGoes, phyVars, driver
<1> QED
  BY <1>1, <1>2, <1>3, <1>4, <1>5, <1>6, <1>7, <1>8, <1>9, <1>10, <1>11, <1>12, <1>13, <1>14,
     <1>15 DEF EncNext, IpTask, nicIntTask

\* Up to the configuration the ring is empty, and the NIC task kept away.
LEMMA StepStart ==
  ASSUME EncInv, EncNext
  PROVE  NotYetUp' /\ NotConfigured' /\ (Taking' => EPKTCNT' > 0)
<1> USE DEF NotYetUp, NotConfigured, Taking
<1>0. /\ NotYetUp /\ NotConfigured /\ (Taking => EPKTCNT > 0)
      /\ EPKTCNT \in Int
  BY EncAssumption DEF EncAssumption, EncInv, EncTypeOK
<1>1. CASE Connect
  BY <1>0, <1>1 DEF Connect, ResetState, driver
<1>2. CASE LinkChanges
  BY <1>0, <1>2 DEF LinkChanges, rxRing, driver
<1>3. CASE PacketArrives
  BY <1>0, <1>3 DEF PacketArrives, phyVars, driver
<1>4. CASE FrameSent
  BY <1>0, <1>4 DEF FrameSent, phyVars, rxRing, driver
<1>5. CASE ResetController
  BY <1>0, <1>5 DEF ResetController, ResetState, phyVars, rxRing, driver
<1>6. CASE ReadRevision
  BY <1>0, <1>6 DEF ReadRevision, ENC_BankSel, phyVars, rxRing
<1>7. CASE RetryInitialise
  BY <1>0, <1>7 DEF RetryInitialise, controller, phyVars, rxRing, driver
<1>8. CASE Configure
  BY <1>0, <1>8 DEF Configure, ENC_BankSel, phyVars
<1>9. CASE GiveSemaphore \/ TakeForOutput \/ OutputDone \/ StartOutput
  BY <1>0, <1>9 DEF GiveSemaphore, TakeForOutput, OutputDone, StartOutput, controller,
     phyVars, rxRing, driver
<1>10. CASE WriteFrame
  BY <1>0, <1>10 DEF WriteFrame, phyVars, rxRing, driver
<1>11. CASE WaitEnds \/ TakeForNic \/ ReadEIR \/ TakePacket \/ NicDone
  BY <1>0, <1>11 DEF WaitEnds, TakeForNic, ReadEIR, TakePacket, NicDone, NicGoes, controller,
     phyVars, rxRing, driver
<1>12. CASE ReadPHIR \/ ReadPHSTAT2
  BY <1>0, <1>12 DEF ReadPHIR, ReadPHSTAT2, NicGoes, phyVars, rxRing, driver
<1>13. CASE ReadHeader
  BY <1>0, <1>13 DEF ReadHeader, NicGoes, phyVars, rxRing
<1>14. CASE FreePacket
  BY <1>0, <1>14 DEF FreePacket, NicGoes, phyVars, driver
<1>15. CASE CountPacket
  BY <1>0, <1>15 DEF CountPacket, NicGoes, phyVars, driver
<1> QED
  BY <1>1, <1>2, <1>3, <1>4, <1>5, <1>6, <1>7, <1>8, <1>9, <1>10, <1>11, <1>12, <1>13, <1>14,
     <1>15 DEF EncNext, IpTask, nicIntTask

\* A change of the link raises LINKIF, and only a read of the link follows
\* the read that clears it.
LEMMA StepLink ==
  ASSUME EncInv, EncNext
  PROVE  LinkIsKnown'
<1> USE DEF LinkIsKnown
<1>0. LinkIsKnown /\ NotYetUp /\ NotConfigured
  BY DEF EncInv
<1>9. linkUp \in BOOLEAN
  BY DEF EncInv, EncTypeOK
<1>1. CASE Connect
  <2>1. link' = FALSE /\ linkUp' = linkUp /\ ~linkUp
    BY <1>0, <1>1 DEF Connect, ResetState, driver, NotConfigured
  <2> QED BY <1>9, <2>1
<1>2. CASE LinkChanges
  BY <1>2 DEF LinkChanges
<1>3. CASE ResetController
  <2>1. linkUp' = linkUp /\ ~linkUp /\ nictask' = nictask
    BY <1>0, <1>3 DEF ResetController, driver, NotConfigured
  <2>2. CASE link' = FALSE
    BY <1>9, <2>1, <2>2
  <2>3. CASE UNCHANGED <<link, LINKIF>>
    BY <1>0, <2>1, <2>3
  <2> QED BY <1>3, <2>2, <2>3 DEF ResetController, ResetState, phyVars
<1>4. CASE ReadRevision
  BY <1>0, <1>4 DEF ReadRevision, phyVars, NotConfigured
<1>5. CASE ReadPHIR
  BY <1>5 DEF ReadPHIR, NicGoes
<1>6. CASE ReadPHSTAT2
  BY <1>6 DEF ReadPHSTAT2, NicGoes, phyVars
<1>7. CASE PacketArrives \/ FrameSent \/ RetryInitialise \/ Configure \/ GiveSemaphore
             \/ TakeForOutput \/ WriteFrame \/ OutputDone \/ StartOutput
  <2>1. UNCHANGED <<link, LINKIF, linkUp, nictask>>
    BY <1>7 DEF PacketArrives, FrameSent, RetryInitialise, Configure, GiveSemaphore,
       TakeForOutput, WriteFrame, OutputDone, StartOutput, controller, phyVars, driver
  <2> QED BY <1>0, <2>1
<1>8. CASE WaitEnds \/ TakeForNic \/ ReadEIR \/ ReadHeader \/ TakePacket \/ FreePacket
             \/ CountPacket \/ NicDone
  <2>1. UNCHANGED <<link, LINKIF, linkUp>> /\ nictask # "phstat"
    BY <1>8 DEF WaitEnds, TakeForNic, ReadEIR, ReadHeader, TakePacket, FreePacket,
       CountPacket, NicDone, NicGoes, controller, phyVars, driver
  <2> QED BY <1>0, <2>1
<1> QED
  BY <1>1, <1>2, <1>3, <1>4, <1>5, <1>6, <1>7, <1>8 DEF EncNext, IpTask, nicIntTask

\* The pointers of the ring.
LEMMA StepRing ==
  ASSUME EncInv, EncNext
  PROVE  NextPacketIsRight'
<1>1. CASE PacketArrives
  BY <1>1, ArrivalKeepsRing
<1>2. CASE ReadHeader
  BY <1>2, HeaderKeepsRing
<1>3. CASE FreePacket
  BY <1>3, FreeKeepsRing
<1>4. CASE CountPacket
  BY <1>4, CountKeepsRing
<1>5. CASE Connect \/ Configure \/ (ResetController /\ connected)
  <2>1. ERXWRPT' = 0 /\ ERXRDPT' = 0 /\ EPKTCNT' = 0 /\ nextPckPtr' = 0 /\ ~Taking'
    BY <1>5 DEF Connect, Configure, ResetController, ResetState, driver, EncInv, NotYetUp,
       NotConfigured, Taking
  <2> QED BY <2>1, EmptyRing
<1>6. CASE LinkChanges \/ FrameSent \/ (ResetController /\ ~connected) \/ RetryInitialise
             \/ GiveSemaphore \/ TakeForOutput \/ WriteFrame \/ OutputDone \/ StartOutput
  <2>1. UNCHANGED Pointers /\ UNCHANGED nictask
    BY <1>6 DEF LinkChanges, FrameSent, ResetController, RetryInitialise, GiveSemaphore,
       TakeForOutput, WriteFrame, OutputDone, StartOutput, controller, rxRing, driver, Pointers
  <2> QED BY <2>1, SameRing
<1>7. CASE ReadRevision
  <2>1. UNCHANGED Pointers /\ nictask = "none" /\ nictask' \in {"none", "wait"}
    BY <1>7 DEF ReadRevision, rxRing, Pointers, EncInv, NotConfigured
  <2> QED BY <2>1, SameRing DEF Taking
<1>8. CASE WaitEnds \/ TakeForNic \/ ReadEIR \/ ReadPHIR \/ ReadPHSTAT2 \/ TakePacket
             \/ NicDone
  <2>1. /\ UNCHANGED Pointers
        /\ nictask \notin {"erxrdpt", "pktdec"} /\ nictask' # "pktdec" /\ Taking' = Taking
    BY <1>8 DEF WaitEnds, TakeForNic, ReadEIR, ReadPHIR, ReadPHSTAT2, TakePacket, NicDone,
       NicGoes, controller, rxRing, driver, Pointers, Taking
  <2> QED BY <2>1, SameRing
<1> QED
  BY <1>1, <1>2, <1>3, <1>4, <1>5, <1>6, <1>7, <1>8 DEF EncNext, IpTask, nicIntTask

\* The invariant is inductive: it holds in every state the two tasks, the
\* controller and its cable can reach.
THEOREM EncInvariance == EncSpec => []EncInv
<1>1. EncInit => EncInv
  BY EncInitInv
<1>2. EncInv /\ [EncNext]_encVars => EncInv'
  <2> SUFFICES ASSUME EncInv, [EncNext]_encVars PROVE EncInv'
    OBVIOUS
  <2>1. CASE EncNext
    BY <2>1, StepType, StepStart, StepLink, StepRing DEF EncInv
  <2>2. CASE UNCHANGED encVars
    BY <2>2 DEF encVars, controller, phyVars, rxRing, driver, EncInv, EncTypeOK, NotYetUp,
       NotConfigured, Taking, LinkIsKnown, NextPacketIsRight
  <2> QED BY <2>1, <2>2
<1> QED BY <1>1, <1>2, PTL DEF EncSpec

\* Types are kept for every size of the receive buffer.
THEOREM EncTypeCorrect == EncSpec => []EncTypeOK
<1>1. EncInv => EncTypeOK
  BY DEF EncInv
<1> QED BY <1>1, EncInvariance, PTL

\* Whenever no change is announced, the driver knows the link as it is,
\* retries of the initialisation included.
THEOREM DriverKnowsTheLink == EncSpec => []LinkIsKnown
<1>1. EncInv => LinkIsKnown
  BY DEF EncInv
<1> QED BY <1>1, EncInvariance, PTL

\* In a receive buffer of any size, driver and controller agree on where the
\* next packet is and how many there are.
THEOREM RingIsInStep == EncSpec => []NextPacketIsRight
<1>1. EncInv => NextPacketIsRight
  BY DEF EncInv
<1> QED BY <1>1, EncInvariance, PTL
==============================================================================
