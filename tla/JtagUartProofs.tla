--------------------------- MODULE JtagUartProofs ---------------------------
(***************************************************************************)
(* Proofs about JtagUart, for buffers, FIFOs and counters of any size.     *)
(***************************************************************************)
EXTENDS JtagUart, Integers, TLAPS

-----------------------------------------------------------------------------
(***************************************************************************)
(* The inductive invariant.                                                *)
(***************************************************************************)

\* How many slots slot s is behind tx_out, and how many are in use.
Behind(s) == IF s < tx_out THEN s + BUF_LEN - tx_out ELSE s - tx_out
Used == Behind(tx_in)

\* What write() is about to hand over fits, and is its own.
Chunk ==
  pc \in {"copy", "advance"} =>
    /\ n \in 1 .. BUF_LEN - 1 /\ Used + n <= BUF_LEN - 1 /\ tx_in + n <= BUF_LEN
    /\ pc = "copy" => n <= count
    /\ pc = "advance" =>
         n <= ptr /\ \A s \in Slot : s \in tx_in .. tx_in + n - 1 => tx_buf[s] = Accepted + 1 + (s - tx_in)

\* The characters on the way are those after the last that was received, in order.
Line ==
  /\ Accepted = got + Len(fifo) + Used
  /\ \A i \in 1 .. Len(fifo) : fifo[i] = got + i
  /\ \A s \in Slot : Behind(s) < Used => tx_buf[s] = got + Len(fifo) + Behind(s) + 1

\* What the handler has been told of the FIFO is still so.
Space == isr \in {"read", "write"} => space + Len(fifo) <= Depth

\* The ticks until the alarm.
Left == IF rollover THEN time + Ticks - nticks ELSE time - nticks
Alarm ==
  /\ isr # "alarm" => Left \in 1 .. Period + 1
  /\ isr = "alarm" => time = nticks /\ ~rollover

\* The host has polled in this second, or was away in as much of it as has passed.
Heard == isr # "alarm" /\ ~ac => idle + Left >= Period

IInv == TypeOK /\ Awake /\ Chunk /\ Line /\ Space /\ Alarm /\ Heard

-----------------------------------------------------------------------------
LEMMA WrapType ==
  ASSUME NEW m \in Nat, NEW x \in 0 .. 2 * m - 1
  PROVE  Wrap(x, m) \in 0 .. m - 1
BY DEF Wrap

LEMMA InitInv ==
  ASSUME Init
  PROVE  IInv
<1>. USE UartAssumption DEF Init, AlarmStart
<1>1. TypeOK
  <2>1. tx_buf \in [Slot -> Nat] /\ out \in Slot /\ tx_in \in Slot /\ tx_out \in Slot
    BY DEF Slot
  <2>2. fifo \in Seq(Nat) /\ Len(fifo) <= Depth
    OBVIOUS
  <2>3. /\ rx_in \in 0 .. RX_LEN - 1 /\ irq_enable \subseteq {"RE", "WE"}
        /\ host_inactive \in 0 .. InactiveMax /\ n \in 0 .. BUF_LEN
        /\ nticks \in 0 .. Ticks - 1 /\ time \in 0 .. Ticks - 1
        /\ rxFifo \in 0 .. RxDepth /\ idle \in 0 .. Period /\ space \in 0 .. Depth
    OBVIOUS
  <2>4. QED BY <2>1, <2>2, <2>3 DEF TypeOK
<1>2. Awake /\ Chunk /\ Space /\ Alarm /\ Heard
  BY DEF Awake, Chunk, Space, Alarm, Heard, Left
<1>3. Line
  BY DEF Line, Accepted, Used, Behind, Slot
<1>4. QED BY <1>1, <1>2, <1>3 DEF IInv

-----------------------------------------------------------------------------
(***************************************************************************)
(* The types.                                                              *)
(***************************************************************************)
LEMMA MainType ==
  ASSUME IInv, Main
  PROVE  TypeOK'
<1>. USE UartAssumption DEF IInv, TypeOK
<1>1. /\ UNCHANGED <<host_inactive, handler, alarm, device, host>>
      /\ timer' \in {"rest", "runs", "due"}
  BY DEF Main
<1>. USE <1>1 DEF handler, alarm, device, host
<1>2. CASE Call
  BY <1>2 DEF Call, buffers, Slot
<1>3. CASE Load
  <2>1. Room \in 0 .. BUF_LEN
    BY DEF Room, Slot
  <2>2. QED BY <1>3, <2>1 DEF Load, buffers
<1>4. CASE Copy
  <2>1. tx_buf' \in [Slot -> Nat]
    <3>1. \A s \in Slot : s \in tx_in .. tx_in + n - 1 => ptr + 1 + (s - tx_in) \in Nat
      BY DEF Slot
    <3>2. QED BY <1>4, <3>1 DEF Copy
  <2>2. count - n \in Nat /\ ptr + n \in Nat
    BY <1>4 DEF Copy, Chunk
  <2>3. QED BY <1>4, <2>1, <2>2 DEF Copy
<1>5. CASE Advance
  <2>1. tx_in + n \in 0 .. 2 * BUF_LEN - 1
    BY <1>5 DEF Advance, Chunk, Slot
  <2>2. tx_in' \in Slot
    BY <1>5, <2>1, WrapType DEF Advance, Slot
  <2>3. QED BY <1>5, <2>2 DEF Advance
<1>6. CASE Kick
  BY <1>6 DEF Kick, Return, Go, buffers, Slot
<1>7. CASE WaitOut \/ WaitHost
  BY <1>7 DEF WaitOut, WaitHost, buffers
<1>8. CASE Test
  BY <1>8 DEF Test, Return, Go, buffers, Slot
<1>9. CASE Work
  BY <1>9 DEF Work, writer, buffers
<1>10. QED BY <1>2, <1>3, <1>4, <1>5, <1>6, <1>7, <1>8, <1>9 DEF Main

LEMMA HandlerType ==
  ASSUME IInv, UartHandler
  PROVE  TypeOK'
<1>. USE UartAssumption DEF IInv, TypeOK
<1>1. UNCHANGED <<writer, host_inactive, alarm, timer, ac, host>>
  BY DEF UartHandler
<1>. USE <1>1 DEF writer, alarm, host
<1>2. CASE Enter
  BY <1>2 DEF Enter, buffers
<1>3. CASE Turn
  BY <1>3 DEF Turn, RI, WI, buffers
<1>4. CASE ReadChar
  <2>1. rx_in + 1 \in 0 .. RX_LEN - 1
    BY <1>4 DEF ReadChar, RxFull, Wrap
  <2>2. rx_in' \in 0 .. RX_LEN - 1 /\ rxFifo' \in 0 .. RxDepth
    BY <1>4, <2>1 DEF ReadChar
  <2>3. avail' \in BOOLEAN /\ isr' \in {"none", "turn", "read", "write", "alarm"}
    <3>1. CASE rxFifo > 0
      <4>1. avail' = (rxFifo > 1) /\ isr' = isr
        BY <1>4, <3>1 DEF ReadChar
      <4>2. QED BY <4>1
    <3>2. CASE ~(rxFifo > 0)
      BY <1>4, <3>2 DEF ReadChar, AfterRead
    <3>3. QED BY <3>1, <3>2
  <2>4. UNCHANGED <<wi, space, active, tx_buf, tx_in, tx_out, irq_enable, fifo>>
    BY <1>4 DEF ReadChar
  <2>5. QED BY <2>2, <2>3, <2>4
<1>5. CASE ReadFull
  BY <1>5 DEF ReadFull, AfterRead, buffers
<1>6. CASE WriteChar
  <2>1. fifo' \in Seq(Nat) /\ Len(fifo') <= Depth
    BY <1>6 DEF WriteChar
  <2>2. tx_out' \in Slot
    <3>1. tx_out + 1 \in 0 .. 2 * BUF_LEN - 1
      BY DEF Slot
    <3>2. QED BY <1>6, <3>1, WrapType DEF WriteChar, Slot
  <2>3. space' \in 0 .. Depth
    BY <1>6 DEF WriteChar
  <2>4. QED BY <1>6, <2>1, <2>2, <2>3 DEF WriteChar
<1>7. CASE WriteEnd
  <2>1. irq_enable' \subseteq {"RE", "WE"} /\ space' \in 0 .. Depth
    BY <1>7 DEF WriteEnd
  <2>2. QED BY <1>7, <2>1 DEF WriteEnd, buffers
<1>8. QED BY <1>2, <1>3, <1>4, <1>5, <1>6, <1>7 DEF UartHandler

LEMMA OthersType ==
  ASSUME IInv, Tick \/ TimeoutCallback \/ TimerTick \/ Poll \/ Type
  PROVE  TypeOK'
<1>. USE UartAssumption DEF IInv, TypeOK, writer, buffers, handler, alarm, device, host
<1>1. CASE Tick
  <2>1. nticks' \in 0 .. Ticks - 1
    <3>1. nticks + 1 \in 0 .. 2 * Ticks - 1
      OBVIOUS
    <3>2. QED BY <1>1, <3>1, WrapType DEF Tick
  <2>2. QED BY <1>1, <2>1 DEF Tick
<1>2. CASE TimeoutCallback
  <2>1. time' \in 0 .. Ticks - 1
    <3>1. time + Period \in 0 .. 2 * Ticks - 1
      OBVIOUS
    <3>2. QED BY <1>2, <3>1, WrapType DEF TimeoutCallback, Rearm
  <2>2. host_inactive' \in 0 .. InactiveMax
    BY <1>2 DEF TimeoutCallback, Second
  <2>3. QED BY <1>2, <2>1, <2>2 DEF TimeoutCallback, Rearm
<1>3. CASE TimerTick
  BY <1>3 DEF TimerTick
<1>4. CASE Poll
  <2>1. ASSUME fifo # <<>>
        PROVE  Head(fifo) \in Nat /\ Tail(fifo) \in Seq(Nat) /\ Len(Tail(fifo)) <= Depth
    <3>1. Len(fifo) > 0 /\ Head(fifo) = fifo[1]
      BY <2>1
    <3>2. Tail(fifo) \in Seq(Nat) /\ Len(Tail(fifo)) = Len(fifo) - 1
      BY <2>1
    <3>3. fifo[1] \in Nat
      BY <3>1
    <3>4. QED BY <3>1, <3>2, <3>3
  <2>2. got' \in Nat /\ fifo' \in Seq(Nat) /\ Len(fifo') <= Depth
    BY <1>4, <2>1 DEF Poll
  <2>3. QED BY <1>4, <2>2 DEF Poll
<1>5. CASE Type
  BY <1>5 DEF Type
<1>6. QED BY <1>1, <1>2, <1>3, <1>4, <1>5

-----------------------------------------------------------------------------
(***************************************************************************)
(* The ring buffer.                                                        *)
(***************************************************************************)
LEMMA UsedType ==
  ASSUME TypeOK
  PROVE  Used \in 0 .. BUF_LEN - 1 /\ \A s \in Slot : Behind(s) \in 0 .. BUF_LEN - 1
BY UartAssumption DEF TypeOK, Used, Behind, Slot

LEMMA RoomFits ==
  ASSUME TypeOK
  PROVE  Room \in 0 .. BUF_LEN - 1 /\ Used + Room <= BUF_LEN - 1 /\ tx_in + Room <= BUF_LEN
BY UartAssumption DEF TypeOK, Room, Used, Behind, Slot

\* The slots that are about to be filled come right behind those in use.
LEMMA ChunkSlots ==
  ASSUME TypeOK, n \in 1 .. BUF_LEN - 1, Used + n <= BUF_LEN - 1, tx_in + n <= BUF_LEN,
         NEW s \in Slot
  PROVE  /\ s \in tx_in .. tx_in + n - 1 => Behind(s) = Used + (s - tx_in)
         /\ Behind(s) \in Used .. Used + n - 1 => s \in tx_in .. tx_in + n - 1
BY UartAssumption DEF TypeOK, Used, Behind, Slot

LEMMA InAdvances ==
  ASSUME TypeOK, n \in 1 .. BUF_LEN - 1, Used + n <= BUF_LEN - 1, tx_in + n <= BUF_LEN,
         tx_in' = Wrap(tx_in + n, BUF_LEN), UNCHANGED tx_out
  PROVE  Used' = Used + n
BY UartAssumption DEF TypeOK, Used, Behind, Slot, Wrap

LEMMA OutAdvances ==
  ASSUME TypeOK, tx_in # tx_out, tx_out' = Wrap(tx_out + 1, BUF_LEN), UNCHANGED tx_in
  PROVE  /\ Used' = Used - 1 /\ Used > 0 /\ Behind(tx_out) = 0
         /\ \A s \in Slot : Behind(s)' = IF s = tx_out THEN BUF_LEN - 1 ELSE Behind(s) - 1
BY UartAssumption DEF TypeOK, Used, Behind, Slot, Wrap

\* The characters that are on the way move on when write() lets the handler see its
\* chunk, when the handler gives one to the device, and when the host takes one.
LEMMA LineStays ==
  ASSUME IInv, UNCHANGED <<ptr, n, tx_buf, tx_in, tx_out, fifo, got>>, pc # "advance", pc' # "advance"
  PROVE  Line' /\ UNCHANGED <<Accepted, got>> /\ Used' = Used
BY DEF IInv, Line, Accepted, Used, Behind

LEMMA CopyLine ==
  ASSUME IInv, Copy, UNCHANGED <<fifo, got>>
  PROVE  Line' /\ UNCHANGED <<Accepted, got>> /\ Chunk'
<1>. USE UartAssumption
<1>1. /\ TypeOK /\ Line /\ n \in 1 .. BUF_LEN - 1 /\ Used + n <= BUF_LEN - 1
      /\ tx_in + n <= BUF_LEN /\ n <= count
  BY DEF IInv, Copy, Chunk
<1>2. Accepted = ptr /\ Accepted' = ptr /\ n <= ptr'
  BY <1>1 DEF Copy, Accepted, TypeOK
<1>3. Used' = Used /\ \A s \in Slot : Behind(s)' = Behind(s)
  BY DEF Copy, Used, Behind
<1>4. \A s \in Slot : Behind(s) < Used => tx_buf'[s] = tx_buf[s]
  <2>1. SUFFICES ASSUME NEW s \in Slot, Behind(s) < Used PROVE tx_buf'[s] = tx_buf[s]
    OBVIOUS
  <2>2. s \notin tx_in .. tx_in + n - 1
    <3>1. s \in tx_in .. tx_in + n - 1 => Behind(s) = Used + (s - tx_in)
      BY <1>1, ChunkSlots
    <3>2. Used \in Nat /\ tx_in \in Nat /\ s \in Nat
      BY <1>1, UsedType DEF TypeOK, Slot
    <3>3. QED BY <2>1, <3>1, <3>2
  <2>3. QED BY <2>2 DEF Copy
<1>5. Line'
  BY <1>1, <1>2, <1>3, <1>4 DEF Line, Copy
<1>6. \A s \in Slot : s \in tx_in .. tx_in + n - 1 => tx_buf'[s] = ptr + 1 + (s - tx_in)
  BY DEF Copy
<1>7. Chunk'
  BY <1>1, <1>2, <1>3, <1>6 DEF Chunk, Copy
<1>8. QED BY <1>2, <1>5, <1>7

LEMMA AdvanceLine ==
  ASSUME IInv, Advance, UNCHANGED <<fifo, got>>
  PROVE  /\ Line' /\ got' = got /\ Accepted' = Accepted + n
         /\ n \in 1 .. BUF_LEN - 1 /\ Used + n <= BUF_LEN - 1
<1>. USE UartAssumption
<1>1. /\ TypeOK /\ Line /\ n \in 1 .. BUF_LEN - 1 /\ Used + n <= BUF_LEN - 1
      /\ tx_in + n <= BUF_LEN /\ n <= ptr
      /\ \A s \in Slot : s \in tx_in .. tx_in + n - 1 => tx_buf[s] = Accepted + 1 + (s - tx_in)
  BY DEF IInv, Advance, Chunk
<1>2. Accepted' = Accepted + n
  BY <1>1 DEF Advance, Accepted, TypeOK
<1>3. Used' = Used + n /\ \A s \in Slot : Behind(s)' = Behind(s)
  BY <1>1, InAdvances DEF Advance, Behind
<1>4. ASSUME NEW s \in Slot, Behind(s) < Used + n
      PROVE  tx_buf[s] = got + Len(fifo) + Behind(s) + 1
  <2>0. Used \in Nat /\ Behind(s) \in Nat /\ tx_in \in Nat /\ got \in Nat /\ Len(fifo) \in Nat
    <3>1. Used \in 0 .. BUF_LEN - 1 /\ Behind(s) \in 0 .. BUF_LEN - 1
      BY <1>1, UsedType
    <3>2. tx_in \in Slot /\ fifo \in Seq(Nat) /\ got \in Nat
      BY <1>1 DEF TypeOK
    <3>3. Len(fifo) \in Nat
      BY <3>2
    <3>4. QED BY <3>1, <3>2, <3>3 DEF Slot
  <2>1. CASE Behind(s) < Used
    BY <1>1, <2>1 DEF Line
  <2>2. CASE ~(Behind(s) < Used)
    <3>1. s \in tx_in .. tx_in + n - 1
      BY <1>1, <1>4, <2>0, <2>2, ChunkSlots
    <3>2. Behind(s) = Used + (s - tx_in)
      BY <1>1, <3>1, ChunkSlots
    <3>3. tx_buf[s] = Accepted + 1 + (s - tx_in)
      BY <1>1, <3>1
    <3>4. s - tx_in \in Int /\ Accepted = got + Len(fifo) + Used
      BY <1>1, <2>0 DEF Slot, Line
    <3>5. QED BY <2>0, <3>2, <3>3, <3>4
  <2>3. QED BY <2>1, <2>2
<1>5. Accepted' = got + Len(fifo) + Used'
  BY <1>1, <1>2, <1>3, UsedType DEF Line, TypeOK
<1>6. Line'
  BY <1>1, <1>3, <1>4, <1>5 DEF Line, Advance
<1>7. QED BY <1>1, <1>2, <1>6

LEMMA WriteCharLine ==
  ASSUME IInv, WriteChar, UNCHANGED <<writer, got>>
  PROVE  Line' /\ UNCHANGED <<Accepted, got>> /\ Used' <= Used /\ Len(fifo') = Len(fifo) + 1
<1>. USE UartAssumption
<1>1. /\ TypeOK /\ Line /\ Len(fifo) < Depth
      /\ tx_in # tx_out /\ tx_out' = Wrap(tx_out + 1, BUF_LEN) /\ UNCHANGED <<tx_in, tx_buf>>
  BY DEF IInv, TypeOK, Space, WriteChar
<1>2. /\ Used' = Used - 1 /\ Used > 0 /\ Behind(tx_out) = 0
      /\ \A s \in Slot : Behind(s)' = IF s = tx_out THEN BUF_LEN - 1 ELSE Behind(s) - 1
  BY <1>1, OutAdvances
<1>3. fifo' = Append(fifo, tx_buf[tx_out])
  BY <1>1 DEF WriteChar
<1>4. /\ fifo \in Seq(Nat) /\ tx_out \in Slot /\ tx_buf[tx_out] \in Nat /\ got \in Nat
      /\ Used \in 0 .. BUF_LEN - 1 /\ \A s \in Slot : Behind(s) \in 0 .. BUF_LEN - 1
  BY <1>1, UsedType DEF TypeOK
<1>5. Len(fifo') = Len(fifo) + 1 /\ \A i \in 1 .. Len(fifo) : fifo'[i] = fifo[i]
  BY <1>3, <1>4
<1>6. fifo'[Len(fifo) + 1] = got + Len(fifo) + 1
  BY <1>1, <1>2, <1>3, <1>4 DEF Line
<1>7. \A i \in 1 .. Len(fifo') : fifo'[i] = got + i
  <2>1. SUFFICES ASSUME NEW i \in 1 .. Len(fifo') PROVE fifo'[i] = got + i
    OBVIOUS
  <2>2. Len(fifo) \in Nat
    BY <1>4
  <2>3. CASE i = Len(fifo) + 1
    BY <1>4, <1>6, <2>2, <2>3
  <2>4. CASE i # Len(fifo) + 1
    <3>1. i \in 1 .. Len(fifo)
      BY <1>5, <2>2, <2>4
    <3>2. QED BY <1>1, <1>5, <3>1 DEF Line
  <2>5. QED BY <2>3, <2>4
<1>8. ASSUME NEW s \in Slot, Behind(s)' < Used'
      PROVE  tx_buf[s] = got + Len(fifo') + Behind(s)' + 1
  <2>1. s # tx_out
    BY <1>2, <1>4, <1>8
  <2>2. Behind(s)' = Behind(s) - 1 /\ Behind(s) < Used
    BY <1>2, <1>4, <1>8, <2>1
  <2>3. tx_buf[s] = got + Len(fifo) + Behind(s) + 1
    BY <1>1, <2>2 DEF Line
  <2>4. QED BY <1>4, <1>5, <2>2, <2>3
<1>9. Accepted' = Accepted
  BY DEF Accepted, writer
<1>10. Accepted = got + Len(fifo') + Used'
  BY <1>1, <1>2, <1>4, <1>5 DEF Line
<1>11. Line'
  BY <1>1, <1>7, <1>8, <1>9, <1>10 DEF Line
<1>12. QED BY <1>2, <1>4, <1>5, <1>9, <1>11

LEMMA PollLine ==
  ASSUME IInv, Poll
  PROVE  Line' /\ Accepted' = Accepted /\ (got' = got \/ (got < Accepted /\ got' = got + 1))
<1>1. TypeOK /\ Line /\ UNCHANGED <<writer, buffers>>
  BY DEF IInv, Poll
<1>2. Accepted' = Accepted /\ Used' = Used /\ \A s \in Slot : Behind(s)' = Behind(s)
  BY <1>1 DEF Accepted, Used, Behind, writer, buffers
<1>3. CASE fifo = <<>>
  BY <1>1, <1>2, <1>3 DEF Poll, Line, buffers
<1>4. CASE fifo # <<>>
  <2>1. fifo \in Seq(Nat) /\ got \in Nat /\ Used \in Nat
    BY <1>1, UsedType DEF TypeOK
  <2>2. Len(fifo) > 0 /\ fifo' = Tail(fifo) /\ got' = fifo[1]
    BY <1>4, <2>1 DEF Poll
  <2>3. got' = got + 1
    BY <1>1, <2>1, <2>2 DEF Line
  <2>4. Len(fifo') = Len(fifo) - 1 /\ \A i \in 1 .. Len(fifo') : fifo'[i] = fifo[i + 1]
    BY <2>1, <2>2
  <2>5. \A i \in 1 .. Len(fifo') : fifo'[i] = got' + i
    BY <1>1, <2>1, <2>3, <2>4 DEF Line
  <2>6. got' + Len(fifo') = got + Len(fifo) /\ got < Accepted
    <3>1. Len(fifo) \in Nat
      BY <2>1
    <3>2. Accepted = got + Len(fifo) + Used
      BY <1>1 DEF Line
    <3>3. Len(fifo') = Len(fifo) - 1 /\ Len(fifo) > 0
      BY <2>2, <2>4
    <3>4. QED BY <2>1, <2>3, <3>1, <3>2, <3>3
  <2>7. Line'
    BY <1>1, <1>2, <2>5, <2>6 DEF Line, buffers
  <2>8. QED BY <1>2, <2>3, <2>6, <2>7
<1>5. QED BY <1>3, <1>4

-----------------------------------------------------------------------------
(***************************************************************************)
(* A step keeps the invariant.                                             *)
(***************************************************************************)
LEMMA AwakeStep ==
  ASSUME IInv, Next
  PROVE  Awake'
<1>. USE DEF IInv, Awake
<1>1. CASE Main
  <2>1. CASE Call \/ Load \/ Copy \/ Advance
    BY <2>1 DEF Call, Load, Copy, Advance
  <2>2. CASE Kick
    BY <2>2 DEF Kick
  <2>3. CASE WaitOut \/ WaitHost \/ Test \/ Work
    BY <2>3 DEF WaitOut, WaitHost, Test, Return, Go, Work, writer, buffers
  <2>4. QED BY <1>1, <2>1, <2>2, <2>3 DEF Main
<1>2. CASE UartHandler
  <2>1. pc' = pc
    BY <1>2 DEF UartHandler, writer
  <2>2. CASE Enter \/ Turn \/ ReadChar \/ ReadFull
    BY <2>1, <2>2 DEF Enter, Turn, ReadChar, ReadFull, buffers
  <2>3. CASE WriteChar
    BY <2>1, <2>3 DEF WriteChar
  <2>4. CASE WriteEnd
    BY <2>1, <2>4 DEF WriteEnd, buffers, TypeOK
  <2>5. QED BY <1>2, <2>2, <2>3, <2>4 DEF UartHandler
<1>3. CASE Tick \/ TimeoutCallback \/ TimerTick \/ Poll \/ Type
  BY <1>3 DEF Tick, TimeoutCallback, TimerTick, Poll, Type, writer, buffers
<1>4. QED BY <1>1, <1>2, <1>3 DEF Next, Processor

\* The FIFO only gets emptier while the handler works on what it was told.
LEMMA SpaceStep ==
  ASSUME IInv, Next
  PROVE  Space'
<1>1. TypeOK /\ Space /\ fifo \in Seq(Nat) /\ Len(fifo) <= Depth /\ space \in 0 .. Depth
  BY DEF IInv, TypeOK
<1>0. Len(fifo) \in Nat
  BY <1>1
<1>. USE UartAssumption
<1>2. CASE Main \/ Tick \/ TimeoutCallback \/ TimerTick \/ Type
  BY <1>1, <1>2 DEF Space, Main, Tick, TimeoutCallback, TimerTick, Type, handler, device
<1>3. CASE Poll
  <2>1. isr' = isr /\ space' = space
    BY <1>3 DEF Poll, handler
  <2>2. Len(fifo') <= Len(fifo) /\ Len(fifo') \in Nat
    <3>1. CASE fifo = <<>>
      BY <1>0, <1>3, <3>1 DEF Poll
    <3>2. CASE fifo # <<>>
      <4>1. fifo' = Tail(fifo) /\ Len(fifo) > 0
        BY <1>1, <1>3, <3>2 DEF Poll
      <4>2. QED BY <1>1, <4>1
    <3>3. QED BY <3>1, <3>2
  <2>3. QED BY <1>0, <1>1, <2>1, <2>2 DEF Space
<1>4. CASE Enter \/ ReadChar \/ ReadFull \/ WriteEnd
  BY <1>0, <1>1, <1>4 DEF Space, Enter, ReadChar, ReadFull, WriteEnd, AfterRead
<1>5. CASE Turn
  BY <1>0, <1>1, <1>5 DEF Space, Turn
<1>6. CASE WriteChar
  <2>1. Len(fifo') = Len(fifo) + 1 /\ space' = space - 1 /\ isr' = isr
    <3>1. tx_buf[tx_out] \in Nat /\ Len(fifo) < Depth
      BY <1>0, <1>1, <1>6 DEF WriteChar, Space, TypeOK
    <3>2. fifo' = Append(fifo, tx_buf[tx_out])
      BY <1>6, <3>1 DEF WriteChar
    <3>3. QED BY <1>1, <1>6, <3>1, <3>2 DEF WriteChar
  <2>2. QED BY <1>0, <1>1, <2>1 DEF Space
<1>7. QED BY <1>2, <1>3, <1>4, <1>5, <1>6 DEF Next, Processor, UartHandler

LEMMA CallbackLeft ==
  ASSUME IInv, TimeoutCallback
  PROVE  Left' = Period
<1>. USE UartAssumption
<1>0. TypeOK /\ Alarm /\ nticks \in 0 .. Ticks - 1 /\ time \in 0 .. Ticks - 1 /\ rollover \in BOOLEAN
  BY DEF IInv, TypeOK
<1>1. nticks' = nticks /\ isr' = "none" /\ time = nticks /\ ~rollover
  BY <1>0 DEF TimeoutCallback, Rearm, Alarm
<1>2. time' = (IF time + Period < Ticks THEN time + Period ELSE time + Period - Ticks)
  <2>1. time' = Wrap(time + Period, Ticks)
    BY DEF TimeoutCallback, Rearm
  <2>2. QED BY <1>0, <2>1 DEF Wrap
<1>3. rollover' = (time' < nticks)
  BY <1>1 DEF TimeoutCallback, Rearm
<1>4. Left' = Period
  <2>1. CASE time + Period < Ticks
    <3>1. time' = nticks + Period /\ ~rollover'
      BY <1>0, <1>1, <1>2, <1>3, <2>1
    <3>2. QED BY <1>0, <1>1, <3>1 DEF Left
  <2>2. CASE ~(time + Period < Ticks)
    <3>0. time' = nticks + Period - Ticks /\ time' < nticks
      BY <1>0, <1>1, <1>2, <2>2
    <3>1. rollover'
      BY <1>3, <3>0
    <3>2. QED BY <1>0, <1>1, <3>0, <3>1 DEF Left
  <2>3. QED BY <2>1, <2>2
<1>5. QED BY <1>4

LEMMA AlarmStep ==
  ASSUME IInv, Next
  PROVE  /\ Alarm'
         /\ nticks' # nticks => (isr' = "alarm" <=> nticks' = time)
<1>. USE UartAssumption
<1>1. TypeOK /\ Alarm /\ nticks \in 0 .. Ticks - 1 /\ time \in 0 .. Ticks - 1 /\ rollover \in BOOLEAN
  BY DEF IInv, TypeOK
<1>2. CASE Tick
  <2>1. /\ isr = "none" /\ time' = time /\ isr' = (IF Due(nticks') THEN "alarm" ELSE "none")
        /\ rollover' = (rollover /\ nticks' # 0) /\ nticks' = Wrap(nticks + 1, Ticks)
    BY <1>2 DEF Tick
  <2>2. nticks' = (IF nticks = Ticks - 1 THEN 0 ELSE nticks + 1)
    BY <1>1, <2>1 DEF Wrap
  <2>3. Left \in 1 .. Period + 1
    BY <1>1, <2>1 DEF Alarm
  <2>4. CASE rollover
    <3>1. time < nticks
      BY <1>1, <2>3, <2>4 DEF Left
    <3>2. CASE nticks = Ticks - 1
      <4>0. nticks' = 0
        BY <2>2, <3>2
      <4>a. ~rollover'
        BY <2>1, <4>0
      <4>b. Left = time + 1
        BY <1>1, <2>4, <3>2 DEF Left
      <4>1. ~rollover' /\ Left = time + 1
        BY <4>a, <4>b
      <4>2. Due(nticks') <=> time = 0
        BY <1>1, <4>0 DEF Due
      <4>3. Left' = time
        BY <1>1, <2>1, <4>0, <4>1 DEF Left
      <4>4. QED BY <1>1, <2>1, <2>3, <4>0, <4>1, <4>2, <4>3 DEF Alarm
    <3>3. CASE nticks # Ticks - 1
      <4>0. nticks' = nticks + 1 /\ nticks' # 0
        BY <1>1, <2>2, <3>3
      <4>1. rollover'
        BY <2>1, <2>4, <4>0
      <4>2. ~Due(nticks') /\ nticks' # time
        BY <1>1, <2>4, <3>1, <4>0 DEF Due
      <4>3. Left' = Left - 1 /\ Left > 1
        BY <1>1, <2>1, <2>4, <3>3, <4>0, <4>1 DEF Left
      <4>4. QED BY <2>1, <2>3, <4>2, <4>3 DEF Alarm
    <3>4. QED BY <3>2, <3>3
  <2>5. CASE ~rollover
    <3>1. time > nticks
      BY <1>1, <2>3, <2>5 DEF Left
    <3>2. nticks' = nticks + 1 /\ (Due(nticks') <=> nticks + 1 = time) /\ ~rollover'
      BY <1>1, <2>1, <2>2, <2>5, <3>1 DEF Due
    <3>3. Left' = Left - 1
      BY <1>1, <2>1, <2>5, <3>1, <3>2 DEF Left
    <3>4. nticks' # time => Left > 1
      BY <1>1, <2>5, <3>1, <3>2 DEF Left
    <3>5. QED BY <2>1, <2>3, <3>2, <3>3, <3>4 DEF Alarm
  <2>6. QED BY <1>1, <2>4, <2>5
<1>3. CASE TimeoutCallback
  <2>1. isr' = "none" /\ nticks' = nticks
    BY <1>3 DEF TimeoutCallback, Rearm
  <2>2. Left' = Period
    BY <1>3, CallbackLeft
  <2>3. QED BY <2>1, <2>2 DEF Alarm
<1>4. CASE UartHandler
  <2>1. UNCHANGED <<nticks, time, rollover>> /\ isr # "alarm" /\ isr' # "alarm"
    BY <1>4 DEF UartHandler, alarm, Enter, Turn, ReadChar, ReadFull, AfterRead, WriteChar, WriteEnd
  <2>2. QED BY <1>1, <2>1 DEF Alarm, Left
<1>5. CASE Main \/ TimerTick \/ Poll \/ Type
  <2>1. UNCHANGED <<nticks, time, rollover, isr>>
    BY <1>5 DEF Main, TimerTick, Poll, Type, handler, alarm
  <2>2. QED BY <1>1, <2>1 DEF Alarm, Left
<1>6. QED BY <1>2, <1>3, <1>4, <1>5 DEF Next, Processor

LEMMA HeardStep ==
  ASSUME IInv, Next
  PROVE  /\ Heard'
         /\ isr # "alarm" /\ isr' = "alarm" /\ ~active' => idle' = Period
<1>. USE UartAssumption
<1>1. /\ TypeOK /\ Alarm /\ Heard /\ idle \in 0 .. Period /\ ac \in BOOLEAN
      /\ nticks \in 0 .. Ticks - 1 /\ time \in 0 .. Ticks - 1 /\ rollover \in BOOLEAN
  BY DEF IInv, TypeOK
<1>2. CASE Tick
  <2>1. /\ isr = "none" /\ ac' = ac /\ (isr' = "alarm" => active' = ac)
        /\ idle' = (IF idle < Period THEN idle + 1 ELSE idle)
        /\ nticks' = Wrap(nticks + 1, Ticks) /\ time' = time
        /\ rollover' = (rollover /\ nticks' # 0)
    BY <1>2 DEF Tick, device
  <2>2. Left \in 1 .. Period + 1 /\ (~ac => idle + Left >= Period)
    BY <1>1, <2>1 DEF Alarm, Heard
  <2>3. nticks' = (IF nticks = Ticks - 1 THEN 0 ELSE nticks + 1)
    BY <1>1, <2>1 DEF Wrap
  <2>4. Left' = Left - 1
    <3>1. CASE rollover /\ nticks = Ticks - 1
      <4>1. nticks' = 0
        BY <2>3, <3>1
      <4>2. ~rollover'
        BY <2>1, <4>1
      <4>3. Left' = time /\ Left = time + 1
        BY <1>1, <2>1, <3>1, <4>1, <4>2 DEF Left
      <4>4. QED BY <1>1, <4>3
    <3>2. CASE rollover /\ nticks # Ticks - 1
      <4>1. nticks' = nticks + 1 /\ nticks' # 0
        BY <1>1, <2>3, <3>2
      <4>2. rollover'
        BY <2>1, <3>2, <4>1
      <4>3. QED BY <1>1, <2>1, <3>2, <4>1, <4>2 DEF Left
    <3>3. CASE ~rollover
      <4>1. time > nticks
        BY <1>1, <2>2, <3>3 DEF Left
      <4>2. nticks' = nticks + 1
        BY <1>1, <2>3, <4>1
      <4>3. ~rollover'
        BY <2>1, <3>3
      <4>4. QED BY <1>1, <2>1, <3>3, <4>2, <4>3 DEF Left
    <3>4. QED BY <3>1, <3>2, <3>3
  <2>5. ~ac => idle' + Left' >= Period
    BY <1>1, <2>1, <2>2, <2>4
  <2>6. isr' = "alarm" /\ ~active' => idle' = Period
    <3>1. isr' = "alarm" => Left' = 0
      <4>1. isr' = "alarm" => time' = nticks' /\ ~rollover'
        BY AlarmStep DEF Alarm
      <4>2. nticks' \in Int
        BY <1>1, <2>3
      <4>3. ASSUME isr' = "alarm" PROVE Left' = time' - nticks'
        BY <4>1, <4>3 DEF Left
      <4>4. \A k \in Int : k - k = 0
        OBVIOUS
      <4>5. nticks' - nticks' = 0
        BY <4>2, <4>4, Zenon
      <4>6. QED BY <4>1, <4>3, <4>5
    <3>2. QED BY <1>1, <2>1, <2>5, <3>1
  <2>7. QED BY <2>1, <2>5, <2>6 DEF Heard
<1>3. CASE TimeoutCallback
  <2>1. isr' = "none" /\ idle' \in Nat
    BY <1>1, <1>3 DEF TimeoutCallback, Rearm, host
  <2>2. Left' = Period
    BY <1>3, CallbackLeft
  <2>3. Period \in Nat /\ \A i \in Nat : i + Period >= Period
    BY UartAssumption
  <2>5. idle' + Period >= Period
    BY <2>1, <2>3
  <2>6. idle' + Left' >= Period
    BY <2>2, <2>5
  <2>7. QED BY <2>6, <1>3 DEF Heard, TimeoutCallback, Rearm
<1>4. CASE UartHandler
  <2>1. UNCHANGED <<nticks, time, rollover, ac, idle>> /\ isr # "alarm" /\ isr' # "alarm"
    BY <1>4 DEF UartHandler, alarm, host, Enter, Turn, ReadChar, ReadFull, AfterRead, WriteChar,
      WriteEnd
  <2>2. QED BY <1>1, <2>1 DEF Heard, Left
<1>5. CASE Main \/ TimerTick
  <2>1. UNCHANGED <<nticks, time, rollover, isr, ac, idle>>
    BY <1>5 DEF Main, TimerTick, handler, alarm, device, host
  <2>2. QED BY <1>1, <2>1 DEF Heard, Left
<1>6. CASE Poll \/ Type
  <2>1. ac' = TRUE /\ isr' = isr
    BY <1>6 DEF Poll, Type, handler
  <2>2. QED BY <2>1 DEF Heard
<1>7. QED BY <1>2, <1>3, <1>4, <1>5, <1>6 DEF Next, Processor

\* What a step is for the channel: a chunk more, a character less, or nothing.
LEMMA ChannelStep ==
  ASSUME IInv, Next
  PROVE  /\ Line' /\ Chunk'
         /\ \/ UNCHANGED <<Accepted, got>>
            \/ /\ n \in 1 .. BUF_LEN - 1 /\ Used + n <= BUF_LEN - 1
               /\ Accepted' = Accepted + n /\ got' = got
            \/ got < Accepted /\ got' = got + 1 /\ Accepted' = Accepted
<1>. USE UartAssumption
<1>1. TypeOK /\ Line /\ Chunk
  BY DEF IInv
<1>2. CASE Main
  <2>0. UNCHANGED <<fifo, got>>
    BY <1>2 DEF Main, device, host
  <2>1. CASE Call
    <3>1. /\ pc = "idle" /\ pc' = "load"
          /\ UNCHANGED <<ptr, n, tx_buf, tx_in, tx_out, fifo, got>>
      BY <2>0, <2>1 DEF Call, buffers
    <3>2. QED BY <3>1, LineStays DEF Chunk
  <2>2. CASE Load
    <3>1. UNCHANGED <<ptr, tx_buf, tx_in, tx_out, fifo, got>> /\ pc = "load" /\ pc' # "advance"
      BY <2>0, <2>2 DEF Load, buffers
    <3>2. Line' /\ UNCHANGED <<Accepted, got>> /\ Used' = Used
      BY <1>1, <3>1 DEF Line, Accepted, Used, Behind
    <3>3. Chunk'
      <4>1. SUFFICES ASSUME pc' = "copy"
                     PROVE  /\ n' \in 1 .. BUF_LEN - 1 /\ Used + n' <= BUF_LEN - 1
                            /\ tx_in + n' <= BUF_LEN /\ n' <= count'
        BY <3>1, <3>2 DEF Chunk
      <4>2. count # 0 /\ Room # 0 /\ n' = (IF Room > count THEN count ELSE Room) /\ count' = count
        BY <2>2, <4>1 DEF Load
      <4>3. /\ Room \in 0 .. BUF_LEN - 1 /\ Used + Room <= BUF_LEN - 1
            /\ tx_in + Room <= BUF_LEN
        BY <1>1, RoomFits
      <4>4. Used \in Nat
        <5>1. Used \in 0 .. BUF_LEN - 1
          BY <1>1, UsedType
        <5>2. QED BY <5>1
      <4>5. tx_in \in Nat /\ count \in Nat
        BY <1>1 DEF TypeOK, Slot
      <4>6. n' \in 1 .. Room /\ n' <= count
        BY <4>2, <4>3, <4>5
      <4>7. Used + n' <= BUF_LEN - 1 /\ tx_in + n' <= BUF_LEN
        <5>1. \A u, k, r, m \in Int : k <= r /\ u + r <= m => u + k <= m
          OBVIOUS
        <5>2. /\ Used \in Int /\ tx_in \in Int /\ n' \in Int /\ Room \in Int
              /\ n' <= Room /\ BUF_LEN \in Int /\ BUF_LEN - 1 \in Int
          BY <4>3, <4>4, <4>5, <4>6
        <5>3. QED BY <4>3, <5>1, <5>2, Zenon
      <4>8. QED BY <4>2, <4>3, <4>6, <4>7
    <3>4. QED BY <3>2, <3>3
  <2>3. CASE Copy
    BY <2>0, <2>3, CopyLine
  <2>4. CASE Advance
    <3>1. Chunk'
      BY <2>4 DEF Advance, Chunk
    <3>2. QED BY <2>0, <2>4, <3>1, AdvanceLine
  <2>5. CASE Kick \/ WaitOut \/ WaitHost \/ Test \/ Work
    <3>1. /\ pc \notin {"copy", "advance"} /\ pc' \notin {"copy", "advance"}
          /\ UNCHANGED <<ptr, n, tx_buf, tx_in, tx_out, fifo, got>>
      BY <2>0, <2>5 DEF Kick, WaitOut, WaitHost, Test, Work, Return, Go, writer, buffers
    <3>2. QED BY <3>1, LineStays DEF Chunk
  <2>6. QED BY <1>2, <2>1, <2>2, <2>3, <2>4, <2>5 DEF Main
<1>3. CASE UartHandler
  <2>0. UNCHANGED <<pc, ptr, count, n, got>>
    BY <1>3 DEF UartHandler, writer, host
  <2>1. CASE Enter \/ Turn \/ ReadChar \/ ReadFull \/ WriteEnd
    <3>1. UNCHANGED <<tx_buf, tx_in, tx_out, fifo>>
      BY <2>1 DEF Enter, Turn, ReadChar, ReadFull, WriteEnd, buffers
    <3>2. QED BY <1>1, <2>0, <3>1 DEF Line, Chunk, Accepted, Used, Behind
  <2>2. CASE WriteChar
    <3>1. Line' /\ UNCHANGED <<Accepted, got>> /\ Used' <= Used
      BY <1>3, <2>0, <2>2, WriteCharLine DEF UartHandler
    <3>2. UNCHANGED <<tx_buf, tx_in>>
      BY <2>2 DEF WriteChar
    <3>3. Used' \in Nat /\ Used \in Nat
      <4>1. TypeOK'
        BY <1>3, HandlerType
      <4>2. Used \in 0 .. BUF_LEN - 1
        BY <1>1, UsedType
      <4>3. Used' \in 0 .. BUF_LEN - 1
        BY <1>1, <2>2, <4>2, OutAdvances DEF WriteChar
      <4>4. QED BY <4>2, <4>3
    <3>4. Chunk'
      <4>1. SUFFICES ASSUME pc \in {"copy", "advance"} PROVE Chunk'
        BY <2>0 DEF Chunk
      <4>2. n \in 1 .. BUF_LEN - 1 /\ Used + n <= BUF_LEN - 1
        BY <1>1, <4>1 DEF Chunk
      <4>3. Used' + n <= BUF_LEN - 1
        <5>1. \A u, v, k \in Int : u <= v /\ v + k <= BUF_LEN - 1 => u + k <= BUF_LEN - 1
          OBVIOUS
        <5>2. Used' \in Int /\ Used \in Int /\ n \in Int
          BY <3>3, <4>2
        <5>3. QED BY <3>1, <4>2, <5>1, <5>2, Zenon
      <4>4. QED BY <1>1, <2>0, <3>1, <3>2, <4>2, <4>3 DEF Chunk
    <3>5. QED BY <3>1, <3>4
  <2>3. QED BY <1>3, <2>1, <2>2 DEF UartHandler
<1>4. CASE Poll
  <2>1. UNCHANGED <<writer, buffers>>
    BY <1>4 DEF Poll
  <2>2. Chunk'
    BY <1>1, <2>1 DEF Chunk, Accepted, Used, Behind, writer, buffers
  <2>3. QED BY <1>4, <2>2, PollLine
<1>5. CASE Tick \/ TimeoutCallback \/ TimerTick \/ Type
  <2>1. UNCHANGED <<writer, buffers, fifo, got>>
    BY <1>5 DEF Tick, TimeoutCallback, TimerTick, Type, device, host
  <2>2. QED BY <1>1, <2>1 DEF Line, Chunk, Accepted, Used, Behind, writer, buffers
<1>6. QED BY <1>2, <1>3, <1>4, <1>5 DEF Next, Processor

LEMMA StepInv ==
  ASSUME IInv, [Next]_vars
  PROVE  IInv'
<1>1. CASE Next
  <2>1. TypeOK'
    BY <1>1, MainType, HandlerType, OthersType DEF Next, Processor
  <2>2. QED BY <1>1, <2>1, AwakeStep, SpaceStep, AlarmStep, HeardStep, ChannelStep DEF IInv
<1>2. CASE UNCHANGED vars
  BY <1>2 DEF vars, writer, buffers, handler, alarm, device, host, IInv, TypeOK, Awake, Chunk, Line,
    Space, Alarm, Heard, Left, Accepted, Used, Behind
<1>3. QED BY <1>1, <1>2

\* write(), its handler, the alarm and the host rely on each other as IInv says.
THEOREM Invariance == Spec => []IInv
<1>1. Init => IInv
  BY InitInv
<1>2. IInv /\ [Next]_vars => IInv'
  BY StepInv
<1>3. QED BY <1>1, <1>2, PTL DEF Spec

-----------------------------------------------------------------------------
(***************************************************************************)
(* The theorems.                                                           *)
(***************************************************************************)

\* Every variable keeps its type; in particular the device is never given more than
\* its FIFO holds.
THEOREM TypeCorrect == Spec => []TypeOK
<1>1. IInv => TypeOK
  BY DEF IInv
<1>2. QED BY <1>1, Invariance, PTL

\* No wake-up is lost between write() and the handler, wherever the interrupt comes.
THEOREM NoLostWakeUp == Spec => []Awake
<1>1. IInv => Awake
  BY DEF IInv
<1>2. QED BY <1>1, Invariance, PTL

\* The alarm goes off at its tick, wherever in the range of the counter that is.
THEOREM AlarmIsOnTime == Spec => AlarmOnTime
<1>1. IInv /\ [Next]_vars => [nticks' # nticks => (isr' = "alarm" <=> nticks' = time)]_vars
  BY AlarmStep
<1>2. QED BY <1>1, Invariance, PTL DEF Spec, AlarmOnTime

\* A second is counted as one without the host only if the host was silent all through.
THEOREM SilenceIsReal == Spec => SilentWhenCounted
<1>1. IInv /\ [Next]_vars => [isr # "alarm" /\ isr' = "alarm" /\ ~active' => idle' = Period]_vars
  BY HeardStep
<1>2. QED BY <1>1, Invariance, PTL DEF Spec, SilentWhenCounted

\* The driver, the device and the host implement the byte channel, whatever the sizes
\* of the buffer and of the FIFO.
THEOREM Refinement == Spec => ReachesHost
<1>. USE UartAssumption
<1>1. Init => Channel!Init
  BY DEF Init, Channel!Init, Accepted
<1>2. IInv /\ [Next]_vars => [Channel!Next]_(Channel!vars)
  <2>1. SUFFICES ASSUME IInv, [Next]_vars PROVE [Channel!Next]_(Channel!vars)
    OBVIOUS
  <2>2. CASE UNCHANGED vars
    BY <2>2 DEF vars, writer, host, Channel!vars, Accepted
  <2>3. CASE Next
    <3>1. CASE UNCHANGED <<Accepted, got>>
      BY <3>1 DEF Channel!vars
    <3>2. CASE /\ n \in 1 .. BUF_LEN - 1 /\ Used + n <= BUF_LEN - 1
               /\ Accepted' = Accepted + n /\ got' = got
      <4>1. /\ Accepted = got + Len(fifo) + Used /\ got \in Nat /\ Len(fifo) <= Depth
            /\ fifo \in Seq(Nat) /\ Used \in 0 .. BUF_LEN - 1
        BY <2>1, UsedType DEF IInv, Line, TypeOK
      <4>2. Len(fifo) \in Nat
        BY <4>1
      <4>3. n \in 1 .. BUF_LEN - 1 + Depth /\ Accepted' - got <= BUF_LEN - 1 + Depth
        BY <3>2, <4>1, <4>2
      <4>4. QED BY <3>2, <4>3 DEF Channel!Next, Channel!Put
    <3>3. CASE got < Accepted /\ got' = got + 1 /\ Accepted' = Accepted
      BY <3>3 DEF Channel!Next, Channel!Get
    <3>4. QED BY <2>1, <2>3, <3>1, <3>2, <3>3, ChannelStep
  <2>4. QED BY <2>1, <2>2, <2>3
<1>3. QED BY <1>1, <1>2, Invariance, PTL DEF Spec, ReachesHost, Channel!Spec
=============================================================================
