------------------------------ MODULE JtagUart ------------------------------
(***************************************************************************)
(* The debug output: write() of the JTAG UART driver, its interrupt        *)
(* handler, the system tick with the alarm that looks for the host once a  *)
(* second, and, outside the program, the FIFOs of the device and the host. *)
(*                                                                         *)
(* A step of the processor is an access to what the others also access.    *)
(* Handlers do not nest, and the main program stands still while one runs. *)
(* The k-th character the driver takes is named k.                         *)
(***************************************************************************)
EXTENDS Naturals, Sequences

CONSTANTS
  BUF_LEN, RX_LEN, \* ALTERA_AVALON_JTAG_UART_BUF_LEN, of tx_buf and of rx_buf (2048)
  Depth, RxDepth,  \* of the FIFOs of the device (64)
  Threshold,       \* characters in the FIFO at which it asks for more (8)
  Timeout,         \* sp->timeout, in seconds (10)
  InactiveMax,     \* INT_MAX - 2, where host_inactive stops
  Period,          \* alt_ticks_per_second() (1000)
  Ticks,           \* values of _alt_nticks (2^32)
  Counts,          \* the lengths of the writes
  MaxChars         \* bound on the characters written in all

ASSUME UartAssumption ==
  /\ BUF_LEN \in Nat /\ BUF_LEN > 1 /\ Depth \in Nat /\ Depth > 0
  /\ RX_LEN \in Nat /\ RX_LEN > 1 /\ RxDepth \in Nat
  /\ Threshold \in Nat /\ Threshold < Depth /\ Timeout \in Nat /\ Timeout > 0
  /\ InactiveMax \in Nat /\ InactiveMax >= Timeout
  /\ Period \in Nat /\ Period > 0 /\ Ticks \in Nat /\ Period + 1 < Ticks
  /\ Counts \subseteq Nat \ {0} /\ MaxChars \in Nat

VARIABLES
  pc, ptr, count, n, out,          \* write() and its locals; ptr: last character taken
  tx_buf, tx_in, tx_out, rx_in,    \* the two ring buffers; rx_out stays 0
  irq_enable, host_inactive,       \* RE, WE; seconds without the host
  isr, wi, space, avail, active,   \* the handler that runs, and its locals
  nticks, time, rollover, timer,   \* _alt_nticks, the alarm, and the timer device
  fifo, rxFifo, ac,                \* the device: FIFOs, activity bit
  got, idle                        \* the host: the last character it received; ticks
                                   \* since it polled (up to Period)

writer == <<pc, ptr, count, n, out>>
buffers == <<tx_buf, tx_in, tx_out, rx_in>>
handler == <<isr, wi, space, avail, active>>
alarm == <<nticks, time, rollover>>
device == <<fifo, rxFifo, ac>>
host == <<got, idle>>
vars == <<writer, buffers, irq_enable, host_inactive, handler, alarm, timer, device, host>>

\* x % m, for an x below 2 * m.
Wrap(x, m) == IF x < m THEN x ELSE x - m

Slot == 0 .. BUF_LEN - 1

\* alt_alarm_start(), before the first tick.
AlarmStart == time = Period + 1 /\ rollover = FALSE

\* As altera_avalon_jtag_uart_init() leaves it.
Init ==
  /\ pc = "idle" /\ ptr = 0 /\ count = 0 /\ n = 0 /\ out = 0
  /\ tx_buf = [s \in Slot |-> 0] /\ tx_in = 0 /\ tx_out = 0 /\ rx_in = 0
  /\ irq_enable = {"RE"} /\ host_inactive = 0
  /\ isr = "none" /\ wi = FALSE /\ space = 0 /\ avail = FALSE /\ active = FALSE
  /\ nticks = 0 /\ AlarmStart /\ timer = "rest"
  /\ fifo = <<>> /\ rxFifo = 0 /\ ac = FALSE
  /\ got = 0 /\ idle = 0

-----------------------------------------------------------------------------
(***************************************************************************)
(* write(), called by the main program.                                    *)
(***************************************************************************)
Call ==
  /\ pc = "idle" /\ pc' = "load"
  /\ \E c \in Counts : ptr + c <= MaxChars /\ count' = c
  /\ out' = 0
  /\ UNCHANGED <<ptr, n, buffers, irq_enable>>

\* Mutant: the slot that stays free is taken too.
RoomOfAll ==
  IF tx_in < tx_out THEN tx_out - tx_in ELSE BUF_LEN - tx_in

\* The characters that fit without going past the end of the buffer; one slot stays
\* free, since a full buffer would look like an empty one.
Room ==
  IF tx_in < tx_out THEN tx_out - 1 - tx_in
  ELSE IF tx_out > 0 THEN BUF_LEN - tx_in ELSE BUF_LEN - 1 - tx_in

Load ==
  /\ pc = "load"
  /\ IF count = 0
     THEN pc' = "kick" /\ UNCHANGED <<n, out>>
     ELSE /\ out' = tx_out
          /\ n' = IF Room > count THEN count ELSE Room
          /\ pc' = IF Room = 0 THEN "kick" ELSE "copy"
  /\ UNCHANGED <<ptr, count, buffers, irq_enable>>

Copy ==
  /\ pc = "copy" /\ pc' = "advance"
  /\ tx_buf' = [s \in Slot |->
                  IF s \in tx_in .. tx_in + n - 1 THEN ptr + 1 + (s - tx_in) ELSE tx_buf[s]]
  /\ ptr' = ptr + n /\ count' = count - n
  /\ UNCHANGED <<n, out, tx_in, tx_out, rx_in, irq_enable>>

Advance ==
  /\ pc = "advance" /\ pc' = "load"
  /\ tx_in' = Wrap(tx_in + n, BUF_LEN) /\ n' = 0
  /\ UNCHANGED <<ptr, count, out, tx_buf, tx_out, rx_in, irq_enable>>

\* write() returns ptr - start, or -EIO if that is 0; its locals are gone.
Return == pc' = "idle" /\ count' = 0 /\ out' = 0
Go(s) == pc' = s /\ UNCHANGED <<count, out>>

\* Mutant: the handler is woken only when the buffer is full.
KickIfFull ==
  /\ pc = "kick"
  /\ irq_enable' = IF count > 0 THEN irq_enable \union {"WE"} ELSE irq_enable
  /\ IF count > 0 THEN Go("wait") ELSE Return
  /\ UNCHANGED <<ptr, n, buffers>>

\* With the interrupts off.
Kick ==
  /\ pc = "kick"
  /\ irq_enable' = irq_enable \union {"WE"}
  /\ IF count > 0 THEN Go("wait") ELSE Return
  /\ UNCHANGED <<ptr, n, buffers>>

\* Until the handler has taken a character.
WaitOut ==
  /\ pc = "wait" /\ pc' = IF out = tx_out THEN "host" ELSE "test"
  /\ UNCHANGED <<ptr, count, n, out, buffers, irq_enable>>

WaitHost ==
  /\ pc = "host" /\ pc' = IF host_inactive < Timeout THEN "wait" ELSE "test"
  /\ UNCHANGED <<ptr, count, n, out, buffers, irq_enable>>

\* What is left is given up when the host was away in the last second.
Test ==
  /\ pc = "test" /\ IF host_inactive > 0 THEN Return ELSE Go("load")
  /\ UNCHANGED <<ptr, n, buffers, irq_enable>>

\* The rest of the main program.
Work == pc = "idle" /\ UNCHANGED <<writer, buffers, irq_enable>>

Main ==
  /\ \/ Call \/ Load \/ Copy \/ Advance \/ Kick \/ WaitOut \/ WaitHost \/ Test \/ Work
  /\ timer' = IF timer = "rest" THEN "runs" ELSE timer
  /\ UNCHANGED <<host_inactive, handler, alarm, device, host>>

-----------------------------------------------------------------------------
(***************************************************************************)
(* The interrupt handler of the device, turn by turn.                      *)
(***************************************************************************)
RI == "RE" \in irq_enable /\ rxFifo > 0
WI == "WE" \in irq_enable /\ Len(fifo) <= Threshold

Enter ==
  /\ isr = "none" /\ isr' = "turn"
  /\ UNCHANGED <<wi, space, avail, active, buffers, irq_enable, fifo, rxFifo>>

Turn ==
  /\ isr = "turn"
  /\ isr' = IF RI THEN "read" ELSE IF WI THEN "write" ELSE "none"
  /\ wi' = WI /\ space' = IF WI THEN Depth - Len(fifo) ELSE 0
  /\ avail' = RI
  /\ UNCHANGED <<active, buffers, irq_enable, fifo, rxFifo>>

AfterRead == IF wi THEN "write" ELSE "turn"
RxFull == Wrap(rx_in + 1, RX_LEN) = 0

\* A character of the host; nobody reads them, so that the buffer fills up.
ReadChar ==
  /\ isr = "read" /\ ~RxFull
  /\ IF rxFifo > 0
     THEN rxFifo' = rxFifo - 1 /\ rx_in' = rx_in + 1 /\ avail' = (rxFifo > 1) /\ UNCHANGED isr
     ELSE avail' = FALSE /\ isr' = AfterRead /\ UNCHANGED <<rxFifo, rx_in>>
  /\ UNCHANGED <<wi, space, active, tx_buf, tx_in, tx_out, irq_enable, fifo>>

\* Mutant: the interrupt of a device that cannot be read stays on.
ReadFullMute ==
  /\ isr = "read" /\ RxFull /\ isr' = AfterRead /\ avail' = FALSE
  /\ UNCHANGED <<wi, space, active, buffers, irq_enable, fifo, rxFifo>>

ReadFull ==
  /\ isr = "read" /\ RxFull /\ isr' = AfterRead /\ avail' = FALSE
  /\ irq_enable' = IF avail THEN irq_enable \ {"RE"} ELSE irq_enable
  /\ UNCHANGED <<wi, space, active, buffers, fifo, rxFifo>>

\* A full FIFO drops what is written to it.
WriteChar ==
  /\ isr = "write" /\ space > 0 /\ tx_out # tx_in
  /\ fifo' = IF Len(fifo) < Depth THEN Append(fifo, tx_buf[tx_out]) ELSE fifo
  /\ tx_out' = Wrap(tx_out + 1, BUF_LEN) /\ space' = space - 1
  /\ UNCHANGED <<isr, wi, avail, active, tx_buf, tx_in, rx_in, irq_enable, rxFifo>>

\* Mutant: the interrupt is turned off though the FIFO could not take all.
WriteEndAlways ==
  /\ isr = "write" /\ (space = 0 \/ tx_out = tx_in) /\ isr' = "turn" /\ wi' = FALSE /\ space' = 0
  /\ irq_enable' = irq_enable \ {"WE"}
  /\ UNCHANGED <<avail, active, buffers, fifo, rxFifo>>

WriteEnd ==
  /\ isr = "write" /\ (space = 0 \/ tx_out = tx_in) /\ isr' = "turn" /\ wi' = FALSE /\ space' = 0
  /\ irq_enable' = IF space > 0 THEN irq_enable \ {"WE"} ELSE irq_enable
  /\ UNCHANGED <<avail, active, buffers, fifo, rxFifo>>

UartHandler ==
  /\ \/ Enter /\ timer # "due" /\ (RI \/ WI)
     \/ Turn \/ ReadChar \/ ReadFull \/ WriteChar \/ WriteEnd
  /\ UNCHANGED <<writer, host_inactive, alarm, timer, ac, host>>

-----------------------------------------------------------------------------
(***************************************************************************)
(* The system tick, and the alarm.                                         *)
(***************************************************************************)

\* Mutant: an alarm time past the end of the counter is taken as it is.
DueAnyway(t) == time <= t

\* Whether the alarm goes off at tick t: not while it waits for the counter to
\* start again from 0.
Due(t) == time <= t /\ (rollover => t = 0)

\* alt_tick(), and the first access of the callback it makes.
Tick ==
  /\ isr = "none" /\ timer = "due" /\ timer' = "rest"
  /\ nticks' = Wrap(nticks + 1, Ticks)
  /\ rollover' = (rollover /\ nticks' # 0)
  /\ IF Due(nticks') THEN isr' = "alarm" /\ active' = ac ELSE UNCHANGED <<isr, active>>
  /\ idle' = IF idle < Period THEN idle + 1 ELSE idle
  /\ UNCHANGED <<time, wi, space, avail, writer, buffers, irq_enable, host_inactive, device,
                 got>>

\* Mutant: the seconds are counted on and on.
SecondMore == host_inactive + 1

\* A second more without the host.
Second == IF host_inactive < InactiveMax THEN host_inactive + 1 ELSE host_inactive

\* The next second; a time past the end of the counter starts again from 0.
Rearm == time' = Wrap(time + Period, Ticks) /\ rollover' = (rollover \/ time' < nticks)

\* The rest of altera_avalon_jtag_uart_timeout(), and of alt_tick().
TimeoutCallback ==
  /\ isr = "alarm" /\ isr' = "none" /\ active' = FALSE
  /\ ac' = (ac /\ ~active)
  /\ host_inactive' = IF active THEN 0 ELSE Second
  /\ Rearm
  /\ UNCHANGED <<nticks, timer, wi, space, avail, writer, buffers, irq_enable, fifo, rxFifo,
                 host>>

-----------------------------------------------------------------------------
(***************************************************************************)
(* Outside the processor.                                                  *)
(***************************************************************************)

\* The timer: the main program gets on between two ticks.
TimerTick ==
  /\ timer = "runs" /\ timer' = "due"
  /\ UNCHANGED <<writer, buffers, irq_enable, host_inactive, handler, alarm, device, host>>

\* The host polls the device: it takes a character if there is one.  It may be there
\* or not, come or go, so that it polls when it likes.
Poll ==
  /\ ac' = TRUE /\ idle' = 0
  /\ IF fifo = <<>> THEN UNCHANGED <<fifo, got>> ELSE fifo' = Tail(fifo) /\ got' = Head(fifo)
  /\ UNCHANGED <<writer, buffers, irq_enable, host_inactive, handler, alarm, timer, rxFifo>>

Type ==
  /\ rxFifo < RxDepth /\ rxFifo' = rxFifo + 1
  /\ ac' = TRUE /\ idle' = 0
  /\ UNCHANGED <<writer, buffers, irq_enable, host_inactive, handler, alarm, timer, fifo,
                 got>>

\* The processor takes the tick first, then the device, then the main program.
Processor ==
  \/ Tick
  \/ TimeoutCallback
  \/ UartHandler
  \/ isr = "none" /\ timer # "due" /\ ~RI /\ ~WI /\ Main

Next == Processor \/ TimerTick \/ Poll \/ Type

Spec == Init /\ [][Next]_vars

\* The processor and the timer run.
FairSpec == Spec /\ WF_vars(Processor) /\ WF_vars(TimerTick)

-----------------------------------------------------------------------------
(***************************************************************************)
(* Properties.                                                             *)
(***************************************************************************)

\* Every variable keeps its type.
TypeOK ==
  /\ pc \in {"idle", "load", "copy", "advance", "kick", "wait", "host", "test"}
  /\ ptr \in Nat /\ count \in Nat /\ n \in 0 .. BUF_LEN /\ out \in Slot
  /\ tx_buf \in [Slot -> Nat] /\ tx_in \in Slot /\ tx_out \in Slot /\ rx_in \in 0 .. RX_LEN - 1
  /\ irq_enable \subseteq {"RE", "WE"} /\ host_inactive \in 0 .. InactiveMax
  /\ isr \in {"none", "turn", "read", "write", "alarm"}
  /\ wi \in BOOLEAN /\ space \in 0 .. Depth /\ avail \in BOOLEAN /\ active \in BOOLEAN
  /\ nticks \in 0 .. Ticks - 1 /\ time \in 0 .. Ticks - 1 /\ rollover \in BOOLEAN
  /\ timer \in {"rest", "runs", "due"}
  /\ fifo \in Seq(Nat) /\ Len(fifo) <= Depth /\ rxFifo \in 0 .. RxDepth /\ ac \in BOOLEAN
  /\ got \in Nat /\ idle \in 0 .. Period

\* The characters that the handler can see in the buffer.
Accepted == IF pc = "advance" THEN ptr - n ELSE ptr
Channel == INSTANCE ByteChannel WITH Capacity <- BUF_LEN - 1 + Depth, put <- Accepted, got <- got

\* What write() takes reaches the host in order, none lost and none twice, though the
\* handler runs between any two steps of write() and the device drops what does not fit.
ReachesHost == Channel!Spec

\* No wake-up is lost: while there is something to send the interrupt of the device is
\* on, or write() is about to turn it on, though the handler turns it off when it has
\* seen an empty buffer.
Awake ==
  tx_in # tx_out => "WE" \in irq_enable \/ pc \in {"load", "copy", "advance", "kick"}

\* The alarm goes off at its tick, no earlier and no later, also when its time or the
\* tick counter has started again from 0.
AlarmOnTime == [][nticks' # nticks => (isr' = "alarm" <=> nticks' = time)]_vars

\* A second without the host is counted only if it did not poll in all that second.
SilentWhenCounted ==
  [][isr # "alarm" /\ isr' = "alarm" /\ ~active' => idle' = Period]_vars

\* write() returns, whether there is a host, there is none, or it comes and goes; and
\* whatever is typed, a handler that is called again and again does not stop it.
WriteReturns == pc # "idle" ~> pc = "idle"

\* A host that goes on polling gets everything, though write() does not wait for that.
Delivered ==
  WF_vars(Poll) => []<>(got = Accepted)
=============================================================================
