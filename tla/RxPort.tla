------------------------------- MODULE RxPort -------------------------------
(***************************************************************************)
(* Which HDMI input the ADV7619 receives from.  Two pieces of firmware     *)
(* decide it over one I2C bus, with no lock between them:                  *)
(*   - the main loop (main.c:333-383) polls the TMDS clocks, selects the   *)
(*     port that has one and starts a measurement of it (Meaurement);      *)
(*   - hdmi_isr (HDMI_RX.c:178-187), run when the INT line of the chip     *)
(*     falls, selects the port that has a cable.                           *)
(*                                                                         *)
(* A step of either is one I2C transaction.  The handler may preempt a     *)
(* transaction of the main loop; the transaction is then torn: a write may *)
(* not reach the chip and a read may give the caller anything (the value   *)
(* byte is uninitialized after a NACK, and it ends in ones when its        *)
(* clocks find the chip idle; module I2CMaster shows both, bit by bit).    *)
(*                                                                         *)
(* The chip, its cables and clocks are external.  Only what the firmware   *)
(* acts on is kept: printf arguments are not.                              *)
(***************************************************************************)
EXTENDS Naturals

CONSTANTS
  MaxCable,      \* bound on the number of cables plugged or unplugged
  MaxClock,      \* bound on the number of TMDS clocks that start or stop
  MaxPoll        \* tries of each poll of Meaurement (100 in main.c)

ASSUME BoundAssumption == MaxCable \in Nat /\ MaxClock \in Nat /\ MaxPoll \in Nat \ {0}

A == 0           \* PORT_A and PORT_B of main.c; the same numbers are the
B == 1           \* HDMI_PORT_SELECT codes
Port == {A, B}
None == 255      \* 0xFF in PortSelValue and PrePortSelValue
Reserved == 2    \* stands for the HDMI_PORT_SELECT codes 2..7
Select == {A, B, Reserved}

VARIABLES
  \* the chip and its surroundings
  cable,         \* the ports with a cable (CABLE_DET_x_RAW)
  clock,         \* the ports with a TMDS clock (TMDS_CLK_x_RAW)
  status,        \* the ports whose latched cable status holds INT asserted
  reg00,         \* HDMI map 0x00: [sel |-> bits 2:0, meas |-> bits 5:3]
  nCable, nClock, \* cable and clock changes so far
  \* the PIO of the INT line
  edgeCap, irqMask,
  \* the main loop
  pc, port,
  clkDetected,   \* bClkDetected, and bPreClkDetected once compared with it
  stateChanged,  \* bStateChagned
  portSel,       \* PortSelValue
  prePortSel,    \* PrePortSelValue
  value8,        \* HDMI_PORT_SELECT in the value8 of Meaurement
  tries,         \* i of Meaurement
  torn,          \* the handler preempted the transaction pc is at
  \* the interrupt handler
  isr, portNumber,
  \* history
  owed,          \* cable changes the interrupt is to tell the handler about
  deaf,          \* a change came when the handler could only lose its edge
  disturbed      \* the handler ran since the main loop last chose a port

chip == <<cable, clock, status, nCable, nClock>>
pio == <<edgeCap, irqMask>>
main == <<pc, port, clkDetected, stateChanged, portSel, prePortSel, value8, tries, torn>>
handler == <<isr, portNumber>>
history == <<owed, deaf, disturbed>>
vars == <<chip, reg00, pio, main, handler, history>>

Init ==
  /\ cable \in SUBSET Port
  /\ clock \in SUBSET cable
  /\ status = {}
  /\ reg00 = [sel |-> A, meas |-> B]              \* 0x680008 in regData
  /\ nCable = 0 /\ nClock = 0
  /\ edgeCap \in BOOLEAN                          \* edges from before the reset
  /\ irqMask = FALSE
  /\ pc = "initClear" /\ port = A
  /\ clkDetected = {} /\ stateChanged = FALSE
  /\ portSel = None /\ prePortSel = None
  /\ value8 = A /\ tries = 0 /\ torn = FALSE
  /\ isr = "idle" /\ portNumber = None
  /\ owed = {} /\ deaf = FALSE /\ disturbed = FALSE

-----------------------------------------------------------------------------
(***************************************************************************)
(* The chip.  A cable change latches the status of its port.  INT is       *)
(* asserted (low) while a status is latched, and the PIO captures the      *)
(* falling edge only: the change that finds INT asserted makes none.       *)
(***************************************************************************)
IntAsserted == status # {}

\* The handler has read the cable of port p and not finished.
AlreadyRead(p) ==
  \/ isr \in {"enable", "clearA", "clearB", "ack"}
  \/ p = B /\ isr = "readA"

\* The status of port p, once latched, will not be cleared, but edgeCap will.
Deafens(p) ==
  \/ pc = "initClear"
  \/ isr = "ack"
  \/ p = A /\ isr = "clearB"

CableChange(p) ==
  /\ nCable < MaxCable
  /\ nCable' = nCable + 1
  /\ cable' = IF p \in cable THEN cable \ {p} ELSE cable \union {p}
  /\ clock' = clock \ {p}
  /\ status' = status \union {p}
  /\ edgeCap' = (edgeCap \/ ~IntAsserted)
  /\ owed' = IF pc = "initClear" \/ AlreadyRead(p) THEN owed ELSE owed \union {p}
  /\ deaf' = (deaf \/ Deafens(p))
  /\ UNCHANGED <<nClock, reg00, irqMask, main, handler, disturbed>>

ClockChange(p) ==
  /\ nClock < MaxClock
  /\ nClock' = nClock + 1
  /\ p \in cable
  /\ clock' = IF p \in clock THEN clock \ {p} ELSE clock \union {p}
  /\ UNCHANGED <<cable, status, nCable, reg00, pio, main, handler, history>>

-----------------------------------------------------------------------------
(***************************************************************************)
(* The main loop.  It runs when no handler does and none is due.           *)
(***************************************************************************)
At(label) == pc = label /\ isr = "idle" /\ ~(edgeCap /\ irqMask)

Goto(label) == pc' = label /\ torn' = FALSE

\* What a read of the main loop gives it, and if a write reaches the chip.
ReadOf(actual, any) == IF torn THEN any ELSE {actual}
Reaches == IF torn THEN BOOLEAN ELSE {TRUE}

WriteReg00(sel, meas) ==
  \E reaches \in Reaches :
    reg00' = IF reaches THEN [sel |-> sel, meas |-> meas] ELSE reg00

\* hdmi_interrupt_init: clear the capture flag, then, with the handler
\* registered, unmask the interrupt.
InterruptInitClear ==
  /\ At("initClear") /\ Goto("initUnmask")
  /\ edgeCap' = FALSE
  /\ UNCHANGED <<chip, reg00, irqMask, handler, history, port, clkDetected,
                 stateChanged, portSel, prePortSel, value8, tries>>

\* Mutant: the interrupt is never unmasked.
InterruptInitMasked ==
  /\ At("initUnmask") /\ Goto("scan")
  /\ UNCHANGED <<chip, reg00, pio, handler, history, port, clkDetected,
                 stateChanged, portSel, prePortSel, value8, tries>>

InterruptInitUnmask ==
  /\ At("initUnmask") /\ Goto("scan")
  /\ irqMask' = TRUE
  /\ UNCHANGED <<chip, reg00, edgeCap, handler, history, port, clkDetected,
                 stateChanged, portSel, prePortSel, value8, tries>>

\* Mutant: port B decides alone if the state has changed.
ScanLast ==
  /\ At("scan")
  /\ \E detected \in ReadOf(port \in clock, BOOLEAN) :
       /\ clkDetected' = IF detected THEN clkDetected \union {port}
                                     ELSE clkDetected \ {port}
       /\ stateChanged' = (detected # (port \in clkDetected))
  /\ \/ port = A /\ port' = B /\ Goto("scan")
     \/ port = B /\ port' = B /\ Goto("choose")
  /\ UNCHANGED <<chip, reg00, pio, handler, history, portSel, prePortSel, value8, tries>>

\* One turn of the for loop: IsTmdsClockDetected(port).  What IsPortDetected
\* returns is printed only.
Scan ==
  /\ At("scan")
  /\ \E detected \in ReadOf(port \in clock, BOOLEAN) :
       /\ clkDetected' = IF detected THEN clkDetected \union {port}
                                     ELSE clkDetected \ {port}
       /\ stateChanged' = (stateChanged \/ detected # (port \in clkDetected))
  /\ \/ port = A /\ port' = B /\ Goto("scan")
     \/ port = B /\ port' = B /\ Goto("choose")
  /\ UNCHANGED <<chip, reg00, pio, handler, history, portSel, prePortSel, value8, tries>>

PortWithClock(clks) == IF A \in clks THEN A ELSE IF B \in clks THEN B ELSE None

\* The two ifs of main.c:356 and 367, and the assignment of main.c:376.
Choose ==
  /\ At("choose")
  /\ LET chosen == PortWithClock(clkDetected) IN
       IF stateChanged
       THEN /\ portSel' = chosen
            /\ IF chosen \notin {prePortSel, None}
               THEN /\ Goto("setPort")
                    /\ port' = chosen
                    /\ disturbed' = FALSE
                    /\ UNCHANGED prePortSel
               ELSE /\ Goto("sleep")
                    /\ prePortSel' = chosen
                    /\ UNCHANGED <<port, disturbed>>
       ELSE Goto("sleep") /\ UNCHANGED <<port, portSel, prePortSel, disturbed>>
  /\ UNCHANGED <<chip, reg00, pio, handler, owed, deaf, clkDetected, stateChanged,
                 value8, tries>>

SetPort ==
  /\ At("setPort") /\ Goto("measRead")
  /\ WriteReg00(portSel, A)
  /\ UNCHANGED <<chip, pio, handler, history, port, clkDetected, stateChanged,
                 portSel, prePortSel, value8, tries>>

\* Mutant: the loop clears the statuses of the cables itself.
SleepClears ==
  /\ At("sleep") /\ Goto("scan")
  /\ port' = A
  /\ stateChanged' = FALSE
  /\ status' = {}
  /\ UNCHANGED <<cable, clock, nCable, nClock, reg00, pio, handler, history, clkDetected,
                 portSel, prePortSel, value8, tries>>

Sleep ==
  /\ At("sleep") /\ Goto("scan")
  /\ port' = A
  /\ stateChanged' = FALSE
  /\ UNCHANGED <<chip, reg00, pio, handler, history, clkDetected, portSel, prePortSel,
                 value8, tries>>

-----------------------------------------------------------------------------
(***************************************************************************)
(* Meaurement(port): make port the background port by a read-modify-write  *)
(* of reg00, request the measurement, poll twice, read and print.          *)
(***************************************************************************)
MeasureRead ==
  /\ At("measRead") /\ Goto("measWrite")
  /\ value8' \in ReadOf(reg00.sel, Select)
  /\ UNCHANGED <<chip, reg00, pio, handler, history, port, clkDetected, stateChanged,
                 portSel, prePortSel, tries>>

\* Mutant: the port selected is not written back.
MeasureWriteAlone ==
  /\ At("measWrite") /\ Goto("measRequest")
  /\ WriteReg00(A, port)
  /\ UNCHANGED <<chip, pio, handler, history, port, clkDetected, stateChanged, portSel,
                 prePortSel, value8, tries>>

MeasureWrite ==
  /\ At("measWrite") /\ Goto("measRequest")
  /\ WriteReg00(value8, port)
  /\ UNCHANGED <<chip, pio, handler, history, port, clkDetected, stateChanged, portSel,
                 prePortSel, value8, tries>>

\* BG_MEAS_REQ, a read-modify-write of a register nobody else writes.
MeasureRequest ==
  /\ At("measRequest") /\ Goto("pollDone")
  /\ tries' = 0
  /\ UNCHANGED <<chip, reg00, pio, handler, history, port, clkDetected, stateChanged,
                 portSel, prePortSel, value8>>

\* main.c:376, after Meaurement returned.
MeasureReturns == Goto("sleep") /\ prePortSel' = portSel

\* BG_MEAS_DONE_RAW, then BG_PARAM_LOCK: either bit may come at any try or never.
Poll ==
  /\ \/ At("pollDone") \/ At("pollLock")
  /\ \/ /\ pc = "pollDone"                        \* the bit was set
        /\ Goto("pollLock") /\ tries' = 0
        /\ UNCHANGED prePortSel
     \/ /\ pc = "pollLock"
        /\ MeasureReturns /\ tries' = 0
     \/ /\ tries + 1 < MaxPoll                    \* not set, and again
        /\ Goto(pc) /\ tries' = tries + 1
        /\ UNCHANGED prePortSel
     \/ /\ tries + 1 = MaxPoll                    \* "measure failed"
        /\ MeasureReturns /\ tries' = 0
  /\ UNCHANGED <<chip, reg00, pio, handler, history, port, clkDetected, stateChanged,
                 portSel, value8>>

-----------------------------------------------------------------------------
(***************************************************************************)
(* hdmi_isr.  The main loop stands still from entry to return.             *)
(***************************************************************************)
HandlerEnter ==
  /\ isr = "idle" /\ edgeCap /\ irqMask
  /\ isr' = "readB"
  /\ torn' = TRUE
  /\ disturbed' = TRUE
  /\ UNCHANGED <<chip, reg00, pio, portNumber, owed, deaf, pc, port, clkDetected,
                 stateChanged, portSel, prePortSel, value8, tries>>

\* hdmi_port_detect_st_raw: a cable at port A overrules one at port B.
HandlerReadB ==
  /\ isr = "readB" /\ isr' = "readA"
  /\ portNumber' = IF B \in cable THEN B ELSE None
  /\ owed' = owed \ {B}
  /\ UNCHANGED <<chip, reg00, pio, main, deaf, disturbed>>

HandlerReadA ==
  /\ isr = "readA" /\ isr' = "enable"
  /\ portNumber' = IF A \in cable THEN A ELSE portNumber
  /\ owed' = owed \ {A}
  /\ UNCHANGED <<chip, reg00, pio, main, deaf, disturbed>>

\* hdmi_port_enable writes the whole register, port A when there is no cable.
HandlerEnable ==
  /\ isr = "enable" /\ isr' = "clearA"
  /\ reg00' = [sel |-> IF portNumber = B THEN B ELSE A, meas |-> A]
  /\ UNCHANGED <<chip, pio, main, portNumber, history>>

\* hdmi_port_detect_st_cl.
HandlerClear(p, from, to) ==
  /\ isr = from /\ isr' = to
  /\ status' = status \ {p}
  /\ UNCHANGED <<cable, clock, nCable, nClock, reg00, pio, main, portNumber, history>>

\* Mutant: the status of one port is cleared, twice.
HandlerClearAOfB == HandlerClear(B, "clearA", "clearB")
HandlerClearBOfA == HandlerClear(A, "clearB", "ack")

HandlerClearA == HandlerClear(A, "clearA", "clearB")
HandlerClearB == HandlerClear(B, "clearB", "ack")

\* Any write to EDGE_CAP clears it, an edge captured a moment ago included.
HandlerAck ==
  /\ isr = "ack" /\ isr' = "idle"
  /\ edgeCap' = FALSE
  /\ portNumber' = None
  /\ UNCHANGED <<chip, reg00, irqMask, main, history>>

-----------------------------------------------------------------------------
MainLoop ==
  \/ InterruptInitClear \/ InterruptInitUnmask
  \/ Scan \/ Choose \/ SetPort \/ Sleep
  \/ MeasureRead \/ MeasureWrite \/ MeasureRequest \/ Poll

Handler ==
  \/ HandlerEnter \/ HandlerReadB \/ HandlerReadA \/ HandlerEnable
  \/ HandlerClearA \/ HandlerClearB \/ HandlerAck

Chip == \E p \in Port : CableChange(p) \/ ClockChange(p)

Next == MainLoop \/ Handler \/ Chip

Spec == Init /\ [][Next]_vars

\* The processor takes its next instruction, in the loop or in the handler.
FairSpec == Spec /\ WF_vars(MainLoop) /\ WF_vars(Handler)

-----------------------------------------------------------------------------
(***************************************************************************)
(* Properties.                                                             *)
(***************************************************************************)

Label == {"initClear", "initUnmask", "scan", "choose", "setPort", "measRead",
          "measWrite", "measRequest", "pollDone", "pollLock", "sleep"}
HandlerLabel == {"idle", "readB", "readA", "enable", "clearA", "clearB", "ack"}

\* A port is chosen and not yet measured.
Setting ==
  pc \in {"setPort", "measRead", "measWrite", "measRequest", "pollDone", "pollLock"}

ChipTypeOK ==
  /\ cable \subseteq Port /\ clock \subseteq cable /\ status \subseteq Port
  /\ reg00 \in [sel : Select, meas : Port]
  /\ nCable \in Nat /\ nCable <= MaxCable /\ nClock \in Nat /\ nClock <= MaxClock

LoopTypeOK ==
  /\ pc \in Label /\ port \in Port
  /\ clkDetected \subseteq Port /\ stateChanged \in BOOLEAN
  /\ portSel \in Port \union {None} /\ prePortSel \in Port \union {None}
  /\ Setting => portSel = port
  /\ value8 \in Select /\ tries \in Nat /\ tries < MaxPoll /\ torn \in BOOLEAN

HandlerTypeOK ==
  /\ edgeCap \in BOOLEAN /\ irqMask \in BOOLEAN
  /\ isr \in HandlerLabel /\ portNumber \in Port \union {None}
  /\ owed \subseteq Port /\ deaf \in BOOLEAN /\ disturbed \in BOOLEAN

\* Every variable keeps its type, and the interrupt is masked exactly until
\* hdmi_interrupt_init has returned.
TypeOK ==
  /\ ChipTypeOK /\ LoopTypeOK /\ HandlerTypeOK
  /\ irqMask <=> pc \notin {"initClear", "initUnmask"}

\* A cable change that the handler has neither read nor could have read has an
\* interrupt pending, unless INT went unheard before: clearing the statuses and
\* the edge in the order of HDMI_RX.c:182-185 loses no other change.
OwedIsPending == irqMask /\ owed # {} => edgeCap \/ deaf

\* INT is left asserted with no edge captured, so that it can never fall again,
\* only when a change came in the windows that Deafens names.
NeverDeafOtherwise ==
  irqMask /\ isr = "idle" /\ IntAsserted => edgeCap \/ deaf

DeafForever == deaf /\ irqMask /\ isr = "idle" /\ ~edgeCap

\* Once a change was lost in such a window no later change runs the handler.
DeafForGood ==
  [][DeafForever => DeafForever']_vars

\* If the handler has not run since the main loop chose a port, then between
\* two turns of the loop the chip receives from that port and measures it.
LoopOwnsPort ==
  pc \in {"sleep", "scan"} /\ ~disturbed /\ prePortSel # None
    => reg00 = [sel |-> prePortSel, meas |-> prePortSel]

\* When cables and clocks have settled, the loop settles on the port with a
\* clock: reads torn by the handler are made good by later turns of the loop.
LoopTracksClock ==
  <>[](pc = "sleep" => clkDetected = clock /\ prePortSel = PortWithClock(clock))

\* Stated by main.c:144-145: Meaurement sets the background port, bits 5:3.
\* It leaves the selected port, bits 2:0, as it is.
MeasurementKeepsPort ==
  [][pc = "measWrite" /\ pc' = "measRequest" => reg00'.sel = reg00.sel]_vars

\* Stated by main.c:357 and 369 ("Set active RX port"): once everything has
\* settled, the chip receives from a port with a clock, if there is one.
ActivePortHasClock ==
  <>[](pc = "sleep" /\ isr = "idle" /\ clock # {} => reg00.sel \in clock)
=============================================================================
