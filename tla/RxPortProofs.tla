---------------------------- MODULE RxPortProofs ----------------------------
(***************************************************************************)
(* Proofs about RxPort, for every value of its bounds.                     *)
(***************************************************************************)
EXTENDS RxPort, TLAPS

USE DEF A, B, Port, None, Reserved, Select

\* The loop, the handler and the chip keep the type of every variable, and the
\* interrupt is unmasked by the last step of hdmi_interrupt_init for good.
THEOREM TypeCorrect == Spec => []TypeOK
<1>1. Init => TypeOK
  <2>. SUFFICES ASSUME Init PROVE TypeOK
    OBVIOUS
  <2>1. ChipTypeOK
    BY BoundAssumption DEF Init, ChipTypeOK
  <2>2. LoopTypeOK
    <3>1. pc \in Label
      BY DEF Init, Label
    <3>2. clkDetected \subseteq Port
      BY DEF Init
    <3>3. tries \in Nat /\ tries < MaxPoll
      BY BoundAssumption DEF Init
    <3>4. portSel \in Port \union {None} /\ prePortSel \in Port \union {None}
      BY DEF Init
    <3>5. stateChanged \in BOOLEAN /\ torn \in BOOLEAN /\ value8 \in Select /\ port \in Port
      BY DEF Init
    <3>6. ~Setting
      BY DEF Init, Setting
    <3>7. QED BY <3>1, <3>2, <3>3, <3>4, <3>5, <3>6 DEF LoopTypeOK
  <2>3. HandlerTypeOK
    BY DEF Init, HandlerTypeOK, HandlerLabel
  <2>4. QED BY <2>1, <2>2, <2>3 DEF Init, TypeOK
<1>2. TypeOK /\ [Next]_vars => TypeOK'
  <2>. SUFFICES ASSUME TypeOK, [Next]_vars PROVE TypeOK'
    OBVIOUS
  <2>. USE DEF TypeOK
  <2>1. ASSUME UNCHANGED <<chip, reg00>> PROVE ChipTypeOK'
    BY <2>1 DEF ChipTypeOK, chip
  <2>2. ASSUME UNCHANGED main PROVE LoopTypeOK'
    BY <2>2 DEF LoopTypeOK, Setting, main
  <2>3. ASSUME UNCHANGED <<pio, handler, history>> PROVE HandlerTypeOK'
    BY <2>3 DEF HandlerTypeOK, pio, handler, history
  <2>4. ASSUME NEW sel \in Select, NEW meas \in Port, WriteReg00(sel, meas), UNCHANGED chip
        PROVE  ChipTypeOK'
    BY <2>4 DEF WriteReg00, ChipTypeOK, chip
  <2>5. CASE InterruptInitClear
    <3>1. ChipTypeOK'
      BY <2>5, <2>1 DEF InterruptInitClear
    <3>2. LoopTypeOK'
      BY <2>5, BoundAssumption DEF InterruptInitClear, At, Goto, LoopTypeOK, Label, Setting
    <3>3. HandlerTypeOK'
      BY <2>5 DEF InterruptInitClear, HandlerTypeOK, pio, handler, history
    <3>4. (irqMask <=> pc \notin {"initClear", "initUnmask"})'
      BY <2>5 DEF InterruptInitClear, At, Goto, pio
    <3>5. QED BY <3>1, <3>2, <3>3, <3>4
  <2>6. CASE InterruptInitUnmask
    <3>1. ChipTypeOK'
      BY <2>6, <2>1 DEF InterruptInitUnmask
    <3>2. LoopTypeOK'
      BY <2>6, BoundAssumption DEF InterruptInitUnmask, At, Goto, LoopTypeOK, Label, Setting
    <3>3. HandlerTypeOK'
      BY <2>6 DEF InterruptInitUnmask, HandlerTypeOK, pio, handler, history
    <3>4. (irqMask <=> pc \notin {"initClear", "initUnmask"})'
      BY <2>6 DEF InterruptInitUnmask, At, Goto, pio
    <3>5. QED BY <3>1, <3>2, <3>3, <3>4
  <2>7. CASE Scan
    <3>1. ChipTypeOK'
      BY <2>7, <2>1 DEF Scan
    <3>2. LoopTypeOK'
      <4>1. clkDetected' \subseteq Port /\ stateChanged' \in BOOLEAN
        BY <2>7 DEF Scan, ReadOf, LoopTypeOK
      <4>2. pc' \in Label /\ port' \in Port /\ torn' \in BOOLEAN /\ ~Setting'
        BY <2>7 DEF Scan, Goto, Label, Setting
      <4>3. UNCHANGED <<portSel, prePortSel, value8, tries>>
        BY <2>7 DEF Scan
      <4>4. QED BY <4>1, <4>2, <4>3 DEF LoopTypeOK
    <3>3. HandlerTypeOK'
      BY <2>7, <2>3 DEF Scan
    <3>4. (irqMask <=> pc \notin {"initClear", "initUnmask"})'
      BY <2>7 DEF Scan, At, Goto, pio
    <3>5. QED BY <3>1, <3>2, <3>3, <3>4
  <2>8. CASE Choose
    <3>1. ChipTypeOK'
      BY <2>8, <2>1 DEF Choose
    <3>2. LoopTypeOK'
      <4>1. PortWithClock(clkDetected) \in Port \union {None}
        BY DEF PortWithClock
      <4>2. CASE Goto("setPort")
        <5>1. portSel' \in Port /\ port' = portSel' /\ UNCHANGED prePortSel
          BY <2>8, <4>1, <4>2 DEF Choose, Goto
        <5>2. pc' \in Label /\ torn' \in BOOLEAN
          BY <4>2 DEF Goto, Label
        <5>3. UNCHANGED <<clkDetected, stateChanged, value8, tries>>
          BY <2>8 DEF Choose
        <5>4. QED BY <5>1, <5>2, <5>3 DEF LoopTypeOK
      <4>3. CASE Goto("sleep")
        <5>1. /\ portSel' \in Port \union {None} /\ prePortSel' \in Port \union {None}
              /\ UNCHANGED port
          BY <2>8, <4>1, <4>3 DEF Choose, Goto, LoopTypeOK
        <5>2. pc' \in Label /\ torn' \in BOOLEAN /\ ~Setting'
          BY <4>3 DEF Goto, Label, Setting
        <5>3. UNCHANGED <<clkDetected, stateChanged, value8, tries>>
          BY <2>8 DEF Choose
        <5>4. QED BY <5>1, <5>2, <5>3 DEF LoopTypeOK
      <4>4. QED BY <2>8, <4>2, <4>3 DEF Choose
    <3>3. HandlerTypeOK'
      BY <2>8 DEF Choose, HandlerTypeOK, pio, handler, history
    <3>4. (irqMask <=> pc \notin {"initClear", "initUnmask"})'
      BY <2>8 DEF Choose, At, Goto, pio
    <3>5. QED BY <3>1, <3>2, <3>3, <3>4
  <2>9. CASE SetPort
    <3>1. ChipTypeOK'
      BY <2>9, <2>4 DEF SetPort, At, Setting, LoopTypeOK
    <3>2. LoopTypeOK'
      BY <2>9, BoundAssumption DEF SetPort, At, Goto, LoopTypeOK, Label, Setting
    <3>3. HandlerTypeOK'
      BY <2>9, <2>3 DEF SetPort
    <3>4. (irqMask <=> pc \notin {"initClear", "initUnmask"})'
      BY <2>9 DEF SetPort, At, Goto, pio
    <3>5. QED BY <3>1, <3>2, <3>3, <3>4
  <2>10. CASE Sleep
    <3>1. ChipTypeOK'
      BY <2>10, <2>1 DEF Sleep
    <3>2. LoopTypeOK'
      BY <2>10, BoundAssumption DEF Sleep, At, Goto, LoopTypeOK, Label, Setting
    <3>3. HandlerTypeOK'
      BY <2>10, <2>3 DEF Sleep
    <3>4. (irqMask <=> pc \notin {"initClear", "initUnmask"})'
      BY <2>10 DEF Sleep, At, Goto, pio
    <3>5. QED BY <3>1, <3>2, <3>3, <3>4
  <2>11. CASE MeasureRead
    <3>1. ChipTypeOK'
      BY <2>11, <2>1 DEF MeasureRead
    <3>2. LoopTypeOK'
      <4>1. value8' \in Select
        BY <2>11 DEF MeasureRead, ReadOf, ChipTypeOK
      <4>2. pc' \in Label /\ torn' \in BOOLEAN /\ Setting
        BY <2>11 DEF MeasureRead, At, Goto, Label, Setting
      <4>3. UNCHANGED <<port, clkDetected, stateChanged, portSel, prePortSel, tries>>
        BY <2>11 DEF MeasureRead
      <4>4. QED BY <4>1, <4>2, <4>3 DEF LoopTypeOK
    <3>3. HandlerTypeOK'
      BY <2>11, <2>3 DEF MeasureRead
    <3>4. (irqMask <=> pc \notin {"initClear", "initUnmask"})'
      BY <2>11 DEF MeasureRead, At, Goto, pio
    <3>5. QED BY <3>1, <3>2, <3>3, <3>4
  <2>12. CASE MeasureWrite
    <3>1. ChipTypeOK'
      BY <2>12, <2>4 DEF MeasureWrite, LoopTypeOK
    <3>2. LoopTypeOK'
      BY <2>12, BoundAssumption DEF MeasureWrite, At, Goto, LoopTypeOK, Label, Setting
    <3>3. HandlerTypeOK'
      BY <2>12, <2>3 DEF MeasureWrite
    <3>4. (irqMask <=> pc \notin {"initClear", "initUnmask"})'
      BY <2>12 DEF MeasureWrite, At, Goto, pio
    <3>5. QED BY <3>1, <3>2, <3>3, <3>4
  <2>13. CASE MeasureRequest
    <3>1. ChipTypeOK'
      BY <2>13, <2>1 DEF MeasureRequest
    <3>2. LoopTypeOK'
      <4>1. tries' \in Nat /\ tries' < MaxPoll
        BY <2>13, BoundAssumption DEF MeasureRequest
      <4>2. pc' \in Label /\ torn' \in BOOLEAN /\ Setting
        BY <2>13 DEF MeasureRequest, At, Goto, Label, Setting
      <4>3. UNCHANGED <<port, clkDetected, stateChanged, portSel, prePortSel, value8>>
        BY <2>13 DEF MeasureRequest
      <4>4. QED BY <4>1, <4>2, <4>3 DEF LoopTypeOK
    <3>3. HandlerTypeOK'
      BY <2>13, <2>3 DEF MeasureRequest
    <3>4. (irqMask <=> pc \notin {"initClear", "initUnmask"})'
      BY <2>13 DEF MeasureRequest, At, Goto, pio
    <3>5. QED BY <3>1, <3>2, <3>3, <3>4
  <2>14. CASE Poll
    <3>1. ChipTypeOK'
      BY <2>14, <2>1 DEF Poll
    <3>2. LoopTypeOK'
      <4>1. tries' \in Nat /\ tries' < MaxPoll
        BY <2>14, BoundAssumption DEF Poll, LoopTypeOK
      <4>2. pc' \in Label /\ torn' \in BOOLEAN /\ Setting
        BY <2>14 DEF Poll, MeasureReturns, At, Goto, Label, Setting
      <4>3. prePortSel' \in {prePortSel, portSel}
        BY <2>14 DEF Poll, MeasureReturns
      <4>4. UNCHANGED <<port, clkDetected, stateChanged, portSel, value8>>
        BY <2>14 DEF Poll
      <4>5. QED BY <4>1, <4>2, <4>3, <4>4 DEF LoopTypeOK
    <3>3. HandlerTypeOK'
      BY <2>14, <2>3 DEF Poll
    <3>4. (irqMask <=> pc \notin {"initClear", "initUnmask"})'
      BY <2>14 DEF Poll, At, Goto, MeasureReturns, pio
    <3>5. QED BY <3>1, <3>2, <3>3, <3>4
  <2>15. CASE HandlerEnter
    <3>1. ChipTypeOK'
      BY <2>15, <2>1 DEF HandlerEnter
    <3>2. LoopTypeOK'
      BY <2>15 DEF HandlerEnter, LoopTypeOK, Setting
    <3>3. HandlerTypeOK'
      BY <2>15 DEF HandlerEnter, HandlerTypeOK, HandlerLabel, pio, history
    <3>4. (irqMask <=> pc \notin {"initClear", "initUnmask"})'
      BY <2>15 DEF HandlerEnter, pio, main
    <3>5. QED BY <3>1, <3>2, <3>3, <3>4
  <2>16. CASE HandlerReadB
    <3>1. ChipTypeOK'
      BY <2>16, <2>1 DEF HandlerReadB
    <3>2. LoopTypeOK'
      BY <2>16, <2>2 DEF HandlerReadB
    <3>3. HandlerTypeOK'
      BY <2>16 DEF HandlerReadB, HandlerTypeOK, HandlerLabel, pio, history
    <3>4. (irqMask <=> pc \notin {"initClear", "initUnmask"})'
      BY <2>16 DEF HandlerReadB, pio, main
    <3>5. QED BY <3>1, <3>2, <3>3, <3>4
  <2>17. CASE HandlerReadA
    <3>1. ChipTypeOK'
      BY <2>17, <2>1 DEF HandlerReadA
    <3>2. LoopTypeOK'
      BY <2>17, <2>2 DEF HandlerReadA
    <3>3. HandlerTypeOK'
      BY <2>17 DEF HandlerReadA, HandlerTypeOK, HandlerLabel, pio, history
    <3>4. (irqMask <=> pc \notin {"initClear", "initUnmask"})'
      BY <2>17 DEF HandlerReadA, pio, main
    <3>5. QED BY <3>1, <3>2, <3>3, <3>4
  <2>18. CASE HandlerEnable
    <3>1. ChipTypeOK'
      BY <2>18 DEF HandlerEnable, ChipTypeOK, chip
    <3>2. LoopTypeOK'
      BY <2>18, <2>2 DEF HandlerEnable
    <3>3. HandlerTypeOK'
      BY <2>18 DEF HandlerEnable, HandlerTypeOK, HandlerLabel, pio, history
    <3>4. (irqMask <=> pc \notin {"initClear", "initUnmask"})'
      BY <2>18 DEF HandlerEnable, pio, main
    <3>5. QED BY <3>1, <3>2, <3>3, <3>4
  <2>19. CASE HandlerClearA
    <3>1. ChipTypeOK'
      BY <2>19 DEF HandlerClearA, HandlerClear, ChipTypeOK, chip
    <3>2. LoopTypeOK'
      BY <2>19, <2>2 DEF HandlerClearA, HandlerClear
    <3>3. HandlerTypeOK'
      BY <2>19 DEF HandlerClearA, HandlerClear, HandlerTypeOK, HandlerLabel, pio, history
    <3>4. (irqMask <=> pc \notin {"initClear", "initUnmask"})'
      BY <2>19 DEF HandlerClearA, HandlerClear, pio, main
    <3>5. QED BY <3>1, <3>2, <3>3, <3>4
  <2>20. CASE HandlerClearB
    <3>1. ChipTypeOK'
      BY <2>20 DEF HandlerClearB, HandlerClear, ChipTypeOK, chip
    <3>2. LoopTypeOK'
      BY <2>20, <2>2 DEF HandlerClearB, HandlerClear
    <3>3. HandlerTypeOK'
      BY <2>20 DEF HandlerClearB, HandlerClear, HandlerTypeOK, HandlerLabel, pio, history
    <3>4. (irqMask <=> pc \notin {"initClear", "initUnmask"})'
      BY <2>20 DEF HandlerClearB, HandlerClear, pio, main
    <3>5. QED BY <3>1, <3>2, <3>3, <3>4
  <2>21. CASE HandlerAck
    <3>1. ChipTypeOK'
      BY <2>21, <2>1 DEF HandlerAck
    <3>2. LoopTypeOK'
      BY <2>21, <2>2 DEF HandlerAck
    <3>3. HandlerTypeOK'
      BY <2>21 DEF HandlerAck, HandlerTypeOK, HandlerLabel, pio, history
    <3>4. (irqMask <=> pc \notin {"initClear", "initUnmask"})'
      BY <2>21 DEF HandlerAck, pio, main
    <3>5. QED BY <3>1, <3>2, <3>3, <3>4
  <2>22. ASSUME NEW p \in Port, CableChange(p) PROVE TypeOK'
    <3>1. ChipTypeOK'
      BY <2>22, BoundAssumption DEF CableChange, ChipTypeOK
    <3>2. LoopTypeOK'
      BY <2>22, <2>2 DEF CableChange
    <3>3. HandlerTypeOK'
      BY <2>22 DEF CableChange, HandlerTypeOK, handler
    <3>4. (irqMask <=> pc \notin {"initClear", "initUnmask"})'
      BY <2>22 DEF CableChange, pio, main
    <3>5. QED BY <3>1, <3>2, <3>3, <3>4
  <2>23. ASSUME NEW p \in Port, ClockChange(p) PROVE TypeOK'
    <3>1. ChipTypeOK'
      BY <2>23, BoundAssumption DEF ClockChange, ChipTypeOK
    <3>2. LoopTypeOK'
      BY <2>23, <2>2 DEF ClockChange
    <3>3. HandlerTypeOK'
      BY <2>23, <2>3 DEF ClockChange
    <3>4. (irqMask <=> pc \notin {"initClear", "initUnmask"})'
      BY <2>23 DEF ClockChange, pio, main
    <3>5. QED BY <3>1, <3>2, <3>3, <3>4
  <2>24. CASE UNCHANGED vars
    <3>1. UNCHANGED <<chip, reg00, pio, main, handler, history>>
      BY <2>24 DEF vars
    <3>2. (irqMask <=> pc \notin {"initClear", "initUnmask"})'
      BY <3>1 DEF pio, main
    <3>3. QED BY <2>1, <2>2, <2>3, <3>1, <3>2
  <2>25. QED
    BY <2>5, <2>6, <2>7, <2>8, <2>9, <2>10, <2>11, <2>12, <2>13, <2>14, <2>15, <2>16, <2>17, <2>18, <2>19, <2>20, <2>21, <2>22, <2>23, <2>24
       DEF Next, MainLoop, Handler, Chip
<1>3. QED
  BY <1>1, <1>2, PTL DEF Spec

-----------------------------------------------------------------------------
(***************************************************************************)
(* The interrupt.  EdgeInv says where the status bits and the captured     *)
(* edge can stand while the handler runs: it keeps the edge to its last    *)
(* step, it has emptied status by then unless a change slipped in behind   *)
(* it (deaf), and after a change was lost no edge is ever captured again.  *)
(***************************************************************************)
Running == isr # "idle" => edgeCap /\ irqMask

NotDeaf ==
  ~deaf => /\ isr = "idle" /\ IntAsserted => edgeCap
           /\ isr = "clearB" => A \notin status
           /\ isr = "ack" => ~IntAsserted
           /\ pc = "initClear" => ~IntAsserted

Deaf ==
  deaf => /\ IntAsserted
          /\ \/ pc = "initClear"
             \/ isr = "clearB" /\ A \in status
             \/ isr = "ack"
             \/ isr = "idle" /\ ~edgeCap

Owing ==
  /\ owed # {} => edgeCap \/ deaf
  /\ pc = "initClear" => owed = {}
  /\ isr = "readA" => B \notin owed
  /\ isr \in {"enable", "clearA", "clearB", "ack"} => owed = {}

EdgeInv == Running /\ NotDeaf /\ Deaf /\ Owing

LEMMA LoopKeepsEdgeInv ==
  ASSUME TypeOK, EdgeInv, MainLoop
  PROVE  EdgeInv'
<1>1. isr = "idle" /\ ~(edgeCap /\ irqMask)
  BY DEF MainLoop, InterruptInitClear, InterruptInitUnmask, Scan, Choose, SetPort, Sleep,
         MeasureRead, MeasureWrite, MeasureRequest, Poll, At
<1>2. UNCHANGED <<chip, handler, owed, deaf>>
  BY DEF MainLoop, InterruptInitClear, InterruptInitUnmask, Scan, Choose, SetPort, Sleep,
         MeasureRead, MeasureWrite, MeasureRequest, Poll, history
<1>3. CASE InterruptInitClear
  <2>1. edgeCap' = FALSE /\ pc = "initClear" /\ pc' = "initUnmask"
    BY <1>3 DEF InterruptInitClear, At, Goto
  <2>2. QED
    BY <1>1, <1>2, <2>1 DEF EdgeInv, Running, NotDeaf, Deaf, Owing, IntAsserted, chip, handler
<1>4. CASE ~InterruptInitClear
  <2>1. edgeCap' = edgeCap /\ pc # "initClear" /\ pc' # "initClear"
    BY <1>4 DEF MainLoop, InterruptInitUnmask, Scan, Choose, SetPort, Sleep, MeasureRead,
                MeasureWrite, MeasureRequest, Poll, MeasureReturns, At, Goto, pio
  <2>2. QED
    BY <1>1, <1>2, <2>1 DEF EdgeInv, Running, NotDeaf, Deaf, Owing, IntAsserted, chip, handler
<1>5. QED BY <1>3, <1>4

LEMMA HandlerKeepsEdgeInv ==
  ASSUME TypeOK, EdgeInv, Handler
  PROVE  EdgeInv'
<1>. USE DEF EdgeInv, Running, NotDeaf, Deaf, Owing, IntAsserted
<1>0. pc = "initClear" => ~irqMask
  BY DEF TypeOK
<1>1. CASE HandlerEnter
  BY <1>0, <1>1 DEF HandlerEnter, chip, pio
<1>2. CASE HandlerReadB
  BY <1>0, <1>2 DEF HandlerReadB, chip, pio, main
<1>3. CASE HandlerReadA
  <2>1. isr = "readA" /\ isr' = "enable" /\ owed' = owed \ {A}
    BY <1>3 DEF HandlerReadA
  <2>2. UNCHANGED <<chip, pio, main, deaf>>
    BY <1>3 DEF HandlerReadA
  <2>3. owed \subseteq {A, B}
    BY DEF TypeOK, HandlerTypeOK
  <2>4. QED BY <1>0, <2>1, <2>2, <2>3 DEF chip, pio, main
<1>4. CASE HandlerEnable
  BY <1>0, <1>4 DEF HandlerEnable, chip, pio, main, history
<1>5. CASE HandlerClearA
  BY <1>0, <1>5 DEF HandlerClearA, HandlerClear, pio, main, history
<1>6. CASE HandlerClearB
  <2>1. isr = "clearB" /\ isr' = "ack" /\ status' = status \ {B}
    BY <1>6 DEF HandlerClearB, HandlerClear
  <2>2. UNCHANGED <<edgeCap, irqMask, pc, owed, deaf>>
    BY <1>6 DEF HandlerClearB, HandlerClear, pio, main, history
  <2>3. A \notin status => status' = {}
    BY <2>1 DEF TypeOK, ChipTypeOK
  <2>4. A \in status => status' # {}
    BY <2>1
  <2>5. Running'
    BY <2>1, <2>2
  <2>6. NotDeaf'
    BY <1>0, <2>1, <2>2, <2>3
  <2>7. Deaf'
    BY <1>0, <2>1, <2>2, <2>4
  <2>8. Owing'
    BY <1>0, <2>1, <2>2
  <2>9. QED BY <2>5, <2>6, <2>7, <2>8
<1>7. CASE HandlerAck
  BY <1>0, <1>7 DEF HandlerAck, chip, main, history
<1>8. QED
  BY <1>1, <1>2, <1>3, <1>4, <1>5, <1>6, <1>7 DEF Handler

LEMMA CableKeepsEdgeInv ==
  ASSUME TypeOK, EdgeInv, NEW p \in Port, CableChange(p)
  PROVE  EdgeInv'
<1>1. status' = status \union {p} /\ edgeCap' = (edgeCap \/ ~IntAsserted)
  BY DEF CableChange
<1>2. UNCHANGED <<isr, pc, irqMask>>
  BY DEF CableChange, main, handler
<1>3. deaf' = (deaf \/ Deafens(p)) /\ deaf \in BOOLEAN /\ edgeCap \in BOOLEAN
  BY DEF CableChange, TypeOK, HandlerTypeOK
<1>4. pc = "initClear" => ~irqMask
  BY DEF TypeOK
<1>5. Running'
  BY <1>1, <1>2, <1>3 DEF EdgeInv, Running
<1>6. NotDeaf'
  BY <1>1, <1>2, <1>3 DEF EdgeInv, NotDeaf, Deafens, IntAsserted
<1>7. Deaf'
  BY <1>1, <1>2, <1>3, <1>4 DEF EdgeInv, Running, Deaf, Deafens, IntAsserted
<1>8. Owing'
  <2>1. CASE pc = "initClear" \/ AlreadyRead(p)
    <3>1. owed' = owed
      BY <2>1 DEF CableChange
    <3>2. QED
      BY <1>1, <1>2, <1>3, <3>1 DEF EdgeInv, Owing
  <2>2. CASE ~(pc = "initClear" \/ AlreadyRead(p))
    <3>1. owed' = owed \union {p}
      BY <2>2 DEF CableChange
    <3>2. edgeCap' \/ deaf'
      BY <1>1, <1>3, <2>2 DEF EdgeInv, Running, NotDeaf, AlreadyRead
    <3>3. QED
      BY <1>2, <2>2, <3>1, <3>2 DEF EdgeInv, Owing, AlreadyRead
  <2>3. QED BY <2>1, <2>2
<1>9. QED BY <1>5, <1>6, <1>7, <1>8 DEF EdgeInv

\* EdgeInv is inductive.
LEMMA EdgeInductive == Spec => []EdgeInv
<1>1. Init => EdgeInv
  BY DEF Init, EdgeInv, Running, NotDeaf, Deaf, Owing, IntAsserted
<1>2. TypeOK /\ EdgeInv /\ [Next]_vars => EdgeInv'
  <2>. SUFFICES ASSUME TypeOK, EdgeInv, [Next]_vars PROVE EdgeInv'
    OBVIOUS
  <2>1. ASSUME UNCHANGED <<status, pio, pc, isr, owed, deaf>> PROVE EdgeInv'
    BY <2>1 DEF EdgeInv, Running, NotDeaf, Deaf, Owing, IntAsserted, pio
  <2>2. ASSUME NEW p \in Port, ClockChange(p) PROVE EdgeInv'
    BY <2>1, <2>2 DEF ClockChange, main, handler, history
  <2>3. CASE UNCHANGED vars
    BY <2>1, <2>3 DEF vars, chip, main, handler, history
  <2>4. QED
    BY <2>2, <2>3, LoopKeepsEdgeInv, HandlerKeepsEdgeInv, CableKeepsEdgeInv DEF Next, Chip
<1>3. QED
  BY <1>1, <1>2, TypeCorrect, PTL DEF Spec

\* A cable change still owed to the handler has its interrupt pending, unless
\* the line went deaf (HDMI_RX.c:182-185).
THEOREM OwedChangesArePending == Spec => []OwedIsPending
<1>1. EdgeInv => OwedIsPending
  BY DEF EdgeInv, Owing, OwedIsPending
<1>2. QED BY <1>1, EdgeInductive, PTL

\* The line goes deaf in the windows of Deafens only.
THEOREM DeafnessHasOneCause == Spec => []NeverDeafOtherwise
<1>1. EdgeInv => NeverDeafOtherwise
  BY DEF EdgeInv, NotDeaf, NeverDeafOtherwise
<1>2. QED BY <1>1, EdgeInductive, PTL

\* A line that went deaf stays deaf: no later change runs the handler.
THEOREM DeafnessIsForGood == Spec => DeafForGood
<1>1. ASSUME EdgeInv, TypeOK, [Next]_vars, DeafForever PROVE DeafForever'
  <2>. USE DEF DeafForever
  <2>1. IntAsserted /\ pc # "initClear"
    BY <1>1 DEF EdgeInv, Deaf, TypeOK
  <2>2. ~Handler
    BY <1>1 DEF Handler, HandlerEnter, HandlerReadB, HandlerReadA, HandlerEnable,
                HandlerClearA, HandlerClearB, HandlerClear, HandlerAck
  <2>3. CASE MainLoop
    <3>1. ~InterruptInitClear /\ ~InterruptInitUnmask
      BY <1>1 DEF InterruptInitClear, InterruptInitUnmask, At, TypeOK
    <3>2. UNCHANGED <<isr, irqMask, edgeCap>>
      BY <2>3, <3>1 DEF MainLoop, Scan, Choose, SetPort, Sleep, MeasureRead, MeasureWrite,
           MeasureRequest, Poll, handler, pio
    <3>3. UNCHANGED deaf
      BY <2>3, <3>1 DEF MainLoop, Scan, Choose, SetPort, Sleep, MeasureRead, MeasureWrite,
           MeasureRequest, Poll, history
    <3>4. QED BY <1>1, <3>2, <3>3
  <2>4. CASE Chip
    <3>1. PICK p \in Port : CableChange(p) \/ ClockChange(p)
      BY <2>4 DEF Chip
    <3>2. CASE CableChange(p)
      <4>1. UNCHANGED <<isr, irqMask>>
        BY <3>2 DEF CableChange, handler
      <4>2. ~edgeCap' /\ deaf'
        BY <1>1, <2>1, <3>2 DEF CableChange
      <4>3. QED BY <1>1, <4>1, <4>2
    <3>3. CASE ClockChange(p)
      BY <1>1, <3>3 DEF ClockChange, handler, pio, history
    <3>4. QED BY <3>1, <3>2, <3>3
  <2>5. CASE UNCHANGED vars
    BY <1>1, <2>5 DEF vars, handler, pio, history
  <2>6. QED BY <1>1, <2>2, <2>3, <2>4, <2>5 DEF Next
<1>2. EdgeInv /\ TypeOK /\ [Next]_vars => [DeafForever => DeafForever']_vars
  BY <1>1
<1>3. QED BY <1>2, EdgeInductive, TypeCorrect, PTL DEF Spec, DeafForGood

-----------------------------------------------------------------------------
(***************************************************************************)
(* The port.  OwnInv follows a choice of the main loop through the writes  *)
(* and the measurement that carry it out, while the handler does not run.  *)
(***************************************************************************)
Receives(p) == reg00 = [sel |-> p, meas |-> p]

Undisturbed == isr = "idle" /\ ~torn

Chosen ==
  /\ pc = "measRead" => reg00.sel = portSel
  /\ pc = "measWrite" => value8 = portSel
  /\ pc \in {"measRequest", "pollDone", "pollLock"} => Receives(portSel)

Chose ==
  /\ pc \in {"initClear", "initUnmask"} => prePortSel = None
  /\ pc \in {"scan", "choose", "sleep"} /\ prePortSel # None => Receives(prePortSel)

OwnInv == ~disturbed => Undisturbed /\ Chosen /\ Chose

LEMMA LoopKeepsOwnInv ==
  ASSUME TypeOK, OwnInv, MainLoop
  PROVE  OwnInv'
<1>. SUFFICES ASSUME ~disturbed' PROVE (Undisturbed /\ Chosen /\ Chose)'
  BY DEF OwnInv
<1>1. Undisturbed'
  BY DEF MainLoop, InterruptInitClear, InterruptInitUnmask, Scan, Choose, SetPort, Sleep,
         MeasureRead, MeasureWrite, MeasureRequest, Poll, MeasureReturns, At, Goto,
         Undisturbed, handler
<1>. SUFFICES (Chosen /\ Chose)'
  BY <1>1
<1>2. ~Choose => UNCHANGED disturbed
  BY DEF MainLoop, InterruptInitClear, InterruptInitUnmask, Scan, SetPort, Sleep,
         MeasureRead, MeasureWrite, MeasureRequest, Poll, history
<1>3. ~Choose => Undisturbed /\ Chosen /\ Chose
  BY <1>2 DEF OwnInv
<1>4. Setting => portSel = port
  BY DEF TypeOK, LoopTypeOK
<1>5. CASE InterruptInitClear
  BY <1>3, <1>5 DEF InterruptInitClear, Choose, At, Goto, Chosen, Chose
<1>6. CASE InterruptInitUnmask
  BY <1>3, <1>6 DEF InterruptInitUnmask, Choose, At, Goto, Chosen, Chose
<1>7. CASE Scan
  <2>1. pc = "scan" /\ pc' \in {"scan", "choose"} /\ UNCHANGED <<reg00, prePortSel>>
    BY <1>7 DEF Scan, At, Goto
  <2>2. QED BY <1>3, <2>1 DEF Choose, At, Chosen, Chose, Receives
<1>8. CASE Choose
  <2>1. pc = "choose" /\ UNCHANGED reg00
    BY <1>8 DEF Choose, At
  <2>2. CASE Goto("setPort")
    BY <2>2 DEF Goto, Chosen, Chose
  <2>3. CASE ~Goto("setPort")
    <3>1. pc' = "sleep" /\ prePortSel' \in {prePortSel, None}
      BY <1>8, <2>3 DEF Choose, Goto
    <3>2. ~disturbed
      BY <1>8, <2>3 DEF Choose
    <3>3. Chose
      BY <3>2 DEF OwnInv
    <3>4. QED BY <2>1, <3>1, <3>3 DEF Chosen, Chose, Receives
  <2>4. QED BY <2>2, <2>3
<1>9. CASE SetPort
  <2>1. pc = "setPort" /\ pc' = "measRead" /\ UNCHANGED portSel
    BY <1>9 DEF SetPort, At, Goto
  <2>2. ~torn
    BY <1>3, <2>1 DEF Choose, At, Undisturbed
  <2>3. reg00'.sel = portSel
    BY <1>9, <2>2 DEF SetPort, WriteReg00, Reaches
  <2>4. QED BY <2>1, <2>3 DEF Chosen, Chose
<1>10. CASE Sleep
  <2>1. pc = "sleep" /\ pc' = "scan" /\ UNCHANGED <<reg00, prePortSel>>
    BY <1>10 DEF Sleep, At, Goto
  <2>2. QED BY <1>3, <2>1 DEF Choose, At, Chosen, Chose, Receives
<1>11. CASE MeasureRead
  <2>1. pc = "measRead" /\ pc' = "measWrite" /\ UNCHANGED portSel
    BY <1>11 DEF MeasureRead, At, Goto
  <2>2. ~torn /\ reg00.sel = portSel
    BY <1>3, <2>1 DEF Choose, At, Undisturbed, Chosen
  <2>3. value8' = portSel
    BY <1>11, <2>2 DEF MeasureRead, ReadOf
  <2>4. QED BY <2>1, <2>3 DEF Chosen, Chose
<1>12. CASE MeasureWrite
  <2>1. pc = "measWrite" /\ pc' = "measRequest" /\ UNCHANGED portSel
    BY <1>12 DEF MeasureWrite, At, Goto
  <2>2. ~torn /\ value8 = portSel /\ port = portSel
    BY <1>3, <1>4, <2>1 DEF Choose, At, Undisturbed, Chosen, Setting
  <2>3. reg00' = [sel |-> portSel, meas |-> portSel]
    BY <1>12, <2>2 DEF MeasureWrite, WriteReg00, Reaches
  <2>4. QED BY <2>1, <2>3 DEF Chosen, Chose, Receives
<1>13. CASE MeasureRequest
  <2>1. /\ pc = "measRequest" /\ pc' = "pollDone"
        /\ UNCHANGED <<reg00, portSel, prePortSel>>
    BY <1>13 DEF MeasureRequest, At, Goto
  <2>2. QED BY <1>3, <2>1 DEF Choose, At, Chosen, Chose, Receives
<1>14. CASE Poll
  <2>1. pc \in {"pollDone", "pollLock"} /\ UNCHANGED <<reg00, portSel>>
    BY <1>14 DEF Poll, At
  <2>2. Receives(portSel)
    BY <1>3, <2>1 DEF Choose, At, Chosen
  <2>3. \/ pc' \in {"pollDone", "pollLock"}
        \/ pc' = "sleep" /\ prePortSel' = portSel
    BY <1>14, <2>1 DEF Poll, MeasureReturns, Goto
  <2>4. QED BY <2>1, <2>2, <2>3 DEF Chosen, Chose, Receives
<1>15. QED
  BY <1>5, <1>6, <1>7, <1>8, <1>9, <1>10, <1>11, <1>12, <1>13, <1>14 DEF MainLoop

\* What main.c:369-376 does to the register is what is found there when the loop
\* has come round, for as long as the handler has not run.
THEOREM ChosenPortStays == Spec => []LoopOwnsPort
<1>1. Init => OwnInv
  BY DEF Init, OwnInv, Undisturbed, Chosen, Chose
<1>2. TypeOK /\ OwnInv /\ [Next]_vars => OwnInv'
  <2>. SUFFICES ASSUME TypeOK, OwnInv, [Next]_vars PROVE OwnInv'
    OBVIOUS
  <2>1. ASSUME UNCHANGED <<reg00, isr, main, disturbed>> PROVE OwnInv'
    BY <2>1 DEF OwnInv, Undisturbed, Chosen, Chose, Receives, main
  <2>2. CASE Handler
    <3>1. CASE HandlerEnter
      BY <3>1 DEF HandlerEnter, OwnInv
    <3>2. CASE ~HandlerEnter
      <4>1. isr # "idle" /\ UNCHANGED disturbed
        BY <2>2, <3>2 DEF Handler, HandlerReadB, HandlerReadA, HandlerEnable, HandlerClearA,
             HandlerClearB, HandlerClear, HandlerAck, history
      <4>2. QED BY <4>1 DEF OwnInv, Undisturbed
    <3>3. QED BY <3>1, <3>2
  <2>3. CASE Chip
    BY <2>1, <2>3 DEF Chip, CableChange, ClockChange, handler, history
  <2>4. CASE UNCHANGED vars
    BY <2>1, <2>4 DEF vars, handler, history
  <2>5. QED BY <2>2, <2>3, <2>4, LoopKeepsOwnInv DEF Next
<1>3. OwnInv => LoopOwnsPort
  BY DEF OwnInv, Chose, Receives, LoopOwnsPort
<1>4. QED BY <1>1, <1>2, <1>3, TypeCorrect, PTL DEF Spec
=============================================================================
