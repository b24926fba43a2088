------------------------- MODULE HdmiTxConfigProofs -------------------------
(***************************************************************************)
(* Proofs about HdmiTxConfig, for every table whose first entry is         *)
(* repeated and for every number of resets, hot plugs and refusals.        *)
(***************************************************************************)
EXTENDS HdmiTxConfig, TLAPS

\* The two machines keep the type of every variable.
THEOREM TypeCorrect == Spec => []TypeOK
<1>1. Init => TypeOK
  <2>. SUFFICES ASSUME Init PROVE TypeOK
    OBVIOUS
  <2>1. lutIndex \in 0 .. LUT_SIZE /\ nEvent \in 0 .. MaxEvent /\ nNack \in 0 .. MaxNack
    BY SizeAssumption DEF Init
  <2>2. setupST \in 0 .. 2 /\ counter \in 0 .. 63
    BY DEF Init
  <2>3. good \subseteq Register
    BY DEF Init
  <2>4. /\ go \in BOOLEAN /\ end \in BOOLEAN /\ ack \in BOOLEAN /\ intLow \in BOOLEAN
        /\ fresh \in BOOLEAN /\ stored \in BOOLEAN /\ missed \in BOOLEAN
    BY DEF Init
  <2>5. QED BY <2>1, <2>2, <2>3, <2>4 DEF Init, TypeOK
<1>2. TypeOK /\ [Next]_vars => TypeOK'
  <2>. SUFFICES ASSUME TypeOK, [Next]_vars PROVE TypeOK'
    OBVIOUS
  <2>. USE SizeAssumption DEF TypeOK
  <2>1. CASE Clock
    <3>1. lutIndex' \in 0 .. LUT_SIZE /\ setupST' \in 0 .. 2
      BY <2>1 DEF Clock, Config, Load, Wait, Answered, NextEntry, Finished, config
    <3>2. data' \in Entry
      BY <2>1 DEF Clock, Config, Load, Wait, Answered, NextEntry, Finished, config, Entry
    <3>3. go' \in BOOLEAN /\ missed' \in BOOLEAN
      BY <2>1 DEF Clock, Config, Load, Wait, Answered, NextEntry, Finished, config
    <3>4. counter' \in 0 .. 63
      BY <2>1 DEF Clock, Controller, Count
    <3>5. ack' \in BOOLEAN
      BY <2>1 DEF Clock, Controller, FrameReset, FrameStart, Acknowledge, FrameEnd, FrameShift
    <3>a. nNack' \in 0 .. MaxNack
      BY <2>1 DEF Clock, Controller, FrameReset, FrameStart, Acknowledge, FrameEnd, FrameShift
    <3>6. end' \in BOOLEAN /\ sd' \in Entry /\ fresh' \in BOOLEAN
      BY <2>1 DEF Clock, Controller, FrameReset, FrameStart, Acknowledge, FrameEnd, FrameShift
    <3>7. stored' \in BOOLEAN
      BY <2>1 DEF Clock, Controller, FrameReset, FrameStart, Acknowledge, FrameEnd, FrameShift
    <3>8. good' \subseteq Register /\ intLow' \in BOOLEAN
      BY <2>1 DEF Clock, Controller, FrameReset, FrameStart, Acknowledge, FrameEnd,
                  FrameShift, chip, Register
    <3>9. UNCHANGED nEvent
      BY <2>1 DEF Clock
    <3>10. QED BY <3>1, <3>2, <3>3, <3>4, <3>5, <3>a, <3>6, <3>7, <3>8, <3>9
  <2>2. CASE PllReset
    <3>1. /\ lutIndex' = 0 /\ setupST' = 0 /\ go' = FALSE /\ counter' = 63
          /\ end' = TRUE /\ ack' = FALSE /\ fresh' = TRUE /\ stored' = FALSE
      BY <2>2 DEF PllReset, Reset
    <3>2. UNCHANGED <<data, sd, good, intLow, nNack, missed>>
      BY <2>2 DEF PllReset, Reset, chip
    <3>3. nEvent' \in 0 .. MaxEvent
      BY <2>2 DEF PllReset
    <3>4. lutIndex' \in 0 .. LUT_SIZE
      BY <3>1
    <3>5. setupST' \in 0 .. 2 /\ counter' \in 0 .. 63
      BY <3>1
    <3>6. QED BY <3>1, <3>2, <3>3, <3>4, <3>5
  <2>3. CASE HotPlug
    BY <2>3 DEF HotPlug, config, controller
  <2>4. CASE UNCHANGED vars
    BY <2>4 DEF vars, config, controller, chip, history
  <2>5. QED BY <2>1, <2>2, <2>3, <2>4 DEF Next
<1>3. QED BY <1>1, <1>2, PTL DEF Spec

-----------------------------------------------------------------------------
(***************************************************************************)
(* How far the two machines can be apart: the shapes of their joint state. *)
(* Each is the one before, a clock later.                                  *)
(***************************************************************************)
Busy == lutIndex < LUT_SIZE

\* After a reset: END is left from it, and entry 0 counts as sent.
IsReset   == fresh /\ lutIndex = 0 /\ setupST = 0 /\ ~go /\ counter = 63 /\ end /\ ~ack
IsSkip    == fresh /\ lutIndex = 0 /\ setupST = 1 /\ go /\ counter = 0 /\ end /\ ~ack
IsSkipped == fresh /\ lutIndex = 0 /\ setupST = 2 /\ ~go /\ counter = 1 /\ ~end /\ ~ack

\* The encoder has the entry of this frame, or the entry is lost to a hot plug.
Has == stored /\ (~missed /\ lutIndex > 0 => Lut[lutIndex] \in good)

\* One entry, from idle to stored.
IsIdle    == setupST = 0 /\ ~go /\ counter = 0 /\ ~ack
IsSending ==
  /\ Busy /\ setupST = 1 /\ go /\ counter \in 0 .. 32 /\ ~end /\ data = lutIndex
  /\ counter >= 2 => sd = lutIndex
  /\ counter >= 31 /\ ~ack => Has
IsSent    ==
  /\ Busy /\ setupST = 1 /\ go /\ counter = 33 /\ end /\ sd = lutIndex
  /\ ~ack => Has
IsStored  == Busy /\ setupST = 2 /\ ~go /\ counter = 34 /\ end /\ ~ack /\ sd = lutIndex /\ Has

\* After a refusal: END and ACK of the old frame are seen once more.
IsRefused == Busy /\ setupST = 0 /\ ~go /\ counter = 34 /\ end /\ ack
IsAgain   == Busy /\ setupST = 1 /\ go /\ counter = 0 /\ end /\ ack
IsAgain2  == Busy /\ setupST = 0 /\ ~go /\ counter = 1 /\ ~end /\ ~ack

Shape ==
  \/ IsReset \/ IsSkip \/ IsSkipped \/ IsIdle \/ IsSending \/ IsSent \/ IsStored
  \/ IsRefused \/ IsAgain \/ IsAgain2

\* The entries passed are in the encoder, but for entry 0 and for a hot plug that
\* was missed or is still to be served.
Passed ==
  ~missed /\ ~(lutIndex = LUT_SIZE /\ intLow)
    => \A e \in 1 .. lutIndex - 1 : Lut[e] \in good

TableInv == Shape /\ Passed

LEMMA TableInit == Init => TableInv
BY SizeAssumption DEF Init, TableInv, Shape, IsReset, Passed

\* While there is an entry to send the table is not finished.
LEMMA BusyIsNotFinished ==
  ASSUME TypeOK, Busy
  PROVE  ~Finished
<1>1. Finished => lutIndex = LUT_SIZE
  BY DEF Finished
<1>2. lutIndex # LUT_SIZE
  BY SizeAssumption DEF Busy, TypeOK
<1>3. QED BY <1>1, <1>2

\* A clock takes each shape to itself or to one that follows it.
LEMMA ClockKeepsShape ==
  ASSUME TypeOK, Shape, Clock
  PROVE  Shape'
<1>. USE SizeAssumption
<1>a. Config /\ Count
  BY DEF Clock, Controller
<1>b. FrameReset \/ FrameStart \/ Acknowledge \/ FrameEnd \/ FrameShift
  BY DEF Clock, Controller
<1>c. lutIndex \in 0 .. LUT_SIZE /\ counter \in 0 .. 63
  BY DEF TypeOK
<1>d. end \in BOOLEAN /\ ack \in BOOLEAN /\ go \in BOOLEAN
  BY DEF TypeOK
<1>1. CASE IsReset
  <2>1. Load /\ FrameShift
    BY <1>a, <1>b, <1>1 DEF IsReset, Config, Wait, Answered, NextEntry, Finished,
         FrameReset, FrameStart, Acknowledge, FrameEnd
  <2>2. IsSkip'
    BY <1>a, <1>1, <2>1 DEF IsReset, Load, FrameShift, Count, IsSkip
  <2>3. QED BY <2>2 DEF Shape
<1>2. CASE IsSkip
  <2>1. Busy
    BY <1>2 DEF IsSkip, Busy
  <2>2. Answered /\ FrameReset
    BY BusyIsNotFinished, <1>a, <1>b, <1>d, <1>2, <2>1 DEF IsSkip, Config, Load, Wait,
       NextEntry, FrameShift, FrameStart, Acknowledge, FrameEnd
  <2>3. IsSkipped'
    BY <1>a, <1>2, <2>2 DEF IsSkip, Answered, FrameReset, Count, IsSkipped
  <2>4. QED BY <2>3 DEF Shape
<1>3. CASE IsSkipped
  <2>1. NextEntry /\ FrameStart
    BY <1>a, <1>b, <1>3 DEF IsSkipped, Config, Load, Wait, Answered, Finished,
         FrameShift, FrameReset, Acknowledge, FrameEnd
  <2>2. IsIdle'
    BY <1>a, <1>3, <2>1 DEF IsSkipped, NextEntry, FrameStart, Count, IsIdle
  <2>3. QED BY <2>2 DEF Shape
<1>4. CASE IsIdle
  <2>1. (Load \/ Finished) /\ FrameReset
    BY <1>a, <1>b, <1>4 DEF IsIdle, Config, Wait, Answered, NextEntry,
         FrameShift, FrameStart, Acknowledge, FrameEnd
  <2>2. CASE Load
    <3>1. IsSending'
      BY <1>a, <1>c, <1>4, <2>1, <2>2 DEF IsIdle, Load, FrameReset, Count, IsSending, Busy
    <3>2. QED BY <3>1 DEF Shape
  <2>3. CASE Finished
    <3>1. IsIdle'
      BY <1>a, <1>4, <2>1, <2>3 DEF IsIdle, Finished, FrameReset, Count
    <3>2. QED BY <3>1 DEF Shape
  <2>4. QED BY <2>1, <2>2, <2>3
<1>5. CASE IsSending
  <2>1. Wait
    BY BusyIsNotFinished, <1>a, <1>d, <1>5 DEF IsSending, Config, Load, Answered, NextEntry
  <2>2. UNCHANGED <<lutIndex, setupST, go, data, missed>> /\ counter' = counter + 1
    BY <1>a, <1>c, <1>5, <2>1 DEF Wait, config, Count, IsSending
  <2>3. CASE FrameReset
    <3>1. IsSending'
      BY <1>5, <2>2, <2>3 DEF FrameReset, IsSending, Busy
    <3>2. QED BY <3>1 DEF Shape
  <2>4. CASE FrameStart
    <3>1. IsSending'
      BY <1>5, <2>2, <2>4 DEF FrameStart, IsSending, Busy
    <3>2. QED BY <3>1 DEF Shape
  <2>5. CASE Acknowledge
    <3>1. counter \in {12, 21, 30} /\ UNCHANGED <<end, sd>> /\ sd = lutIndex
      BY <1>5, <2>5 DEF Acknowledge, IsSending
    <3>2. counter = 30 /\ ~ack' => Has'
      BY <2>2, <2>5, <3>1 DEF Acknowledge, Has
    <3>3. IsSending'
      BY <1>5, <2>2, <3>1, <3>2 DEF IsSending, Busy
    <3>4. QED BY <3>3 DEF Shape
  <2>6. CASE FrameEnd
    <3>1. Has => Has'
      BY <2>2, <2>6 DEF FrameEnd, Has, chip
    <3>2. IsSent'
      BY <1>5, <2>2, <2>6, <3>1 DEF FrameEnd, IsSending, IsSent, Busy
    <3>3. QED BY <3>2 DEF Shape
  <2>7. CASE FrameShift
    <3>1. Has => Has'
      BY <2>2, <2>7 DEF FrameShift, Has, chip
    <3>2. IsSending'
      BY <1>5, <2>2, <2>7, <3>1 DEF FrameShift, IsSending, Busy
    <3>3. QED BY <3>2 DEF Shape
  <2>8. QED BY <1>b, <2>3, <2>4, <2>5, <2>6, <2>7
<1>6. CASE IsSent
  <2>1. Answered /\ FrameShift
    BY BusyIsNotFinished, <1>a, <1>b, <1>d, <1>6 DEF IsSent, Config, Load, Wait, NextEntry,
         FrameReset, FrameStart, Acknowledge, FrameEnd
  <2>2. CASE ack
    <3>1. IsRefused'
      BY <1>a, <1>6, <2>1, <2>2 DEF IsSent, Busy, Answered, FrameShift, Count, IsRefused
    <3>2. QED BY <3>1 DEF Shape
  <2>3. CASE ~ack
    <3>1. Has'
      BY <1>6, <2>1, <2>3 DEF IsSent, Answered, FrameShift, Has, chip
    <3>2. IsStored'
      BY <1>a, <1>6, <2>1, <2>3, <3>1 DEF IsSent, Busy, Answered, FrameShift, Count, IsStored
    <3>3. QED BY <3>2 DEF Shape
  <2>4. QED BY <2>2, <2>3
<1>7. CASE IsStored
  <2>1. NextEntry /\ FrameShift
    BY BusyIsNotFinished, <1>a, <1>b, <1>7 DEF IsStored, Config, Load, Wait, Answered,
         FrameReset, FrameStart, Acknowledge, FrameEnd
  <2>2. IsIdle'
    BY <1>a, <1>7, <2>1 DEF IsStored, NextEntry, FrameShift, Count, IsIdle
  <2>3. QED BY <2>2 DEF Shape
<1>8. CASE IsRefused
  <2>1. Load /\ FrameShift
    BY BusyIsNotFinished, <1>a, <1>b, <1>8 DEF IsRefused, Config, Wait, Answered, NextEntry,
         FrameReset, FrameStart, Acknowledge, FrameEnd
  <2>2. IsAgain'
    BY <1>a, <1>8, <2>1 DEF IsRefused, Busy, Load, FrameShift, Count, IsAgain
  <2>3. QED BY <2>2 DEF Shape
<1>9. CASE IsAgain
  <2>1. Answered /\ FrameReset
    BY BusyIsNotFinished, <1>a, <1>b, <1>d, <1>9 DEF IsAgain, Config, Load, Wait, NextEntry,
         FrameShift, FrameStart, Acknowledge, FrameEnd
  <2>2. IsAgain2'
    BY <1>a, <1>9, <2>1 DEF IsAgain, Busy, Answered, FrameReset, Count, IsAgain2
  <2>3. QED BY <2>2 DEF Shape
<1>10. CASE IsAgain2
  <2>1. Load /\ FrameStart
    BY BusyIsNotFinished, <1>a, <1>b, <1>10 DEF IsAgain2, Config, Wait, Answered, NextEntry,
         FrameShift, FrameReset, Acknowledge, FrameEnd
  <2>2. IsSending'
    BY <1>a, <1>10, <2>1 DEF IsAgain2, Busy, Load, FrameStart, Count, IsSending
  <2>3. QED BY <2>2 DEF Shape
<1>11. QED
  BY <1>1, <1>2, <1>3, <1>4, <1>5, <1>6, <1>7, <1>8, <1>9, <1>10 DEF Shape

\* The table moves on from IsStored, or from entry 0 after a reset.
LEMMA MovesFrom ==
  ASSUME TypeOK, Shape, NextEntry
  PROVE  IsStored \/ IsSkipped
BY DEF Shape, NextEntry, IsReset, IsSkip, IsIdle, IsSending, IsSent, IsRefused, IsAgain,
       IsAgain2

LEMMA ClockKeepsPassed ==
  ASSUME TypeOK, TableInv, Clock
  PROVE  Passed'
<1>. USE SizeAssumption DEF TableInv
<1>1. good \subseteq good'
  BY DEF Clock, Controller, FrameReset, FrameStart, Acknowledge, FrameEnd, FrameShift, chip
<1>2. lutIndex \in 0 .. LUT_SIZE
  BY DEF TypeOK
<1>3. CASE Load \/ Wait \/ Answered
  <2>1. UNCHANGED <<lutIndex, missed>> /\ lutIndex < LUT_SIZE
    BY <1>3 DEF Load, Wait, Answered, config
  <2>2. QED BY <1>1, <1>2, <2>1 DEF Passed
<1>4. CASE NextEntry
  <2>1. lutIndex < LUT_SIZE /\ lutIndex' = lutIndex + 1 /\ UNCHANGED missed
    BY <1>4 DEF NextEntry
  <2>2. CASE IsSkipped
    BY <2>1, <2>2 DEF IsSkipped, Passed
  <2>3. CASE IsStored
    <3>1. ~missed /\ lutIndex > 0 => Lut[lutIndex] \in good
      BY <2>3 DEF IsStored, Has
    <3>2. ASSUME ~missed', NEW e \in 1 .. lutIndex' - 1 PROVE Lut[e] \in good'
      BY <1>1, <1>2, <2>1, <3>1, <3>2 DEF Passed
    <3>3. QED BY <3>2 DEF Passed
  <2>4. QED BY <1>4, <2>2, <2>3, MovesFrom
<1>5. CASE Finished
  <2>1. CASE intLow
    <3>1. lutIndex' = 0
      BY <1>5, <2>1 DEF Finished
    <3>2. QED BY <3>1 DEF Passed
  <2>2. CASE ~intLow
    <3>1. UNCHANGED lutIndex /\ (missed' <=> missed)
      BY <1>5, <2>2 DEF Finished, TypeOK
    <3>2. QED BY <1>1, <2>2, <3>1 DEF Passed
  <2>3. QED BY <2>1, <2>2
<1>6. QED BY <1>3, <1>4, <1>5 DEF Clock, Config

\* TableInv is inductive.
LEMMA TableInductive == Spec => []TableInv
<1>1. TypeOK /\ TableInv /\ [Next]_vars => TableInv'
  <2>. SUFFICES ASSUME TypeOK, TableInv, [Next]_vars PROVE TableInv'
    OBVIOUS
  <2>1. CASE Clock
    BY <2>1, ClockKeepsShape, ClockKeepsPassed DEF TableInv
  <2>2. CASE PllReset
    <3>1. IsReset'
      BY <2>2 DEF PllReset, Reset, IsReset
    <3>2. Passed'
      BY <2>2 DEF PllReset, Reset, Passed
    <3>3. QED BY <3>1, <3>2 DEF TableInv, Shape
  <2>3. CASE HotPlug
    <3>1. UNCHANGED <<lutIndex, setupST, go, data, counter, end, ack, sd, fresh, stored>>
      BY <2>3 DEF HotPlug, config, controller
    <3>2. missed' \/ lutIndex = 0 \/ (lutIndex = LUT_SIZE /\ intLow')
      <4>1. CASE lutIndex \in 1 .. LUT_SIZE - 1
        BY <2>3, <4>1 DEF HotPlug
      <4>2. CASE lutIndex \notin 1 .. LUT_SIZE - 1
        <5>1. lutIndex = 0 \/ lutIndex = LUT_SIZE
          BY <4>2, SizeAssumption DEF TypeOK
        <5>2. QED BY <2>3, <5>1 DEF HotPlug
      <4>3. QED BY <4>1, <4>2
    <3>3. Passed'
      BY <3>1, <3>2 DEF Passed
    <3>4. Busy /\ Has => Has'
      BY <3>1, <3>2, SizeAssumption DEF Busy, Has, TypeOK
    <3>5. Shape'
      BY <3>1, <3>4 DEF TableInv, Shape, IsReset, IsSkip, IsSkipped, IsIdle, IsSending,
           IsSent, IsStored, IsRefused, IsAgain, IsAgain2, Busy
    <3>6. QED BY <3>3, <3>5 DEF TableInv
  <2>4. CASE UNCHANGED vars
    <3>1. UNCHANGED <<lutIndex, setupST, go, data, counter, end, ack, sd, good, intLow,
                      fresh, stored, missed>>
      BY <2>4 DEF vars, config, controller, chip, history
    <3>2. Passed'
      BY <3>1 DEF TableInv, Passed
    <3>3. Has => Has'
      BY <3>1 DEF Has
    <3>4. Shape'
      BY <3>1, <3>3 DEF TableInv, Shape, IsReset, IsSkip, IsSkipped, IsIdle, IsSending,
           IsSent, IsStored, IsRefused, IsAgain, IsAgain2, Busy
    <3>5. QED BY <3>2, <3>4 DEF TableInv
  <2>5. QED BY <2>1, <2>2, <2>3, <2>4 DEF Next
<1>2. QED BY <1>1, TableInit, TypeCorrect, PTL DEF Spec

\* LUT_INDEX leaves an entry only when the encoder has stored it, but for entry 0
\* after a reset (I2C_HDMI_Config.v:82-95).
THEOREM EntriesAreSent == Spec => MovesOnWhenStored
<1>1. ASSUME TypeOK, TableInv, [Next]_vars
      PROVE  lutIndex' = lutIndex + 1 /\ ~(fresh /\ lutIndex = 0) => stored /\ sd = lutIndex
  <2>. SUFFICES ASSUME lutIndex' = lutIndex + 1, ~(fresh /\ lutIndex = 0)
                PROVE  stored /\ sd = lutIndex
    OBVIOUS
  <2>1. lutIndex \in 0 .. LUT_SIZE
    BY <1>1 DEF TypeOK
  <2>2. ~PllReset /\ ~HotPlug /\ ~UNCHANGED vars
    BY <2>1, SizeAssumption DEF PllReset, Reset, HotPlug, vars, config
  <2>3. NextEntry
    BY <1>1, <2>1, <2>2, SizeAssumption
       DEF Next, Clock, Config, Load, Wait, Answered, Finished, config
  <2>4. IsStored
    BY <1>1, <2>3, MovesFrom DEF TableInv, IsSkipped
  <2>5. QED BY <2>4 DEF IsStored, Has
<1>2. QED BY <1>1, TableInductive, TypeCorrect, PTL DEF Spec, MovesOnWhenStored

\* A finished table is in the encoder whole (I2C_HDMI_Config.v:98-106): the entry
\* the reset skips is there because the table repeats it.
THEOREM FinishedTablesAreWhole == Spec => []FinishedIsConfigured
<1>1. ASSUME TypeOK, TableInv PROVE FinishedIsConfigured
  <2>. SUFFICES ASSUME lutIndex = LUT_SIZE, ~intLow, ~missed PROVE good = Register
    BY DEF FinishedIsConfigured
  <2>1. \A e \in 1 .. LUT_SIZE - 1 : Lut[e] \in good
    BY <1>1 DEF TableInv, Passed
  <2>2. PICK r \in Entry \ {0} : Lut[r] = Lut[0]
    BY RepeatAssumption
  <2>3. Lut[0] \in good
    BY <2>1, <2>2, SizeAssumption DEF Entry
  <2>4. ASSUME NEW e \in Entry PROVE Lut[e] \in good
    BY <2>1, <2>3, SizeAssumption DEF Entry
  <2>5. Register \subseteq good
    BY <2>4 DEF Register
  <2>6. QED BY <1>1, <2>5 DEF TypeOK
<1>2. QED BY <1>1, TableInductive, TypeCorrect, PTL
=============================================================================
