-------------------------- MODULE AutofocusProofs --------------------------
(***************************************************************************)
(* Proofs about Autofocus, for a lens with any number of steps, any scene  *)
(* and any delay.                                                          *)
(***************************************************************************)
EXTENDS Autofocus, TLAPS

\* The fine search runs behind the coarse one, and only with AUTO_FOC.
Phases == (VCM_END => V_C) /\ (V_C => AUTO_FOC /\ STEP_i > LIMIT)

IInv == TypeOK /\ Phases

-----------------------------------------------------------------------------
LEMMA HalfType == Half \in Nat /\ Half < SCAL /\ Half < STEPS
BY StepAssumption DEF Half

LEMMA FineStartType ==
  ASSUME STEP_UP \in Step
  PROVE  \/ FineStart \in 0 .. STEPS + Half
         \/ FineStart \in 2 * STEPS - Half .. 2 * STEPS - 1
BY HalfType, StepAssumption DEF FineStart, Step

LEMMA CutType ==
  ASSUME NEW s \in 0 .. 2 * STEPS - 1
  PROVE  Cut(s) \in Step
BY StepAssumption DEF Cut, Step

LEMMA SharpnessType ==
  ASSUME TypeOK, NEW s \in Step
  PROVE  Sharpness(s) \in 0 .. Depth
BY StepAssumption DEF TypeOK, Sharpness, Step

LEMMA InitInv ==
  ASSUME Init
  PROVE  IInv
<1>. USE StepAssumption DEF Init
<1>1. STEP_UP \in Step /\ 0 \in Step
  BY DEF Step
<1>2. SUM \in 0 .. Depth
  BY <1>1 DEF Sharpness, Step
<1>3. lens \in Seq(Step) /\ Len(lens) = Lag + 1
  BY <1>1
<1>4. calm \in 0 .. Settled /\ STEP_i \in 0 .. LIMIT + SCAL /\ from \in 0 .. LIMIT + 2 * SCAL
  BY DEF Settled
<1>5. \/ STEP_f \in 0 .. STEPS + Half
      \/ STEP_f \in 2 * STEPS - Half .. 2 * STEPS - 1
  BY <1>1, FineStartType
<1>6. /\ peakSUM \in 0 .. Depth /\ best \in Step
      /\ events \in 0 .. MaxEvent /\ DELAY \in 0 .. ReadyFrames
  OBVIOUS
<1>7. TypeOK
  BY <1>1, <1>2, <1>3, <1>4, <1>5, <1>6 DEF TypeOK
<1>8. QED BY <1>7 DEF IInv, Phases

-----------------------------------------------------------------------------
(***************************************************************************)
(* An edge.                                                                *)
(***************************************************************************)
LEMMA CoarseType ==
  ASSUME IInv, Frame
  PROVE  /\ STEP_i' \in 0 .. LIMIT + SCAL /\ V_C' \in BOOLEAN
         /\ V_C => V_C'
         /\ V_C' => AUTO_FOC' /\ STEP_i' > LIMIT
<1>. USE StepAssumption DEF IInv, Phases
<1>1. AUTO_FOC' = AUTO_FOC /\ Coarse
  BY DEF Frame
<1>2. STEP_i \in 0 .. LIMIT + SCAL /\ V_C \in BOOLEAN
  BY DEF TypeOK
<1>3. CASE ~AUTO_FOC
  BY <1>1, <1>2, <1>3 DEF Coarse
<1>4. CASE AUTO_FOC /\ STEP_i > LIMIT
  BY <1>1, <1>2, <1>4 DEF Coarse
<1>5. CASE AUTO_FOC /\ ~(STEP_i > LIMIT)
  BY <1>1, <1>2, <1>5 DEF Coarse
<1>6. QED BY <1>3, <1>4, <1>5

LEMMA FineType ==
  ASSUME IInv, Frame
  PROVE  /\ \/ STEP_f' \in 0 .. STEPS + Half
            \/ STEP_f' \in 2 * STEPS - Half .. 2 * STEPS - 1
         /\ VCM_END' \in BOOLEAN /\ GO_F' \in BOOLEAN /\ (VCM_END' => V_C)
         /\ VCM_END => VCM_END'
<1>. USE StepAssumption, HalfType DEF IInv, Frame
<1>1. STEP_UP \in Step
  BY DEF TypeOK
<1>2. CASE ~V_C
  BY <1>1, <1>2, FineStartType DEF Fine, Phases
<1>3. CASE V_C /\ STEP_f > STEP_UP + Half
  BY <1>3 DEF Fine, TypeOK
<1>4. CASE V_C /\ ~(STEP_f > STEP_UP + Half)
  <2>1. STEP_f' = STEP_f + 1 /\ GO_F' = TRUE /\ VCM_END' = VCM_END
    BY <1>4 DEF Fine
  <2>2. STEP_f \in Nat
    BY DEF TypeOK
  <2>3. STEP_f + 1 \in 0 .. STEPS + Half
    BY <1>1, <1>4, <2>2 DEF Step
  <2>4. QED BY <1>4, <2>1, <2>3 DEF TypeOK
<1>5. QED BY <1>2, <1>3, <1>4

\* The bus and the history of a search.
LEMMA DelayType ==
  ASSUME IInv, Frame
  PROVE  /\ I2C_RELEASE' = I2C_RELEASE /\ DELAY' \in 0 .. ReadyFrames /\ READY' \in BOOLEAN
         /\ READY => READY'
         /\ from' = IF ~AUTO_FOC THEN 0 ELSE IF READY' THEN from ELSE STEP_i' + SCAL
         /\ from' \in 0 .. LIMIT + 2 * SCAL
<1>. USE StepAssumption
<1>1. /\ I2C_RELEASE' = I2C_RELEASE /\ Delay
      /\ from' = IF ~AUTO_FOC THEN 0 ELSE IF READY' THEN from ELSE STEP_i' + SCAL
  BY DEF Frame
<1>2. DELAY \in 0 .. ReadyFrames /\ READY \in BOOLEAN /\ from \in 0 .. LIMIT + 2 * SCAL
  BY DEF IInv, TypeOK
<1>3. DELAY' \in 0 .. ReadyFrames /\ READY' \in BOOLEAN /\ (READY => READY')
  <2>1. CASE ~I2C_RELEASE
    BY <1>1, <1>2, <2>1 DEF Delay
  <2>2. CASE I2C_RELEASE /\ DELAY < ReadyFrames
    BY <1>1, <1>2, <2>2 DEF Delay
  <2>3. CASE I2C_RELEASE /\ ~(DELAY < ReadyFrames)
    BY <1>1, <1>2, <2>3 DEF Delay
  <2>4. QED BY <2>1, <2>2, <2>3
<1>4. from' \in 0 .. LIMIT + 2 * SCAL
  BY <1>1, <1>2, CoarseType
<1>5. QED BY <1>1, <1>3, <1>4

LEMMA FrameInv ==
  ASSUME IInv, Frame
  PROVE  IInv'
<1>. USE StepAssumption DEF IInv
<1>1. UNCHANGED <<AUTO_FOC, best, events>>
  BY DEF Frame
<1>2. STEP' \in Step
  <2>1. STEP_f' \in 0 .. 2 * STEPS - 1 /\ STEP_i' \in 0 .. 2 * STEPS - 1
    <3>1. STEP_i' \in 0 .. LIMIT + SCAL
      BY CoarseType
    <3>2. \/ STEP_f' \in 0 .. STEPS + Half
          \/ STEP_f' \in 2 * STEPS - Half .. 2 * STEPS - 1
      BY FineType
    <3>3. QED BY <3>1, <3>2, HalfType
  <2>2. Cut(STEP_f') \in Step /\ Cut(STEP_i') \in Step
    BY <2>1, CutType
  <2>3. STEP' = IF V_C' THEN Cut(STEP_f') ELSE Cut(STEP_i')
    BY DEF STEP
  <2>4. QED BY <2>2, <2>3
<1>3. SUM' \in 0 .. Depth
  <2>1. Head(lens) \in Step
    BY DEF TypeOK
  <2>2. QED BY <2>1, SharpnessType DEF Frame, Peak
<1>4. peakSUM' \in 0 .. Depth /\ STEP_UP' \in Step /\ rGO_F' \in BOOLEAN
  BY <1>2, FineType DEF Frame, Peak, TypeOK
<1>5. lens' \in Seq(Step) /\ Len(lens') = Lag + 1
  <2>1. END_STEP' \in Step /\ lens[Lag + 1] \in Step
    BY <1>2, <1>4 DEF END_STEP, TypeOK
  <2>2. Tail(lens) \in Seq(Step) /\ Len(Tail(lens)) = Lag
    BY DEF TypeOK
  <2>3. QED BY <2>1, <2>2 DEF Frame, Tell
<1>6. calm' \in 0 .. Settled
  BY DEF Frame, TypeOK, Settled
<1>7. TypeOK'
  BY <1>1, <1>3, <1>4, <1>5, <1>6, CoarseType, FineType, DelayType DEF TypeOK, Step, Settled
<1>8. Phases'
  BY CoarseType, FineType DEF Phases
<1>9. QED BY <1>7, <1>8

LEMMA StepInv ==
  ASSUME IInv, [Next]_vars
  PROVE  IInv'
<1>. USE StepAssumption DEF IInv
<1>1. ASSUME NEW s \in Step
      PROVE  /\ [lens EXCEPT ![Lag + 1] = s] \in Seq(Step)
             /\ Len([lens EXCEPT ![Lag + 1] = s]) = Lag + 1
  BY DEF TypeOK
<1>2. 0 \in Step /\ lens[Lag] \in Step /\ lens[Lag + 1] \in Step
  BY DEF TypeOK, Step
<1>3. ASSUME Stop, Event, lens' \in Seq(Step), Len(lens') = Lag + 1,
             I2C_RELEASE' \in BOOLEAN, DELAY' \in 0 .. ReadyFrames, READY' \in BOOLEAN
      PROVE  IInv'
  <2>1. \/ STEP_f' \in 0 .. STEPS + Half
        \/ STEP_f' \in 2 * STEPS - Half .. 2 * STEPS - 1
    BY <1>3, FineStartType DEF Stop, TypeOK
  <2>2. /\ STEP_i' \in 0 .. LIMIT + SCAL /\ calm' \in 0 .. Settled /\ events' \in 0 .. MaxEvent
        /\ from' \in 0 .. LIMIT + 2 * SCAL
    BY <1>3 DEF Stop, Event, Settled, TypeOK
  <2>3. QED BY <1>3, <2>1, <2>2 DEF Stop, peak, TypeOK, Phases, Step, Settled
<1>4. CASE Drop
  <2>1. lens' \in Seq(Step) /\ Len(lens') = Lag + 1
    BY <1>1, <1>2, <1>4 DEF Drop, TypeOK
  <2>2. QED BY <1>3, <1>4, <2>1 DEF Drop, bus, TypeOK
<1>5. CASE Lose
  <2>1. I2C_RELEASE' = FALSE /\ DELAY' = 0 /\ READY' = FALSE /\ Stop /\ Event
    BY <1>5, Zenon DEF Lose
  <2>2. PICK s \in {lens[Lag + 1], lens[Lag], 0} : lens' = [lens EXCEPT ![Lag + 1] = s]
    BY <1>5 DEF Lose
  <2>3. lens' \in Seq(Step) /\ Len(lens') = Lag + 1
    BY <1>1, <1>2, <2>2
  <2>4. 0 \in 0 .. ReadyFrames
    OBVIOUS
  <2>5. I2C_RELEASE' \in BOOLEAN /\ DELAY' \in 0 .. ReadyFrames /\ READY' \in BOOLEAN
    BY <2>1, <2>4, Zenon
  <2>. HIDE DEF IInv
  <2>6. QED BY <1>3, <2>1, <2>3, <2>5
<1>6. CASE Configured
  BY <1>6 DEF Configured, TypeOK, Phases, counter, peak, Step, Settled
<1>7. CASE Rise
  BY <1>7 DEF Rise, TypeOK, Phases, bus, counter, peak, Step, Settled
<1>8. CASE Scene
  BY <1>8 DEF Scene, Event, TypeOK, Phases, bus, counter, peak, Step, Settled
<1>9. CASE UNCHANGED vars
  BY <1>9 DEF vars, TypeOK, Phases, bus, counter, peak, Step, Settled
<1>10. QED BY <1>4, <1>5, <1>6, <1>7, <1>8, <1>9, FrameInv DEF Next

\* The counters keep to their bits and the phases of a search to their order.
THEOREM Invariance == Spec => []IInv
<1>1. Init => IInv
  BY InitInv
<1>2. IInv /\ [Next]_vars => IInv'
  BY StepInv
<1>3. QED BY <1>1, <1>2, PTL DEF Spec

-----------------------------------------------------------------------------
(***************************************************************************)
(* The theorems.                                                           *)
(***************************************************************************)

\* Every variable keeps its type: the fine counter ends before it runs on in its
\* eleventh bit, whatever the picture does.
THEOREM TypeCorrect == Spec => []TypeOK
<1>1. IInv => TypeOK
  BY DEF IInv
<1>2. QED BY <1>1, Invariance, PTL

\* A step that was found is kept until AUTO_FOC goes, whatever the picture does.
Kept == [][VCM_END /\ AUTO_FOC' => VCM_END' /\ END_STEP' = END_STEP]_vars

\* The peak is not written any more behind the fine search, and END_STEP is the peak.
THEOREM FoundIsKept == Spec => Kept
<1>1. ASSUME IInv, [Next]_vars
      PROVE  [VCM_END /\ AUTO_FOC' => VCM_END' /\ END_STEP' = END_STEP]_vars
  <2>1. CASE Frame
    <3>1. VCM_END => VCM_END'
      BY <1>1, <2>1, FineType
    <3>2. VCM_END /\ AUTO_FOC' => STEP_UP' = STEP_UP
      BY <2>1, <3>1 DEF Frame, Peak
    <3>3. QED BY <3>1, <3>2 DEF END_STEP
  <2>2. CASE Drop \/ Lose
    BY <2>2 DEF Drop, Lose, Stop
  <2>3. CASE Configured \/ Rise \/ Scene
    BY <2>3 DEF Configured, Rise, Scene, counter, peak, END_STEP, STEP
  <2>4. QED BY <1>1, <2>1, <2>2, <2>3 DEF Next
<1>2. QED BY <1>1, Invariance, PTL DEF Spec, Kept

-----------------------------------------------------------------------------
(***************************************************************************)
(* Where a search ends.  Its invariant follows it from the rest before,    *)
(* which makes the lens and the counts forget, through the coarse search,  *)
(* where steps are told in even distances, and through the fine one, which *)
(* goes on upwards from behind the sharpest step.                          *)
(***************************************************************************)

\* Sharpness, of a scene whose sharpest step is b.
Contrast(s, b) ==
  LET d == IF s < b THEN b - s ELSE s - b IN IF d < Depth THEN Depth - d ELSE 0

\* Where the lens was told to be n frames before coarse step s, in a search of which f
\* is the first step that it was told.
Told(s, n, f) == IF s < n * SCAL + f THEN 0 ELSE s - n * SCAL

\* Between two searches: what the last one left is gone when calm has run out.
Resting ==
  ~AUTO_FOC =>
    /\ from = 0
    /\ STEP_i = 0 /\ ~V_C /\ ~GO_F
    /\ \A j \in 1 .. Lag + 1 : j + calm > Lag + 1 => lens[j] = 0
    /\ calm >= 1 => peakSUM = 0 /\ ~rGO_F
    /\ calm = Settled => SUM = Contrast(0, best)

\* STEP_UP is a step the lens was told when the picture showed about the sharpest one.
Near == best + SCAL <= STEP_UP + Half /\ STEP_UP <= best + Late + Half

\* The last step that was compared is step p, before the sharpest or behind it.
Climbing(p) ==
  /\ peakSUM = Contrast(p, best)
  /\ peakSUM > 0 => p + SCAL <= STEP_UP /\ STEP_UP <= p + Late
Passed(p) == Contrast(p, best) <= peakSUM /\ Near

Compared(p) == (p <= best => Climbing(p)) /\ (p > best => Passed(p))

\* from is one of the steps of the search, and the next one while the lens is told none.
Starting ==
  /\ \E k \in Nat : STEP_i + SCAL = from + k * SCAL
  /\ IF STEP_i = 0 THEN from = 0 ELSE IF READY THEN from <= STEP_i ELSE from = STEP_i + SCAL

Sweeping ==
  AUTO_FOC /\ calm = Settled /\ ~V_C =>
    /\ ~GO_F /\ ~rGO_F /\ Starting
    /\ \A j \in 1 .. Lag + 1 : lens[j] = Told(STEP_i, Lag + 1 - j, from)
    /\ SUM = Contrast(Told(STEP_i, Lag + 1, from), best)
    /\ STEP_i = 0 => peakSUM = 0
    /\ STEP_i > 0 =>
         /\ STEP_i >= SCAL
         /\ from <= best => Compared(Told(STEP_i, Settled, from))

\* The last values of lens were told by the fine search, which is m steps behind its
\* first, b, and those before by the coarse one.
FineTells(b, m) ==
  \A j \in 1 .. Lag + 1 :
    /\ m + j < Lag + 1 => best <= lens[j]
    /\ m + j >= Lag + 1 /\ m + j <= Lag + 1 + 2 * SCAL => lens[j] = b + m + j - (Lag + 1)

\* The coarse steps that are still to be seen are ever less sharp, and less than what the
\* fine search has compared.
CoarseFades(m) ==
  \A j \in 1 .. Lag + 1 :
    m + j < Lag + 1 =>
      /\ \A i \in 1 .. j : Contrast(lens[j], best) <= Contrast(lens[i], best)
      /\ m <= 1 => Contrast(lens[j], best) <= SUM
      /\ m >= 2 => Contrast(lens[j], best) <= peakSUM

FineCounts(b, m) ==
  /\ m <= Lag /\ m >= 2 => SUM <= peakSUM
  /\ m > Lag /\ m <= Lag + 1 + 2 * SCAL => SUM = Contrast(b + m - (Lag + 1), best)
  /\ m >= Settled => Contrast(b, best) <= peakSUM

\* The peak moves at most twice: to the first picture of the fine search, which is still
\* one of the coarse one, and to the first that shows a step of its own.
FineUp(b, m) ==
  \/ STEP_UP = b + Half
  \/ STEP_UP = b + 2 /\ m >= 2
  \/ STEP_UP = b + Settled /\ m >= Settled

Refines(b, m) ==
  /\ STEP_f = b + m /\ best <= b /\ b <= best + Late
  /\ rGO_F = GO_F /\ (GO_F <=> m >= 1)
  /\ FineTells(b, m) /\ CoarseFades(m) /\ FineCounts(b, m) /\ FineUp(b, m)

Refining ==
  V_C /\ ~VCM_END /\ calm = Settled /\ from <= best /\ best + Late <= LIMIT =>
    \E b \in Nat, m \in Nat : Refines(b, m)

SearchInv == Resting /\ Sweeping /\ Refining /\ FoundBehindBest

-----------------------------------------------------------------------------
LEMMA Halves == Half \in Nat /\ Half >= 1 /\ 2 * Half <= SCAL /\ SCAL <= 2 * Half + 1
BY StepAssumption DEF Half

LEMMA SharpnessIs ==
  ASSUME NEW s
  PROVE  Sharpness(s) = Contrast(s, best)
BY DEF Sharpness, Contrast

LEMMA ContrastFalls ==
  ASSUME NEW s \in Nat, NEW t \in Nat, NEW b \in Nat, b <= s, s <= t
  PROVE  Contrast(t, b) <= Contrast(s, b)
BY StepAssumption DEF Contrast

LEMMA ContrastRises ==
  ASSUME NEW s \in Nat, NEW t \in Nat, NEW b \in Nat, s < t, t <= b, Contrast(t, b) > 0
  PROVE  Contrast(s, b) < Contrast(t, b)
BY StepAssumption DEF Contrast

LEMMA ContrastType ==
  ASSUME NEW s \in Nat, NEW b \in Nat
  PROVE  Contrast(s, b) \in 0 .. Depth
BY StepAssumption DEF Contrast

\* Of the two steps of the coarse search around b, the one that is compared with success
\* is at most half a step away from it.
LEMMA ContrastPeak ==
  ASSUME NEW p \in Nat, NEW q \in Nat, NEW b \in Nat, p <= b, b < q, q <= p + SCAL
  PROVE  IF Contrast(p, b) < Contrast(q, b)
         THEN q <= b + Half
         ELSE b <= p + Half /\ Contrast(p, b) > 0
<1>1. Depth \in Nat /\ Depth > Half
  BY StepAssumption, SceneAssumption DEF Half
<1>2. b - p + (q - b) <= 2 * Half + 1
  BY Halves, StepAssumption
<1>3. Contrast(p, b) = (IF b - p < Depth THEN Depth - (b - p) ELSE 0)
  BY <1>1 DEF Contrast
<1>4. Contrast(q, b) = (IF q - b < Depth THEN Depth - (q - b) ELSE 0)
  BY <1>1 DEF Contrast
<1>5. QED BY <1>1, <1>2, <1>3, <1>4, Halves

LEMMA ToldSteps ==
  ASSUME NEW s \in Nat, NEW n \in Nat, NEW f \in Nat
  PROVE  /\ Told(s, n, f) \in Nat /\ Told(0, n, f) = 0
         /\ Told(s, 0, f) = IF s < f THEN 0 ELSE s
         /\ s < f => Told(s, n, f) = 0
         /\ Told(s + SCAL, n + 1, f) = Told(s, n, f)
         /\ Told(s, n + 1, f) <= Told(s, n, f)
         /\ Told(s, n + 1, f) < Told(s, n, f) => s = Told(s, n, f) + n * SCAL
         /\ n * SCAL \in Nat
<1>1. SCAL \in Nat /\ SCAL > 1
  BY StepAssumption
<1>2. n * SCAL \in Nat /\ (n + 1) * SCAL = n * SCAL + SCAL /\ 0 * SCAL = 0
  BY <1>1
<1>3. QED BY <1>1, <1>2 DEF Told

\* Behind the first step that it is told, the lens moves in steps of the search.
LEMMA ToldSpaced ==
  ASSUME NEW s \in Nat, NEW n \in Nat, NEW f \in Nat, NEW k \in Nat,
         s + SCAL = f + k * SCAL, Told(s, n, f) > f
  PROVE  Told(s, n, f) <= Told(s, n + 1, f) + SCAL
<1>1. SCAL \in Nat /\ SCAL > 1
  BY StepAssumption
<1>2. n * SCAL \in Nat /\ (n + 1) * SCAL = n * SCAL + SCAL /\ k * SCAL \in Nat
  BY <1>1
<1>3. Told(s, n, f) = s - n * SCAL /\ s - n * SCAL > f
  BY <1>1, <1>2 DEF Told
<1>4. s >= (n + 1) * SCAL + f
  <2>1. k * SCAL > (n + 1) * SCAL
    BY <1>1, <1>2, <1>3
  <2>2. k >= n + 2
    <3>1. SUFFICES ASSUME k <= n + 1
                   PROVE  FALSE
      OBVIOUS
    <3>2. PICK d \in Nat : n + 1 = k + d
      BY <3>1
    <3>3. (n + 1) * SCAL = k * SCAL + d * SCAL /\ d * SCAL \in Nat
      BY <1>1, <3>2
    <3>4. QED BY <1>2, <2>1, <3>3
  <2>3. PICK d \in Nat : k = n + 2 + d
    BY <2>2
  <2>4. k * SCAL = (n + 1) * SCAL + SCAL + d * SCAL /\ d * SCAL \in Nat
    BY <1>1, <2>3
  <2>5. QED BY <1>1, <1>2, <2>4
<1>5. Told(s, n + 1, f) = s - (n + 1) * SCAL
  BY <1>1, <1>2, <1>4 DEF Told
<1>6. QED BY <1>1, <1>2, <1>3, <1>5

LEMMA ToldFalls ==
  ASSUME NEW s \in Nat, NEW n \in Nat, NEW k \in Nat, NEW f \in Nat, n <= k
  PROVE  Told(s, k, f) <= Told(s, n, f)
<1>1. SCAL \in Nat /\ n * SCAL \in Nat /\ k * SCAL \in Nat
  BY StepAssumption
<1>2. n * SCAL <= k * SCAL
  <2>1. PICK d \in Nat : k = n + d
    OBVIOUS
  <2>2. k * SCAL = n * SCAL + d * SCAL /\ d * SCAL \in Nat
    BY <1>1, <2>1
  <2>3. QED BY <1>1, <2>2
<1>3. QED BY <1>1, <1>2 DEF Told

\* What is compared next.
LEMMA ToldLate ==
  ASSUME NEW s \in Nat, NEW f \in Nat
  PROVE  /\ Told(s, Settled, f) \in Nat /\ Told(s, Lag + 1, f) \in Nat
         /\ Told(s + SCAL, Settled, f) = Told(s, Lag + 1, f)
         /\ Told(s, Settled, f) <= Told(s, Lag + 1, f)
<1>1. PICK n \in Nat : n = Lag + 1 /\ Settled = n + 1
  BY StepAssumption DEF Settled
<1>2. /\ Told(s, n, f) \in Nat /\ Told(s, n + 1, f) <= Told(s, n, f)
      /\ Told(s + SCAL, n + 1, f) = Told(s, n, f)
  BY ToldSteps
<1>3. Told(s, n + 1, f) \in Nat
  BY ToldSteps
<1>4. QED BY <1>1, <1>2, <1>3

\* A frame moves the steps on.
LEMMA Tells ==
  ASSUME TypeOK, Tell, END_STEP' \in Step
  PROVE  /\ lens'[Lag + 1] = (IF READY' THEN END_STEP' ELSE lens[Lag + 1]) /\ Head(lens) = lens[1]
         /\ \A j \in 1 .. Lag : lens'[j] = lens[j + 1]
         /\ \A j \in 1 .. Lag + 1 : lens[j] \in Step
<1>. Lag \in Nat \ {0}
  BY StepAssumption
<1>1. lens \in Seq(Step) /\ Len(lens) = Lag + 1 /\ lens[Lag + 1] \in Step
  BY DEF TypeOK
<1>2. /\ Tail(lens) \in Seq(Step) /\ Len(Tail(lens)) = Lag
      /\ \A j \in 1 .. Lag : Tail(lens)[j] = lens[j + 1]
  BY <1>1
<1>3. QED BY <1>1, <1>2 DEF Tell

\* The counts the contrasts lead up to.
LEMMA ContrastClimbs ==
  ASSUME NEW s \in Nat, NEW t \in Nat, NEW b \in Nat, s <= t, t <= b
  PROVE  Contrast(s, b) <= Contrast(t, b)
BY StepAssumption DEF Contrast

LEMMA LateIs ==
  /\ Late \in Nat /\ Late = (Lag + 1) * SCAL + SCAL /\ (Lag + 1) * SCAL \in Nat
  /\ Late >= SCAL /\ Settled \in Nat /\ Settled = Lag + 2
  /\ \A n \in Nat : n * SCAL \in Nat
BY StepAssumption DEF Late, Settled

\* What a frame does to the steps of the lens and to what is counted there.
LEMMA FrameTells ==
  ASSUME IInv, Frame
  PROVE  /\ lens'[Lag + 1] = IF READY' THEN END_STEP' ELSE lens[Lag + 1]
         /\ \A j \in 1 .. Lag : lens'[j] = lens[j + 1]
         /\ \A j \in 1 .. Lag + 1 : lens[j] \in Nat
         /\ SUM' = Contrast(lens[1], best)
         /\ best' = best /\ best \in Nat /\ AUTO_FOC' = AUTO_FOC
         /\ AUTO_FOC => calm' = calm
<1>1. END_STEP' \in Step
  <2>1. IInv'
    BY FrameInv
  <2>2. STEP_f' \in 0 .. 2 * STEPS - 1 /\ STEP_i' \in 0 .. 2 * STEPS - 1 /\ STEP_UP' \in Step
    BY <2>1, HalfType, StepAssumption DEF IInv, TypeOK
  <2>3. Cut(STEP_f') \in Step /\ Cut(STEP_i') \in Step
    BY <2>2, CutType
  <2>4. QED BY <2>2, <2>3 DEF END_STEP, STEP
<1>2. TypeOK /\ Tell
  BY DEF IInv, Frame
<1>3. /\ lens'[Lag + 1] = (IF READY' THEN END_STEP' ELSE lens[Lag + 1]) /\ Head(lens) = lens[1]
      /\ \A j \in 1 .. Lag : lens'[j] = lens[j + 1]
      /\ \A j \in 1 .. Lag + 1 : lens[j] \in Step
  BY <1>1, <1>2, Tells
<1>4. SUM' = Contrast(lens[1], best)
  BY <1>3, SharpnessIs DEF Frame, Peak
<1>5. best' = best /\ AUTO_FOC' = AUTO_FOC /\ (AUTO_FOC => calm' = calm)
  BY DEF Frame
<1>6. best \in Nat
  BY <1>2 DEF TypeOK, Step
<1>7. QED BY <1>3, <1>4, <1>5, <1>6 DEF Step

-----------------------------------------------------------------------------
LEMMA InitSearch ==
  ASSUME Init
  PROVE  SearchInv
<1>. USE StepAssumption DEF Init
<1>1. \A j \in 1 .. Lag + 1 : lens[j] = 0
  OBVIOUS
<1>2. SUM = Contrast(0, best)
  BY SharpnessIs
<1>3. QED BY <1>1, <1>2 DEF SearchInv, Resting, Sweeping, Refining, FoundBehindBest

\* Nothing of the search is left of a scene, a bus or an AUTO_FOC that changes.
LEMMA EventSearch ==
  ASSUME IInv, SearchInv, Drop \/ Lose \/ Scene
  PROVE  SearchInv'
<1>. USE StepAssumption DEF SearchInv
<1>1. calm' = 0 /\ Settled # 0
  BY DEF Drop, Lose, Scene, Event, Settled
<1>2. Resting'
  <2>1. ~AUTO_FOC' => from' = 0 /\ STEP_i' = 0 /\ ~V_C' /\ ~GO_F'
    BY DEF Drop, Lose, Stop, Scene, counter, Resting
  <2>2. QED BY <1>1, <2>1 DEF Resting
<1>3. Sweeping' /\ Refining' /\ FoundBehindBest'
  BY <1>1 DEF Sweeping, Refining, FoundBehindBest, Settled
<1>4. QED BY <1>2, <1>3

\* A search begins at step 0, where the lens has been all the time.
LEMMA RiseSearch ==
  ASSUME IInv, SearchInv, Rise
  PROVE  SearchInv'
<1>. USE StepAssumption
<1>1. /\ ~AUTO_FOC /\ AUTO_FOC'
      /\ UNCHANGED <<STEP_i, STEP_f, V_C, VCM_END, GO_F, SUM, peakSUM, STEP_UP, rGO_F>>
      /\ UNCHANGED <<lens, best, calm, from, READY>>
  BY DEF Rise, bus, counter, peak
<1>2. from = 0 /\ STEP_i = 0 /\ ~V_C /\ ~GO_F /\ ~VCM_END
  BY <1>1 DEF SearchInv, Resting, IInv, Phases
<1>3. ASSUME calm = Settled
      PROVE  /\ \A j \in 1 .. Lag + 1 : lens[j] = 0
             /\ peakSUM = 0 /\ ~rGO_F /\ SUM = Contrast(0, best)
  <2>1. \A j \in 1 .. Lag + 1 : j + calm > Lag + 1
    BY <1>3 DEF Settled
  <2>2. calm >= 1
    BY <1>3 DEF Settled
  <2>3. QED BY <1>1, <1>3, <2>1, <2>2 DEF SearchInv, Resting
<1>4. \A n \in Nat : Told(0, n, 0) = 0
  BY ToldSteps
<1>5. Sweeping'
  <2>1. ASSUME calm = Settled
        PROVE  /\ \A j \in 1 .. Lag + 1 : lens[j] = Told(0, Lag + 1 - j, 0)
               /\ SUM = Contrast(Told(0, Lag + 1, 0), best)
    BY <1>3, <1>4, <2>1
  <2>2. Starting'
    <3>1. 0 + SCAL = 0 + 1 * SCAL /\ 1 \in Nat
      OBVIOUS
    <3>2. QED BY <1>1, <1>2, <3>1 DEF Starting
  <2>3. QED BY <1>1, <1>2, <1>3, <2>1, <2>2 DEF Sweeping
<1>6. Resting' /\ Refining' /\ FoundBehindBest'
  BY <1>1, <1>2 DEF Resting, Refining, FoundBehindBest
<1>7. QED BY <1>5, <1>6 DEF SearchInv

-----------------------------------------------------------------------------
(***************************************************************************)
(* The frames of a search.                                                 *)
(***************************************************************************)

\* Without AUTO_FOC the lens goes back to step 0 and the counts forget.
LEMMA RestFrame ==
  ASSUME IInv, SearchInv, Frame, ~AUTO_FOC
  PROVE  SearchInv'
<1>. USE StepAssumption
<1>1. ~V_C /\ STEP_i = 0
  BY DEF SearchInv, Resting
<1>2. /\ ~AUTO_FOC' /\ STEP_i' = 0 /\ ~V_C' /\ ~VCM_END' /\ ~GO_F' /\ ~rGO_F' /\ peakSUM' = 0
      /\ from' = 0
  BY <1>1 DEF Frame, Coarse, Fine, Peak
<1>3. END_STEP' = 0
  BY <1>2 DEF END_STEP, STEP, Cut
<1>4. calm \in 0 .. Settled /\ Settled \in Nat
  BY DEF IInv, TypeOK, Settled
<1>5. calm' = calm \/ (calm' = calm + 1 /\ calm < Settled /\ lens'[Lag + 1] = 0)
  BY Zenon DEF Frame
<1>6. calm >= 1 => lens'[Lag + 1] = 0
  <2>1. calm >= 1 => lens[Lag + 1] = 0
    BY <1>4 DEF SearchInv, Resting
  <2>2. QED BY <1>3, <2>1, FrameTells
<1>7. ASSUME NEW j \in 1 .. Lag + 1, j + calm' > Lag + 1
      PROVE  lens'[j] = 0
  <2>1. CASE j = Lag + 1
    BY <1>4, <1>5, <1>6, <1>7, <2>1
  <2>2. CASE j \in 1 .. Lag
    <3>1. j + 1 + calm > Lag + 1 /\ j + 1 \in 1 .. Lag + 1
      BY <1>4, <1>5, <1>7, <2>2
    <3>2. lens[j + 1] = 0
      BY <3>1 DEF SearchInv, Resting
    <3>3. QED BY <2>2, <3>2, FrameTells
  <2>3. QED BY <2>1, <2>2
<1>8. calm' = Settled => SUM' = Contrast(0, best')
  <2>1. ASSUME calm' = Settled
        PROVE  lens[1] = 0
    <3>1. 1 + calm > Lag + 1 /\ 1 \in 1 .. Lag + 1
      BY <1>4, <1>5, <2>1 DEF Settled
    <3>2. QED BY <3>1 DEF SearchInv, Resting
  <2>2. QED BY <2>1, FrameTells
<1>9. Resting'
  BY <1>2, <1>7, <1>8 DEF Resting
<1>10. Sweeping' /\ Refining' /\ FoundBehindBest'
  BY <1>2 DEF Sweeping, Refining, FoundBehindBest
<1>11. QED BY <1>9, <1>10 DEF SearchInv

\* A frame of the coarse search compares step q, after p, with the highest count.
LEMMA SweepFrame ==
  ASSUME IInv, SearchInv, Frame, AUTO_FOC, calm = Settled, ~V_C, STEP_i <= LIMIT
  PROVE  Sweeping' /\ ~V_C' /\ ~VCM_END'
<1>. USE StepAssumption
<1>. DEFINE s == STEP_i
            t == STEP_i + SCAL
            f == from'
            p == Told(s, Settled, f)
            q == Told(s, Lag + 1, f)
<1>1. /\ s \in Nat /\ t \in Nat /\ f \in Nat /\ from \in Nat
      /\ s \in 0 .. LIMIT /\ best \in Nat /\ best' = best
  <2>1. s \in 0 .. LIMIT + SCAL /\ from \in Nat
    BY DEF IInv, TypeOK
  <2>2. QED BY <2>1, FrameTells, DelayType
<1>2. STEP_i' = t /\ V_C' = FALSE /\ VCM_END' = FALSE /\ GO_F' = FALSE /\ rGO_F' = FALSE
  BY <1>1 DEF Frame, Coarse, Fine, Peak
<1>3. STEP' = t /\ END_STEP' = t
  BY <1>1, <1>2 DEF STEP, END_STEP, Cut
<1>4. Starting /\ READY \in BOOLEAN /\ READY' \in BOOLEAN /\ (READY => READY')
  BY DelayType DEF SearchInv, Sweeping, IInv, TypeOK
<1>5. f = IF READY' THEN from ELSE t + SCAL
  BY <1>2, DelayType
\* What has been told does not depend on the steps that are still missed.
<1>6. ASSUME NEW n \in Nat
      PROVE  Told(s, n, from) = Told(s, n, f)
  <2>1. CASE f = from
    BY <2>1
  <2>2. CASE f # from /\ s = 0
    BY <1>1, <2>2, ToldSteps
  <2>3. CASE f # from /\ s # 0
    <3>1. s < f /\ s < from
      BY <1>1, <1>4, <1>5, <2>3 DEF Starting
    <3>2. QED BY <1>1, <3>1, ToldSteps
  <2>4. QED BY <2>1, <2>2, <2>3
<1>7. from <= f /\ (READY' => f <= t)
  BY <1>1, <1>4, <1>5 DEF Starting
<1>8. /\ \A j \in 1 .. Lag + 1 : lens[j] = Told(s, Lag + 1 - j, f)
      /\ SUM = Contrast(q, best)
      /\ s = 0 => peakSUM = 0
      /\ s > 0 /\ f <= best => Compared(p)
  <2>1. /\ \A j \in 1 .. Lag + 1 : lens[j] = Told(s, Lag + 1 - j, from)
        /\ SUM = Contrast(Told(s, Lag + 1, from), best)
        /\ s = 0 => peakSUM = 0
        /\ s > 0 /\ from <= best => Compared(Told(s, Settled, from))
    BY DEF SearchInv, Sweeping
  <2>2. s > 0 /\ f <= best => Compared(p)
    BY <1>1, <1>6, <1>7, <2>1 DEF Settled
  <2>3. ASSUME NEW j \in 1 .. Lag + 1
        PROVE  lens[j] = Told(s, Lag + 1 - j, f)
    <3>1. lens[j] = Told(s, Lag + 1 - j, from) /\ Lag + 1 - j \in Nat
      BY <2>1
    <3>2. QED BY <1>6, <3>1
  <2>4. QED BY <1>6, <2>1, <2>2, <2>3
<1>9. ASSUME NEW j \in 1 .. Lag + 1
      PROVE  lens'[j] = Told(t, Lag + 1 - j, f)
  <2>1. CASE j = Lag + 1
    <3>1. Told(t, 0, f) = (IF t < f THEN 0 ELSE t) /\ Told(s, 0, f) = (IF s < f THEN 0 ELSE s)
      BY <1>1, ToldSteps
    <3>2. lens[Lag + 1] = Told(s, 0, f)
      <4>1. Lag + 1 \in 1 .. Lag + 1 /\ Lag + 1 - (Lag + 1) = 0
        OBVIOUS
      <4>2. QED BY <1>8, <4>1
    <3>3. CASE READY'
      BY <1>1, <1>3, <1>7, <2>1, <3>1, <3>3, FrameTells
    <3>4. CASE ~READY'
      <4>1. t < f /\ s < f
        BY <1>1, <1>5, <3>4
      <4>2. lens'[Lag + 1] = lens[Lag + 1]
        BY <3>4, FrameTells
      <4>3. QED BY <2>1, <3>1, <3>2, <4>1, <4>2
    <3>5. QED BY <3>3, <3>4
  <2>2. CASE j \in 1 .. Lag
    <3>1. lens[j + 1] = Told(s, Lag - j, f)
      BY <1>8, <2>2
    <3>2. Told(t, Lag - j + 1, f) = Told(s, Lag - j, f)
      BY <1>1, <2>2, ToldSteps
    <3>3. QED BY <2>2, <3>1, <3>2, FrameTells
  <2>3. QED BY <2>1, <2>2
<1>10. SUM' = Contrast(Told(t, Lag + 1, f), best)
  <2>1. Told(t, Lag + 1, f) = Told(s, Lag, f)
    BY <1>1, ToldSteps
  <2>. HIDE DEF s, f
  <2>2. lens[1] = Told(s, Lag, f)
    BY <1>8
  <2>3. QED BY <2>1, <2>2, FrameTells
<1>11. PICK k \in Nat : s + SCAL = from + k * SCAL
  BY <1>4 DEF Starting
<1>12. Starting'
  <2>1. CASE READY'
    <3>1. t + SCAL = f + (k + 1) * SCAL /\ k + 1 \in Nat
      <4>1. (k + 1) * SCAL = k * SCAL + SCAL /\ k * SCAL \in Nat
        OBVIOUS
      <4>2. f = from /\ t + SCAL = s + SCAL + SCAL
        BY <1>5, <2>1
      <4>. HIDE DEF f, t, s
      <4>3. QED BY <1>1, <1>11, <4>1, <4>2
    <3>2. \E n \in Nat : t + SCAL = f + n * SCAL
      BY <3>1
    <3>3. t # 0 /\ f <= t
      BY <1>1, <1>7, <2>1
    <3>4. QED BY <1>2, <2>1, <3>2, <3>3 DEF Starting
  <2>2. CASE ~READY'
    <3>1. t + SCAL = f + 0 * SCAL /\ 0 \in Nat /\ t # 0
      BY <1>1, <1>5, <2>2
    <3>2. QED BY <1>1, <1>2, <1>5, <2>2, <3>1 DEF Starting
  <2>3. QED BY <2>1, <2>2
<1>13. /\ Told(t, Settled, f) = q /\ p \in Nat /\ q \in Nat
       /\ p <= q
       /\ q > f => q <= p + SCAL
       /\ p < q => t = q + Late
  <2>1. Settled = Lag + 1 + 1 /\ Lag + 1 \in Nat
    BY DEF Settled
  <2>2. p < q => s = q + (Lag + 1) * SCAL
    BY <1>1, <2>1, ToldSteps
  <2>3. p < q => t = q + Late
    <3>. DEFINE d == (Lag + 1) * SCAL
    <3>1. d \in Nat /\ Late = d + SCAL /\ (p < q => s = q + d)
      BY <2>2, LateIs
    <3>2. q \in Nat
      BY <1>1, <2>1, ToldSteps
    <3>. HIDE DEF d, p, q
    <3>3. QED BY <1>1, <3>1, <3>2
  <2>4. q > f => q <= p + SCAL
    <3>1. CASE f = from
      BY <1>1, <1>11, <2>1, <3>1, ToldSpaced
    <3>2. CASE f # from
      <4>1. s < f
        BY <1>1, <1>5, <3>2
      <4>2. q = 0
        BY <1>1, <2>1, <4>1, ToldSteps
      <4>3. ~(q > f)
        BY <1>1, <4>2
      <4>4. QED BY <4>3
    <3>3. f = from \/ f # from
      OBVIOUS
    <3>. HIDE DEF f, p, q
    <3>4. QED BY <3>1, <3>2, <3>3
  <2>5. Told(t, Settled, f) = q /\ p \in Nat /\ q \in Nat /\ p <= q
    BY <1>1, ToldLate
  <2>6. QED BY <2>3, <2>4, <2>5
<1>14. /\ peakSUM' = IF peakSUM < SUM THEN SUM ELSE peakSUM
      /\ STEP_UP' = IF peakSUM < SUM THEN t ELSE STEP_UP
  BY <1>2, <1>3 DEF Frame, Peak
<1>15. /\ STEP_UP \in Nat /\ STEP_UP' \in Nat /\ peakSUM \in Nat /\ SUM \in Nat
       /\ Late \in Nat /\ Late >= SCAL
  BY <1>1, <1>14, LateIs DEF IInv, TypeOK, Step
<1>16. Contrast(p, best) \in Nat /\ Contrast(q, best) \in Nat
  <2>1. Contrast(p, best) \in 0 .. Depth
    BY <1>1, <1>13, ContrastType
  <2>2. Contrast(q, best) \in 0 .. Depth
    BY <1>1, <1>13, ContrastType
  <2>3. QED BY <2>1, <2>2
<1>17. ASSUME f <= best, q <= best
       PROVE  /\ peakSUM' = Contrast(q, best)
              /\ peakSUM' > 0 => q + SCAL <= STEP_UP' /\ STEP_UP' <= q + Late
  <2>1. CASE s = 0
    <3>1. q = 0 /\ t = SCAL
      BY <1>1, <2>1, ToldSteps
    <3>2. QED BY <1>8, <1>14, <1>15, <1>16, <2>1, <3>1
  <2>2. CASE s > 0
    <3>1. Climbing(p)
      BY <1>1, <1>8, <1>13, <1>17, <2>2 DEF Compared
    <3>2. CASE p = q
      BY <1>8, <1>14, <1>15, <1>16, <3>1, <3>2 DEF Climbing
    <3>3. CASE p < q /\ Contrast(q, best) > 0
      <4>1. Contrast(p, best) < Contrast(q, best)
        BY <1>1, <1>13, <1>17, <3>3, ContrastRises
      <4>2. QED BY <1>8, <1>13, <1>14, <1>15, <3>1, <3>3, <4>1 DEF Climbing
    <3>4. CASE ~(Contrast(q, best) > 0)
      <4>1. Contrast(p, best) <= Contrast(q, best)
        BY <1>1, <1>13, <1>17, ContrastClimbs
      <4>2. QED BY <1>8, <1>14, <1>15, <1>16, <3>1, <3>4, <4>1 DEF Climbing
    <3>5. QED BY <1>13, <3>2, <3>3, <3>4
  <2>3. QED BY <1>1, <2>1, <2>2
<1>18. ASSUME f <= best, q > best
       PROVE  /\ Contrast(q, best) <= peakSUM'
              /\ best + SCAL <= STEP_UP' + Half /\ STEP_UP' <= best + Late + Half
  <2>1. s > 0
    BY <1>1, <1>18, ToldSteps
  <2>2. CASE p > best
    <3>1. Passed(p)
      BY <1>8, <1>18, <2>1, <2>2 DEF Compared
    <3>2. Contrast(q, best) <= Contrast(p, best)
      BY <1>1, <1>13, <2>2, ContrastFalls
    <3>3. ~(peakSUM < SUM)
      BY <1>8, <1>15, <1>16, <3>1, <3>2 DEF Passed
    <3>4. QED BY <1>8, <1>14, <1>15, <3>1, <3>3 DEF Passed, Near
  <2>3. CASE p <= best
    <3>1. Climbing(p) /\ p < q
      BY <1>1, <1>8, <1>13, <1>18, <2>1, <2>3 DEF Compared
    <3>2. IF Contrast(p, best) < Contrast(q, best)
          THEN q <= best + Half
          ELSE best <= p + Half /\ Contrast(p, best) > 0
      BY <1>1, <1>13, <1>18, <2>3, ContrastPeak
    <3>3. CASE Contrast(p, best) < Contrast(q, best)
      BY <1>1, <1>8, <1>13, <1>14, <1>15, <1>16, <1>18, <3>1, <3>2, <3>3, Halves DEF Climbing
    <3>4. CASE ~(Contrast(p, best) < Contrast(q, best))
      <4>1. best <= p + Half /\ Contrast(p, best) > 0
        BY <3>2, <3>4
      <4>2. ~(peakSUM < SUM) /\ Contrast(q, best) <= peakSUM /\ peakSUM > 0
        <5>. HIDE DEF p, q
        <5>1. QED BY <1>8, <1>15, <1>16, <3>1, <3>4, <4>1 DEF Climbing
      <4>3. p + SCAL <= STEP_UP /\ STEP_UP <= p + Late
        BY <3>1, <4>2 DEF Climbing
      <4>4. peakSUM' = peakSUM /\ STEP_UP' = STEP_UP
        BY <1>14, <4>2
      <4>. HIDE DEF p, q
      <4>5. QED BY <1>1, <1>13, <1>15, <2>3, <4>1, <4>2, <4>3, <4>4, Halves
    <3>5. QED BY <3>3, <3>4
  <2>4. QED BY <1>1, <1>13, <2>2, <2>3
<1>19. f <= best => Compared(Told(STEP_i, Settled, from))'
  BY <1>1, <1>2, <1>13, <1>17, <1>18 DEF Compared, Climbing, Passed, Near
<1>20. t > 0 /\ t >= SCAL
  BY <1>1
<1>21. Sweeping'
  <2>. HIDE DEF t
  <2>1. QED BY <1>1, <1>2, <1>9, <1>10, <1>12, <1>19, <1>20 DEF Sweeping
<1>22. QED BY <1>2, <1>21

\* The first frame behind the coarse search: the fine one begins half a coarse step
\* below the peak.
LEMMA TurnFrame ==
  ASSUME IInv, SearchInv, Frame, AUTO_FOC, calm = Settled, ~V_C, STEP_i > LIMIT
  PROVE  Refining' /\ V_C' /\ ~VCM_END'
<1>. USE StepAssumption
<1>. DEFINE s == STEP_i
            p == Told(s, Settled, from)
            q == Told(s, Lag + 1, from)
<1>1. s \in Nat /\ s > LIMIT /\ from \in Nat /\ best \in Nat /\ best' = best
  <2>1. s \in 0 .. LIMIT + SCAL /\ from \in Nat
    BY DEF IInv, TypeOK
  <2>2. QED BY <2>1, FrameTells
<1>2. /\ V_C' = TRUE /\ VCM_END' = FALSE /\ GO_F' = FALSE /\ rGO_F' = FALSE
      /\ STEP_f' = FineStart /\ STEP_i' = s
  BY <1>1 DEF Frame, Coarse, Fine, Peak
<1>3. SUFFICES ASSUME READY', from <= best, best + Late <= LIMIT
               PROVE  \E b, m \in Nat : Refines(b, m)'
  <2>1. Late' = Late
    BY DEF Late, Settled
  <2>2. from' <= best /\ best + Late <= LIMIT => READY' /\ from' = from
    BY <1>1, <1>2, DelayType, LateIs
  <2>3. QED BY <1>1, <1>2, <1>3, <2>1, <2>2 DEF Refining
<1>4. p \in Nat /\ q \in Nat /\ best < p /\ p <= q
  <2>1. Settled = Lag + 1 + 1 /\ Lag + 1 \in Nat /\ Late = Settled * SCAL
    BY DEF Settled, Late
  <2>2. p = s - Late
    BY <1>1, <1>3, <2>1, LateIs DEF Told
  <2>3. best < p
    BY <1>1, <1>3, <2>2, LateIs
  <2>4. Told(s, Lag + 1 + 1, from) <= Told(s, Lag + 1, from) /\ q \in Nat
    BY <1>1, <2>1, ToldSteps
  <2>5. p \in Nat
    BY <1>1, <2>1, ToldSteps
  <2>6. QED BY <2>1, <2>3, <2>4, <2>5
<1>5. /\ \A j \in 1 .. Lag + 1 : lens[j] = Told(s, Lag + 1 - j, from)
      /\ SUM = Contrast(q, best) /\ Passed(p) /\ ~rGO_F
  BY <1>1, <1>3, <1>4 DEF SearchInv, Sweeping, Compared
<1>6. STEP_UP \in Nat /\ peakSUM \in Nat /\ SUM \in Nat
  BY DEF IInv, TypeOK, Step
<1>7. STEP_UP' = STEP_UP
  <2>1. Contrast(q, best) <= Contrast(p, best)
    BY <1>1, <1>4, ContrastFalls
  <2>2. Contrast(p, best) \in 0 .. Depth /\ Contrast(p, best) <= peakSUM
    BY <1>1, <1>4, <1>5, ContrastType DEF Passed
  <2>. HIDE DEF p, q
  <2>3. ~(peakSUM < SUM)
    BY <1>5, <1>6, <2>1, <2>2
  <2>4. QED BY <1>2, <1>5, <2>3 DEF Frame, Peak
<1>8. PICK b \in Nat : b = STEP_UP - Half /\ best <= b /\ b <= best + Late /\ b <= LIMIT
  <2>1. best + SCAL <= STEP_UP + Half /\ STEP_UP <= best + Late + Half
    BY <1>5 DEF Passed, Near
  <2>2. best <= STEP_UP - Half /\ STEP_UP - Half <= best + Late /\ STEP_UP - Half \in Nat
    BY <1>1, <1>6, <2>1, Halves, LateIs
  <2>3. QED BY <1>1, <1>3, <2>2, LateIs
<1>9. STEP_f' = b /\ STEP_UP' = b + Half
  BY <1>2, <1>6, <1>7, <1>8, Halves DEF FineStart
<1>10. END_STEP' = b
  BY <1>2, <1>8, <1>9 DEF END_STEP, STEP, Cut
<1>11. ASSUME NEW j \in 1 .. Lag
       PROVE  lens'[j] = Told(s, Lag - j, from) /\ lens'[j] \in Nat /\ best <= lens'[j]
  <2>1. lens'[j] = Told(s, Lag - j, from)
    BY <1>5, FrameTells
  <2>2. p <= Told(s, Lag - j, from)
    BY <1>1, ToldFalls DEF Settled
  <2>3. Told(s, Lag - j, from) \in Nat
    BY <1>1, ToldSteps
  <2>4. QED BY <1>1, <1>4, <2>1, <2>2, <2>3
<1>12. lens'[Lag + 1] = b
  BY <1>3, <1>10, FrameTells
<1>13. FineTells(b, 0)'
  BY <1>1, <1>8, <1>11, <1>12 DEF FineTells
<1>14. ASSUME NEW j \in 1 .. Lag, NEW i \in 1 .. j
       PROVE  Contrast(lens'[j], best) <= Contrast(lens'[i], best)
  <2>1. Told(s, Lag - i, from) <= Told(s, Lag - j, from)
    BY <1>1, ToldFalls
  <2>2. lens'[i] <= lens'[j] /\ lens'[i] \in Nat /\ best <= lens'[i] /\ lens'[j] \in Nat
    BY <1>11, <2>1
  <2>3. QED BY <1>1, <2>2, ContrastFalls
<1>15. ASSUME NEW j \in 1 .. Lag
       PROVE  Contrast(lens'[j], best) <= SUM'
  <2>1. SUM' = Contrast(Told(s, Lag, from), best)
    BY <1>5, FrameTells
  <2>2. Told(s, Lag, from) <= Told(s, Lag - j, from) /\ p <= Told(s, Lag, from)
    BY <1>1, ToldFalls DEF Settled
  <2>3. Told(s, Lag, from) \in Nat
    BY <1>1, ToldSteps
  <2>4. QED BY <1>1, <1>4, <1>11, <2>1, <2>2, <2>3, ContrastFalls
<1>16. CoarseFades(0)'
  BY <1>1, <1>14, <1>15 DEF CoarseFades
<1>17. FineCounts(b, 0)' /\ FineUp(b, 0)'
  BY <1>9 DEF FineCounts, FineUp, Settled
<1>18. Refines(b, 0)'
  <2>1. Late' = Late
    BY DEF Late, Settled
  <2>2. STEP_f' = b + 0
    BY <1>9
  <2>3. rGO_F' = GO_F' /\ ~GO_F'
    BY <1>2
  <2>4. best' <= b /\ b <= best' + Late'
    BY <1>1, <1>8, <2>1
  <2>5. QED BY <2>2, <2>3, <2>4, <1>13, <1>16, <1>17 DEF Refines
<1>19. QED BY <1>18

\* The fine search is never far from where it began.
LEMMA FineBound ==
  ASSUME NEW b \in Nat, NEW m \in Nat, FineUp(b, m), b + m <= STEP_UP + Half
  PROVE  /\ m + 1 <= Lag + 1 + 2 * SCAL
         /\ m <= Lag + 1 => m + 1 <= 2 * SCAL
BY StepAssumption, Halves DEF FineUp, Settled

LEMMA Beyond ==
  ASSUME NEW s \in Nat, NEW d \in Nat, NEW b \in Nat, NEW e \in Nat, NEW l \in Nat,
         s > l, s + d <= b, b + e <= l
  PROVE  FALSE
OBVIOUS

\* A lens that was told nothing in the coarse search has missed every step.
LEMMA FineKeeps ==
  ASSUME IInv, Frame, V_C, best \in Nat
  PROVE  from' <= best /\ best + Late <= LIMIT => READY' /\ from' = from
<1>1. AUTO_FOC /\ STEP_i' > LIMIT /\ STEP_i' \in Nat
  BY CoarseType DEF IInv, Phases
<1>2. from' = IF READY' THEN from ELSE STEP_i' + SCAL
  BY <1>1, DelayType
<1>3. SUFFICES ASSUME from' <= best, best + Late <= LIMIT
               PROVE  READY' /\ from' = from
  OBVIOUS
<1>4. READY'
  <2>1. SUFFICES ASSUME ~READY'
                 PROVE  FALSE
    OBVIOUS
  <2>2. from' = STEP_i' + SCAL
    BY <1>2, <2>1
  <2>3. Late \in Nat /\ SCAL \in Nat /\ LIMIT \in Nat
    BY LateIs, StepAssumption
  <2>4. QED BY <1>1, <1>3, <2>2, <2>3, Beyond
<1>5. QED BY <1>2, <1>4

\* A frame of the fine search tells the step behind the last one.
LEMMA FineFrame ==
  ASSUME IInv, SearchInv, Frame, calm = Settled, V_C, ~VCM_END, STEP_f <= STEP_UP + Half
  PROVE  Refining' /\ V_C' /\ ~VCM_END'
<1>. USE StepAssumption
<1>1. AUTO_FOC /\ best \in Nat /\ best' = best
  BY FrameTells DEF IInv, Phases
<1>2. V_C' = TRUE
  BY <1>1 DEF Frame, Coarse, IInv, TypeOK
<1>3. VCM_END' = FALSE /\ GO_F' = TRUE /\ rGO_F' = TRUE /\ STEP_f' = STEP_f + 1
  <2>1. ~(STEP_f > STEP_UP + Half) /\ VCM_END = FALSE
    BY HalfType DEF IInv, TypeOK, Step
  <2>2. VCM_END' = VCM_END /\ GO_F' = TRUE /\ STEP_f' = STEP_f + 1
    BY <2>1 DEF Frame, Fine
  <2>3. QED BY <2>1, <2>2 DEF Frame, Peak
<1>4. SUFFICES ASSUME READY', from <= best, best + Late <= LIMIT
               PROVE  \E b, m \in Nat : Refines(b, m)'
  <2>1. Late' = Late
    BY DEF Late, Settled
  <2>2. from' <= best /\ best + Late <= LIMIT => READY' /\ from' = from
    BY <1>1, FineKeeps
  <2>3. QED BY <1>1, <1>2, <1>3, <1>4, <2>1, <2>2 DEF Refining
<1>5. PICK b \in Nat, m \in Nat : Refines(b, m)
  BY <1>4 DEF SearchInv, Refining
<1>6. /\ STEP_f = b + m /\ best <= b /\ b <= best + Late
      /\ rGO_F = GO_F /\ (GO_F <=> m >= 1)
      /\ FineTells(b, m) /\ CoarseFades(m) /\ FineCounts(b, m) /\ FineUp(b, m)
  BY <1>5 DEF Refines
<1>7. /\ m + 1 <= Lag + 1 + 2 * SCAL
      /\ m <= Lag + 1 => m + 1 <= 2 * SCAL
  BY <1>6, FineBound
<1>8. b <= LIMIT
  BY <1>1, <1>4, <1>6, LateIs
<1>9. ASSUME m + 1 <= 2 * SCAL
      PROVE  STEP' = b + m + 1 /\ END_STEP' = b + m + 1
  <2>1. STEP_f' = b + m + 1 /\ b + m + 1 < STEPS
    BY <1>3, <1>6, <1>8, <1>9, SceneAssumption
  <2>2. QED BY <1>2, <1>3, <2>1 DEF STEP, END_STEP, Cut
<1>10. FineTells(b, m + 1)'
  <2>1. ASSUME NEW j \in 1 .. Lag + 1
        PROVE  /\ m + 1 + j < Lag + 1 => best <= lens'[j]
               /\ m + 1 + j >= Lag + 1 /\ m + 1 + j <= Lag + 1 + 2 * SCAL =>
                    lens'[j] = b + (m + 1) + j - (Lag + 1)
    <3>1. CASE j \in 1 .. Lag
      <4>1. lens'[j] = lens[j + 1] /\ j + 1 \in 1 .. Lag + 1
        BY <3>1, FrameTells
      <4>2. /\ m + (j + 1) < Lag + 1 => best <= lens[j + 1]
            /\ m + (j + 1) >= Lag + 1 /\ m + (j + 1) <= Lag + 1 + 2 * SCAL =>
                 lens[j + 1] = b + m + (j + 1) - (Lag + 1)
        BY <1>6, <4>1 DEF FineTells
      <4>3. QED BY <4>1, <4>2
    <3>2. CASE j = Lag + 1
      <4>1. m + 1 + j <= Lag + 1 + 2 * SCAL => lens'[j] = b + m + 1
        BY <1>4, <1>9, <3>2, FrameTells
      <4>2. QED BY <3>2, <4>1
    <3>3. QED BY <3>1, <3>2
  <2>2. QED BY <1>1, <2>1 DEF FineTells
\* The counts.
<1>11. STEP_UP \in Nat /\ peakSUM \in Nat /\ SUM \in Nat
  BY DEF IInv, TypeOK, Step
<1>12. /\ m = 0 => STEP_UP' = STEP_UP
       /\ m >= 1 => /\ peakSUM' = IF peakSUM < SUM THEN SUM ELSE peakSUM
                    /\ STEP_UP' = IF peakSUM < SUM THEN STEP' ELSE STEP_UP
  BY <1>1, <1>3, <1>6 DEF Frame, Peak
<1>13. \A s \in Nat : Contrast(s, best) \in Nat
  <2>1. ASSUME NEW s \in Nat
        PROVE  Contrast(s, best) \in 0 .. Depth
    BY <1>1, ContrastType
  <2>2. QED BY <2>1
<1>14. m > Lag => SUM = Contrast(b + m - (Lag + 1), best)
  BY <1>6, <1>7 DEF FineCounts
<1>15. m >= Settled => ~(peakSUM < SUM)
  <2>1. SUFFICES ASSUME m >= Settled
                 PROVE  ~(peakSUM < SUM)
    OBVIOUS
  <2>2. PICK k \in Nat : k = b + m - (Lag + 1) /\ b <= k
    <3>1. b + m - (Lag + 1) \in Nat /\ b <= b + m - (Lag + 1)
      BY <2>1 DEF Settled
    <3>2. QED BY <3>1
  <2>3. SUM = Contrast(k, best)
    BY <1>14, <2>1, <2>2 DEF Settled
  <2>4. Contrast(k, best) <= Contrast(b, best)
    BY <1>1, <1>6, <2>2, ContrastFalls
  <2>5. Contrast(b, best) <= peakSUM
    BY <1>6, <2>1 DEF FineCounts
  <2>6. QED BY <1>11, <1>13, <2>3, <2>4, <2>5
<1>16. m >= 2 /\ m <= Lag => ~(peakSUM < SUM)
  BY <1>6, <1>11 DEF FineCounts
<1>17. ASSUME NEW j \in 1 .. Lag, m + 1 + j < Lag + 1
       PROVE  /\ \A i \in 1 .. j : Contrast(lens'[j], best) <= Contrast(lens'[i], best)
              /\ m + 1 <= 1 => Contrast(lens'[j], best) <= SUM'
              /\ m + 1 >= 2 => Contrast(lens'[j], best) <= peakSUM'
  <2>1. lens'[j] = lens[j + 1] /\ j + 1 \in 1 .. Lag + 1 /\ m + (j + 1) < Lag + 1
    BY <1>17, FrameTells
  <2>2. /\ \A i \in 1 .. j + 1 : Contrast(lens[j + 1], best) <= Contrast(lens[i], best)
        /\ m <= 1 => Contrast(lens[j + 1], best) <= SUM
        /\ m >= 2 => Contrast(lens[j + 1], best) <= peakSUM
    BY <1>6, <2>1 DEF CoarseFades
  <2>3. \A i \in 1 .. j : lens'[i] = lens[i + 1] /\ i + 1 \in 1 .. j + 1
    BY FrameTells
  <2>4. SUM' = Contrast(lens[1], best) /\ 1 \in 1 .. j + 1
    BY FrameTells
  <2>5. Contrast(lens[j + 1], best) \in Nat
    BY <1>13, <2>1, FrameTells
  <2>6. m + 1 >= 2 => Contrast(lens[j + 1], best) <= peakSUM'
    BY <1>11, <1>12, <2>2, <2>5
  <2>7. QED BY <2>1, <2>2, <2>3, <2>4, <2>6
<1>18. CoarseFades(m + 1)'
  <2>1. \A j \in 1 .. Lag + 1 : m + 1 + j < Lag + 1 => j \in 1 .. Lag
    OBVIOUS
  <2>2. QED BY <1>1, <1>17, <2>1 DEF CoarseFades
<1>19. m + 1 <= Lag /\ m + 1 >= 2 => SUM' <= peakSUM'
  <2>1. SUFFICES ASSUME m + 1 <= Lag, m + 1 >= 2
                 PROVE  SUM' <= peakSUM'
    OBVIOUS
  <2>2. m + 1 < Lag + 1 /\ 1 \in 1 .. Lag + 1
    BY <2>1
  <2>3. /\ m <= 1 => Contrast(lens[1], best) <= SUM
        /\ m >= 2 => Contrast(lens[1], best) <= peakSUM
    BY <1>6, <2>2 DEF CoarseFades
  <2>4. SUM' = Contrast(lens[1], best) /\ Contrast(lens[1], best) \in Nat
    BY <1>13, <2>2, FrameTells
  <2>5. QED BY <1>11, <1>12, <2>1, <2>3, <2>4
<1>20. m + 1 > Lag => SUM' = Contrast(b + (m + 1) - (Lag + 1), best)
  <2>1. SUFFICES ASSUME m + 1 > Lag
                 PROVE  SUM' = Contrast(b + (m + 1) - (Lag + 1), best)
    OBVIOUS
  <2>2. 1 \in 1 .. Lag + 1 /\ m + 1 >= Lag + 1
    BY <2>1
  <2>3. lens[1] = b + m + 1 - (Lag + 1)
    BY <1>6, <1>7, <2>2 DEF FineTells
  <2>4. QED BY <2>3, FrameTells
<1>21. m + 1 >= Settled => Contrast(b, best) <= peakSUM'
  <2>1. CASE m = Lag + 1
    <3>1. SUM = Contrast(b, best)
      BY <1>14, <2>1
    <3>2. QED BY <1>11, <1>12, <2>1, <3>1
  <2>2. CASE m >= Settled
    BY <1>6, <1>12, <1>15, <2>2 DEF FineCounts, Settled
  <2>3. QED BY <2>1, <2>2 DEF Settled
<1>22. FineCounts(b, m + 1)'
  BY <1>1, <1>19, <1>20, <1>21 DEF FineCounts, Settled
<1>23. FineUp(b, m + 1)'
  <2>1. CASE STEP_UP' = STEP_UP
    BY <1>6, <2>1 DEF FineUp, Settled
  <2>2. CASE STEP_UP' # STEP_UP
    <3>1. m = 1 \/ m = Lag + 1
      BY <1>12, <1>15, <1>16, <2>2 DEF Settled
    <3>2. m + 1 <= 2 * SCAL
      BY <1>7, <3>1
    <3>3. STEP_UP' = b + m + 1
      BY <1>9, <1>12, <2>2, <3>2
    <3>4. QED BY <3>1, <3>3 DEF FineUp, Settled
  <2>3. QED BY <2>1, <2>2
<1>24. Refines(b, m + 1)'
  <2>1. STEP_f' = b + (m + 1)
    BY <1>3, <1>6
  <2>2. rGO_F' = GO_F' /\ (GO_F' <=> m + 1 >= 1)
    <3>1. m + 1 >= 1
      OBVIOUS
    <3>2. QED BY <1>3, <3>1
  <2>3. best' <= b /\ b <= best' + Late'
    <3>1. Late' = Late
      BY DEF Late, Settled
    <3>2. QED BY <1>1, <1>6, <3>1
  <2>4. QED BY <1>10, <1>18, <1>22, <1>23, <2>1, <2>2, <2>3 DEF Refines
<1>25. QED BY <1>24

\* The fine search ends where the peak is.
LEMMA EndFrame ==
  ASSUME IInv, SearchInv, Frame, calm = Settled, V_C, ~VCM_END, STEP_f > STEP_UP + Half
  PROVE  FoundBehindBest' /\ V_C' /\ VCM_END'
<1>. USE StepAssumption
<1>1. AUTO_FOC /\ best \in Nat /\ best' = best
  BY FrameTells DEF IInv, Phases
<1>2. V_C' = TRUE /\ VCM_END' = TRUE
  BY <1>1 DEF Frame, Coarse, Fine, IInv, TypeOK
<1>3. STEP_UP' = STEP_UP /\ STEP_UP \in Nat
  BY <1>1, <1>2 DEF Frame, Peak, IInv, TypeOK, Step
<1>4. END_STEP' = STEP_UP
  BY <1>2, <1>3 DEF END_STEP
<1>5. ASSUME from' <= best, best + Late <= LIMIT
      PROVE  best < STEP_UP /\ STEP_UP <= best + Late + Lag + 1 + Half
  <2>1. PICK b \in Nat, m \in Nat : Refines(b, m)
    BY <1>1, <1>5, FineKeeps DEF SearchInv, Refining
  <2>2. best <= b /\ b <= best + Late /\ FineUp(b, m)
    BY <2>1 DEF Refines
  <2>3. STEP_UP = b + Half \/ STEP_UP = b + 2 \/ STEP_UP = b + Lag + 2
    BY <2>2 DEF FineUp, Settled
  <2>4. QED BY <1>1, <2>2, <2>3, Halves, LateIs
<1>6. Late' = Late /\ Half' = Half
  BY DEF Late, Settled, Half
<1>7. QED BY <1>1, <1>2, <1>4, <1>5, <1>6 DEF FoundBehindBest

\* The step that was found stays.
LEMMA FoundFrame ==
  ASSUME IInv, SearchInv, Frame, calm = Settled, VCM_END
  PROVE  FoundBehindBest' /\ V_C' /\ VCM_END'
<1>1. V_C /\ AUTO_FOC /\ best' = best
  BY FrameTells DEF IInv, Phases
<1>2. V_C' /\ VCM_END'
  BY <1>1, FineType, CoarseType
<1>3. END_STEP' = END_STEP
  <2>1. STEP_UP' = STEP_UP
    BY <1>1, <1>2 DEF Frame, Peak
  <2>2. QED BY <1>2, <2>1 DEF END_STEP
<1>4. Late' = Late /\ Half' = Half
  BY DEF Late, Settled, Half
<1>5. from' <= best /\ best + Late <= LIMIT => from' = from
  BY <1>1, FineKeeps, FrameTells
<1>6. QED BY <1>1, <1>2, <1>3, <1>4, <1>5 DEF SearchInv, FoundBehindBest

LEMMA FrameSearch ==
  ASSUME IInv, SearchInv, Frame
  PROVE  SearchInv'
<1>1. CASE ~AUTO_FOC
  BY <1>1, RestFrame
<1>2. CASE AUTO_FOC
  <2>1. AUTO_FOC' /\ calm' = calm /\ Settled' = Settled
    BY <1>2, FrameTells DEF Settled
  <2>2. Resting'
    BY <2>1 DEF Resting
  <2>3. CASE calm # Settled
    BY <2>1, <2>2, <2>3 DEF SearchInv, Sweeping, Refining, FoundBehindBest
  <2>4. CASE calm = Settled /\ ~V_C
    <3>1. CASE STEP_i <= LIMIT
      <4>1. Sweeping' /\ ~V_C' /\ ~VCM_END'
        BY <1>2, <2>4, <3>1, SweepFrame
      <4>2. QED BY <2>2, <4>1 DEF SearchInv, Refining, FoundBehindBest
    <3>2. CASE STEP_i > LIMIT
      <4>1. Refining' /\ V_C' /\ ~VCM_END'
        BY <1>2, <2>4, <3>2, TurnFrame
      <4>2. QED BY <2>2, <4>1 DEF SearchInv, Sweeping, FoundBehindBest
    <3>3. STEP_i <= LIMIT \/ STEP_i > LIMIT
      BY StepAssumption DEF IInv, TypeOK
    <3>4. QED BY <3>1, <3>2, <3>3
  <2>5. CASE calm = Settled /\ V_C /\ ~VCM_END
    <3>1. CASE STEP_f <= STEP_UP + Half
      <4>1. Refining' /\ V_C' /\ ~VCM_END'
        BY <2>5, <3>1, FineFrame
      <4>2. QED BY <2>2, <4>1 DEF SearchInv, Sweeping, FoundBehindBest
    <3>2. CASE STEP_f > STEP_UP + Half
      <4>1. FoundBehindBest' /\ V_C' /\ VCM_END'
        BY <2>5, <3>2, EndFrame
      <4>2. QED BY <2>2, <4>1 DEF SearchInv, Sweeping, Refining
    <3>3. STEP_f <= STEP_UP + Half \/ STEP_f > STEP_UP + Half
      BY StepAssumption, HalfType DEF IInv, TypeOK, Step
    <3>4. QED BY <3>1, <3>2, <3>3
  <2>6. CASE calm = Settled /\ VCM_END
    <3>1. FoundBehindBest' /\ V_C' /\ VCM_END'
      BY <2>6, FoundFrame
    <3>2. QED BY <2>2, <3>1 DEF SearchInv, Sweeping, Refining
  <2>7. QED BY <2>3, <2>4, <2>5, <2>6
<1>3. QED BY <1>1, <1>2

-----------------------------------------------------------------------------
\* A search of a scene that stands still ends behind the sharpest step that it has told
\* the lens, by no more than what the lens and the counts are late: for a lens with any
\* number of steps, any distance of the coarse search, any delay, and a lens that is told
\* nothing for any number of frames.
THEOREM EndsBehindBest == Spec => []FoundBehindBest
<1>1. Init => SearchInv
  BY InitSearch
<1>2. ASSUME IInv, SearchInv, [Next]_vars
      PROVE  SearchInv'
  <2>1. CASE UNCHANGED vars
    BY <1>2, <2>1 DEF vars, bus, counter, peak, SearchInv, Resting, Sweeping, Refining,
      FoundBehindBest, Starting, Told, Compared, Climbing, Passed, Near, Refines, FineTells,
      CoarseFades, FineCounts, FineUp, Settled, Late, Half, END_STEP, STEP, Cut
  <2>2. CASE Configured
    BY <1>2, <2>2 DEF Configured, counter, peak, SearchInv, Resting, Sweeping, Refining,
      FoundBehindBest, Starting, Told, Compared, Climbing, Passed, Near, Refines, FineTells,
      CoarseFades, FineCounts, FineUp, Settled, Late, Half, END_STEP, STEP, Cut
  <2>3. QED BY <1>2, <2>1, <2>2, FrameSearch, EventSearch, RiseSearch DEF Next
<1>3. SearchInv => FoundBehindBest
  BY DEF SearchInv
<1>4. QED BY <1>1, <1>2, <1>3, Invariance, PTL DEF Spec
=============================================================================
