----------------------------- MODULE Autofocus -----------------------------
(***************************************************************************)
(* The search for the sharpest step of the lens: F_VCM counts the steps,   *)
(* VCM_CTRL_P counts the contrasts of each frame and remembers the step of *)
(* the highest count.  A step is a rising edge of VS (F_VCM moves first,   *)
(* VCM_CTRL_P one VIDEO_CLK later), or AUTO_FOC, the scene or the release  *)
(* of the camera's bus changing in between.                                *)
(*                                                                         *)
(* The lens is external: VCM_I2C tells it a step once a frame, but only    *)
(* when I2C_DELAY is ready, and the picture shows it there Lag frames      *)
(* later.  The sharpness of a scene falls off evenly on both sides of its  *)
(* best step.                                                              *)
(***************************************************************************)
EXTENDS Integers, Sequences

CONSTANTS
  STEPS,     \* of the lens (2^10)
  LIMIT,     \* the coarse search ends behind it (0x3f0)
  SCAL,      \* steps between two frames of the coarse search (3)
  Lag,       \* frames from telling the lens a step until the picture shows it
  Depth,     \* sharpness at the best step: distance from it at which no contrast is left
  FocusFrames,  \* frames in the 2.0 s from the release of the bus to AUTO_FOC (120)
  ReadyFrames,  \* frames that I2C_DELAY counts before it is ready (150)
  MaxEvent   \* bound on how often AUTO_FOC or the bus is lost or the scene changes

ASSUME StepAssumption ==
  /\ STEPS \in Nat /\ LIMIT \in Nat /\ SCAL \in Nat /\ SCAL > 1 /\ LIMIT + SCAL < STEPS
  /\ Lag \in Nat \ {0} /\ Depth \in Nat /\ MaxEvent \in Nat
  /\ FocusFrames \in Nat /\ ReadyFrames \in Nat /\ FocusFrames <= ReadyFrames

\* The coarse search ends well below the last step, and the coarse step nearest to the
\* sharpest one still has contrast.
ASSUME SceneAssumption == LIMIT + 2 * SCAL < STEPS /\ Depth > SCAL \div 2

VARIABLES
  I2C_RELEASE, AUTO_FOC,
  DELAY, READY,                        \* I2C_DELAY
  STEP_i, STEP_f, V_C, VCM_END, GO_F,  \* F_VCM
  SUM, peakSUM, STEP_UP, rGO_F,        \* VCM_CTRL_P
  lens,     \* the steps the lens was told: last in this frame; first is what it shows
  best,     \* the sharpest step of the scene
  calm,     \* frames since the last event that were without AUTO_FOC, but with the bus
            \* released and the lens at step 0; up to Settled
  from,     \* the first step of this search that the lens is told; 0 when it is told all
  events    \* events so far

counter == <<STEP_i, STEP_f, V_C, VCM_END, GO_F>>
peak == <<SUM, peakSUM, STEP_UP, rGO_F>>
bus == <<I2C_RELEASE, DELAY, READY>>
vars == <<bus, AUTO_FOC, counter, peak, lens, best, calm, from, events>>

Step == 0 .. STEPS - 1

Sharpness(s) ==
  LET d == IF s < best THEN best - s ELSE s - best IN IF d < Depth THEN Depth - d ELSE 0

\* Until a frame that showed the last step has been compared.
Settled == Lag + 2

\* F_VCM.STEP has eleven bits, what it is connected to has ten.
Cut(s) == IF s < STEPS THEN s ELSE s - STEPS
STEP == Cut(IF V_C THEN STEP_f ELSE STEP_i)
END_STEP == IF VCM_END THEN STEP_UP ELSE STEP

\* Half a coarse step below the peak; in eleven bits it may start again from the top.
Half == SCAL \div 2
FineStart == IF STEP_UP < Half THEN STEP_UP - Half + 2 * STEPS ELSE STEP_UP - Half

\* Power-up: the camera is not configured, the lens is at step 0.
Init ==
  /\ I2C_RELEASE = FALSE /\ AUTO_FOC = FALSE /\ DELAY = 0 /\ READY = FALSE
  /\ STEP_i = 0 /\ V_C = FALSE /\ VCM_END = FALSE /\ GO_F = FALSE
  /\ best \in Step
  /\ SUM = Sharpness(0) /\ peakSUM = 0 /\ STEP_UP = 0 /\ rGO_F = FALSE
  /\ STEP_f = FineStart
  /\ lens = [i \in 1 .. Lag + 1 |-> 0]
  /\ calm = 0 /\ from = 0 /\ events = 0

-----------------------------------------------------------------------------
(***************************************************************************)
(* A rising edge of VS.                                                    *)
(***************************************************************************)
Coarse ==
  IF ~AUTO_FOC THEN UNCHANGED <<STEP_i, V_C>>
  ELSE IF STEP_i > LIMIT
  THEN V_C' = TRUE /\ UNCHANGED STEP_i
  ELSE STEP_i' = STEP_i + SCAL /\ UNCHANGED V_C

\* Mutant: the step has ten bits here, too.
FineNarrow ==
  IF ~V_C
  THEN STEP_f' = FineStart /\ VCM_END' = FALSE /\ GO_F' = FALSE
  ELSE /\ GO_F' = TRUE
       /\ IF STEP_f > STEP_UP + Half
          THEN VCM_END' = TRUE /\ UNCHANGED STEP_f
          ELSE STEP_f' = Cut(STEP_f + 1) /\ UNCHANGED VCM_END

\* Mutant: the end is where the step is, not where it is or has passed.
FineExact ==
  IF ~V_C
  THEN STEP_f' = FineStart /\ VCM_END' = FALSE /\ GO_F' = FALSE
  ELSE /\ GO_F' = TRUE
       /\ IF STEP_f = STEP_UP + Half + 1
          THEN VCM_END' = TRUE /\ UNCHANGED STEP_f
          ELSE STEP_f' = STEP_f + 1 /\ UNCHANGED VCM_END

Fine ==
  IF ~V_C
  THEN STEP_f' = FineStart /\ VCM_END' = FALSE /\ GO_F' = FALSE
  ELSE /\ GO_F' = TRUE
       /\ IF STEP_f > STEP_UP + Half
          THEN VCM_END' = TRUE /\ UNCHANGED STEP_f
          ELSE STEP_f' = STEP_f + 1 /\ UNCHANGED VCM_END

\* Mutant: the peak is forgotten between the two searches, but not before them.
PeakKept ==
  /\ rGO_F' = GO_F' /\ SUM' = Sharpness(Head(lens))
  /\ IF ~rGO_F /\ GO_F'
     THEN peakSUM' = 0 /\ UNCHANGED STEP_UP
     ELSE IF peakSUM < SUM /\ ~VCM_END' /\ AUTO_FOC
     THEN peakSUM' = SUM /\ STEP_UP' = STEP'
     ELSE UNCHANGED <<peakSUM, STEP_UP>>

\* With the values F_VCM has after the edge.  SUM is the count of the frame before the
\* one that ends here, which becomes the next SUM.
Peak ==
  /\ rGO_F' = GO_F' /\ SUM' = Sharpness(Head(lens))
  /\ IF ~AUTO_FOC \/ (~rGO_F /\ GO_F')
     THEN peakSUM' = 0 /\ UNCHANGED STEP_UP
     ELSE IF peakSUM < SUM /\ ~VCM_END'
     THEN peakSUM' = SUM /\ STEP_UP' = STEP'
     ELSE UNCHANGED <<peakSUM, STEP_UP>>

\* Held in reset by I2C_RELEASE.
Delay ==
  IF ~I2C_RELEASE THEN UNCHANGED <<DELAY, READY>>
  ELSE IF DELAY < ReadyFrames
  THEN DELAY' = DELAY + 1 /\ UNCHANGED READY
  ELSE READY' = TRUE /\ UNCHANGED DELAY

\* VCM_I2C is held in reset by READY; a lens that is told nothing stays where it is.
Tell == lens' = Append(Tail(lens), IF READY' THEN END_STEP' ELSE lens[Lag + 1])

Frame ==
  /\ Coarse /\ Fine /\ Peak /\ Delay /\ Tell
  /\ calm' = IF ~AUTO_FOC /\ I2C_RELEASE /\ lens'[Lag + 1] = 0 /\ calm < Settled
             THEN calm + 1 ELSE calm
  /\ from' = IF ~AUTO_FOC THEN 0 ELSE IF READY' THEN from ELSE STEP_i' + SCAL
  /\ UNCHANGED <<I2C_RELEASE, AUTO_FOC, best, events>>

-----------------------------------------------------------------------------
(***************************************************************************)
(* Between two edges.                                                      *)
(***************************************************************************)
Event == events < MaxEvent /\ events' = events + 1 /\ calm' = 0

\* The resets of F_VCM do not wait for an edge.
Stop ==
  /\ AUTO_FOC' = FALSE /\ from' = 0
  /\ STEP_i' = 0 /\ V_C' = FALSE
  /\ STEP_f' = FineStart /\ VCM_END' = FALSE /\ GO_F' = FALSE
  /\ UNCHANGED <<peak, best>>

\* BUTTON[2] is pressed.  The step of this frame may have been told already.
Drop ==
  /\ Event /\ AUTO_FOC /\ Stop
  /\ lens' \in {lens} \cup (IF READY THEN {[lens EXCEPT ![Lag + 1] = 0]} ELSE {})
  /\ UNCHANGED bus

\* Bridge and camera are reset to be configured again.  The step of this frame may not
\* have been told yet, and the lens may go back to 0.
Lose ==
  /\ Event /\ I2C_RELEASE /\ I2C_RELEASE' = FALSE /\ DELAY' = 0 /\ READY' = FALSE
  /\ Stop
  /\ \E s \in {lens[Lag + 1], lens[Lag], 0} : lens' = [lens EXCEPT ![Lag + 1] = s]

\* They are configured.
Configured ==
  /\ ~I2C_RELEASE /\ I2C_RELEASE' = TRUE
  /\ UNCHANGED <<DELAY, READY, AUTO_FOC, counter, peak, lens, best, calm, from, events>>

\* 2.0 s behind I2C_RELEASE, or with BUTTON[2] after that.
Rise ==
  /\ ~AUTO_FOC /\ AUTO_FOC' = TRUE
  /\ I2C_RELEASE /\ DELAY >= FocusFrames
  /\ UNCHANGED <<bus, counter, peak, lens, best, calm, from, events>>

Scene ==
  /\ Event /\ best' \in Step \ {best}
  /\ UNCHANGED <<bus, AUTO_FOC, counter, peak, lens, from>>

Next == Frame \/ Drop \/ Lose \/ Configured \/ Rise \/ Scene

Spec == Init /\ [][Next]_vars

\* Frames keep coming.
FairSpec == Spec /\ WF_vars(Frame)

-----------------------------------------------------------------------------
(***************************************************************************)
(* Properties.                                                             *)
(***************************************************************************)

\* Every variable keeps its type.  STEP_f needs its eleventh bit, but does not run on in
\* it: it is 2 * STEPS - 1 when it starts below 0, and else at most STEPS + 1.
TypeOK ==
  /\ I2C_RELEASE \in BOOLEAN /\ READY \in BOOLEAN /\ DELAY \in 0 .. ReadyFrames
  /\ AUTO_FOC \in BOOLEAN /\ V_C \in BOOLEAN /\ VCM_END \in BOOLEAN
  /\ GO_F \in BOOLEAN /\ rGO_F \in BOOLEAN
  /\ STEP_i \in 0 .. LIMIT + SCAL
  /\ STEP_f \in 0 .. STEPS + Half \/ STEP_f \in 2 * STEPS - Half .. 2 * STEPS - 1
  /\ SUM \in 0 .. Depth /\ peakSUM \in 0 .. Depth /\ STEP_UP \in Step
  /\ lens \in Seq(Step) /\ Len(lens) = Lag + 1 /\ best \in Step
  /\ calm \in 0 .. Settled /\ from \in 0 .. LIMIT + 2 * SCAL /\ events \in 0 .. MaxEvent

Late == SCAL * Settled

\* A search of a scene that stands still, begun with the lens at step 0 when the counts
\* of the time before had passed, ends behind the sharpest step, by no more than what the
\* lens and the counts are late in the coarse search and in the fine one, which only goes
\* on from there; unless the sharpest step is too near the end of the coarse search, or
\* below the first step that the lens is told: the first search behind each configuration
\* begins before it is told any.
FoundBehindBest ==
  VCM_END /\ calm = Settled /\ from <= best /\ best + Late <= LIMIT =>
    best < END_STEP /\ END_STEP <= best + Late + Lag + 1 + Half

\* A search that is left alone ends, whatever the scene does, and stays where it ended.
Ends == <>[]AUTO_FOC => <>[]VCM_END /\ <>[][END_STEP' = END_STEP]_vars
=============================================================================
