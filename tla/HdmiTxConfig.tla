---------------------------- MODULE HdmiTxConfig ----------------------------
(***************************************************************************)
(* The camera design configures its HDMI encoder from a table, with two    *)
(* state machines on one slow clock: I2C_HDMI_Config walks the table and   *)
(* I2C_Controller puts one entry on the bus.  They meet in GO, END and     *)
(* ACK, all registered, so that each sees what the other did a clock late. *)
(*                                                                         *)
(* A step is a rising edge of mI2C_CTRL_CLK, a reset (PLL_TEST_OK falls)   *)
(* or a hot plug.  The encoder is external: it acknowledges or not, stores *)
(* an entry it has acknowledged in full, loses its registers on a hot plug *)
(* and then pulls HDMI_TX_INT low until its interrupt register is written. *)
(* An entry is named by its place in the table, and by its register: the   *)
(* table gives a register it repeats the same value.                       *)
(***************************************************************************)
EXTENDS Naturals

CONSTANTS
  LUT_SIZE,       \* entries of the table
  Lut,            \* entry |-> register
  IntRegister,    \* writing it clears the interrupt (0x96)
  MaxEvent,       \* bound on the resets and hot plugs
  MaxNack         \* bound on the bytes not acknowledged

Entry == 0 .. LUT_SIZE - 1
Register == {Lut[e] : e \in Entry}

ASSUME SizeAssumption == LUT_SIZE \in Nat \ {0} /\ MaxEvent \in Nat /\ MaxNack \in Nat

\* The first entry is in the table again, with other entries between.
ASSUME RepeatAssumption == \E e \in Entry \ {0} : Lut[e] = Lut[0]

VARIABLES
  lutIndex, setupST, go,  \* LUT_INDEX, mSetup_ST, mI2C_GO
  data,                   \* the entry in mI2C_DATA
  counter, end, ack,      \* SD_COUNTER, END, ACK1 | ACK2 | ACK3 (set: refused)
  sd,                     \* the entry in SD
  good,                   \* the registers that hold their value
  intLow,                 \* HDMI_TX_INT is low
  nEvent, nNack,          \* resets and hot plugs, and refusals, so far
  fresh,                  \* no entry has been sent since the reset
  stored,                 \* the entry of this turn of the table is stored
  missed                  \* a hot plug came when some of the table had been sent

config == <<lutIndex, setupST, go, data>>
controller == <<counter, end, ack, sd>>
chip == <<good, intLow>>
history == <<fresh, stored, missed>>
vars == <<config, controller, chip, nEvent, nNack, history>>

Reset ==
  /\ lutIndex' = 0 /\ setupST' = 0 /\ go' = FALSE
  /\ counter' = 63 /\ end' = TRUE /\ ack' = FALSE
  /\ UNCHANGED <<data, sd>>
  /\ fresh' = TRUE /\ stored' = FALSE

Init ==
  /\ lutIndex = 0 /\ setupST = 0 /\ go = FALSE /\ data \in Entry
  /\ counter = 63 /\ end = TRUE /\ ack = FALSE /\ sd \in Entry
  /\ good = {} /\ intLow \in BOOLEAN
  /\ nEvent = 0 /\ nNack = 0
  /\ fresh = TRUE /\ stored = FALSE /\ missed = FALSE

-----------------------------------------------------------------------------
(***************************************************************************)
(* I2C_HDMI_Config, on a rising edge.                                      *)
(***************************************************************************)
\* Mutant: one entry too many.
LoadPastEnd ==
  /\ lutIndex <= LUT_SIZE /\ setupST = 0
  /\ data' = lutIndex /\ go' = TRUE /\ setupST' = 1
  /\ UNCHANGED <<lutIndex, missed>>

Load ==
  /\ lutIndex < LUT_SIZE /\ setupST = 0
  /\ data' = lutIndex /\ go' = TRUE /\ setupST' = 1
  /\ UNCHANGED <<lutIndex, missed>>

Wait ==
  /\ lutIndex < LUT_SIZE /\ setupST = 1 /\ ~end
  /\ UNCHANGED <<config, missed>>

\* Mutant: the ACK is not looked at.
AnsweredBlind ==
  /\ lutIndex < LUT_SIZE /\ setupST = 1 /\ end
  /\ setupST' = 2
  /\ go' = FALSE
  /\ UNCHANGED <<lutIndex, data, missed>>

Answered ==
  /\ lutIndex < LUT_SIZE /\ setupST = 1 /\ end
  /\ setupST' = IF ack THEN 0 ELSE 2
  /\ go' = FALSE
  /\ UNCHANGED <<lutIndex, data, missed>>

NextEntry ==
  /\ lutIndex < LUT_SIZE /\ setupST = 2
  /\ lutIndex' = lutIndex + 1 /\ setupST' = 0
  /\ UNCHANGED <<go, data, missed>>

\* The interrupt is looked at only here, and it is a level.
Finished ==
  /\ lutIndex = LUT_SIZE
  /\ lutIndex' = IF intLow THEN 0 ELSE lutIndex
  /\ missed' = (missed /\ ~intLow)
  /\ UNCHANGED <<setupST, go, data>>

Config == Load \/ Wait \/ Answered \/ NextEntry \/ Finished

-----------------------------------------------------------------------------
(***************************************************************************)
(* I2C_Controller, on the same edge.  Both processes of it look at the     *)
(* counter as it was: SD_COUNTER starts over while GO is low, and each of  *)
(* its values has its part in the frame.                                   *)
(***************************************************************************)
Count == counter' = IF ~go THEN 0 ELSE IF counter < 63 THEN counter + 1 ELSE counter

\* Mutant: END is left as it is.
FrameResetNoEnd ==
  /\ counter = 0
  /\ ack' = FALSE
  /\ UNCHANGED <<end, sd, chip, nNack, fresh, stored>>

FrameReset ==
  /\ counter = 0
  /\ end' = FALSE /\ ack' = FALSE
  /\ UNCHANGED <<sd, chip, nNack, fresh, stored>>

FrameStart ==
  /\ counter = 1
  /\ sd' = data /\ stored' = FALSE
  /\ UNCHANGED <<end, ack, chip, nNack, fresh>>

\* The encoder answers the address, the register and the value; once it has
\* refused one it is silent for the others.
Acknowledge ==
  /\ counter \in {12, 21, 30}
  /\ \/ UNCHANGED <<ack, nNack>>
     \/ ~ack /\ nNack < MaxNack /\ ack' = TRUE /\ nNack' = nNack + 1
  /\ IF counter = 30 /\ ~ack'
     THEN /\ good' = good \union {Lut[sd]}
          /\ intLow' = (intLow /\ Lut[sd] # IntRegister)
          /\ stored' = TRUE
     ELSE UNCHANGED <<chip, stored>>
  /\ UNCHANGED <<end, sd, fresh>>

\* Mutant: END is never set.
FrameEndMute ==
  /\ counter = 32
  /\ fresh' = FALSE
  /\ UNCHANGED <<end, ack, sd, chip, nNack, stored>>

FrameEnd ==
  /\ counter = 32
  /\ end' = TRUE /\ fresh' = FALSE
  /\ UNCHANGED <<ack, sd, chip, nNack, stored>>

\* The other values move SDA and SCL only.
FrameShift ==
  /\ counter \notin {0, 1, 12, 21, 30, 32}
  /\ UNCHANGED <<end, ack, sd, chip, nNack, fresh, stored>>

Controller ==
  Count /\ (FrameReset \/ FrameStart \/ Acknowledge \/ FrameEnd \/ FrameShift)

Clock == Config /\ Controller /\ UNCHANGED nEvent

-----------------------------------------------------------------------------
\* iRST_N, which is PLL_TEST_OK, falls and rises between two edges.
PllReset ==
  /\ nEvent < MaxEvent /\ nEvent' = nEvent + 1
  /\ Reset
  /\ UNCHANGED <<chip, nNack, missed>>

\* A monitor is plugged.
HotPlug ==
  /\ nEvent < MaxEvent /\ nEvent' = nEvent + 1
  /\ good' = {} /\ intLow' = TRUE
  /\ missed' = (lutIndex \in 1 .. LUT_SIZE - 1)
  /\ UNCHANGED <<config, controller, nNack, fresh, stored>>

Next == Clock \/ PllReset \/ HotPlug

Spec == Init /\ [][Next]_vars

\* The clock runs.
FairSpec == Spec /\ WF_vars(Clock)

-----------------------------------------------------------------------------
(***************************************************************************)
(* Properties.                                                             *)
(***************************************************************************)

\* Every variable keeps its type.
TypeOK ==
  /\ lutIndex \in 0 .. LUT_SIZE /\ setupST \in 0 .. 2 /\ go \in BOOLEAN /\ data \in Entry
  /\ counter \in 0 .. 63 /\ end \in BOOLEAN /\ ack \in BOOLEAN /\ sd \in Entry
  /\ good \subseteq Register /\ intLow \in BOOLEAN
  /\ nEvent \in 0 .. MaxEvent /\ nNack \in 0 .. MaxNack
  /\ fresh \in BOOLEAN /\ stored \in BOOLEAN /\ missed \in BOOLEAN

\* The table moves on only from an entry the encoder has stored: END and ACK,
\* though they are from the frame before for a clock or two after GO, never
\* pass an entry that was not sent, but for the first after a reset, whose END
\* is that of the reset.
MovesOnWhenStored ==
  [][lutIndex' = lutIndex + 1 /\ ~(fresh /\ lutIndex = 0)
       => stored /\ sd = lutIndex]_vars

\* When the table is finished and the encoder does not interrupt, it holds every
\* value of the table, the first entry included, which the reset skips and its
\* repetition makes good, unless a hot plug came when some of the table had been sent.
FinishedIsConfigured ==
  lutIndex = LUT_SIZE /\ ~intLow /\ ~missed => good = Register

\* Between events the table gets finished, however often a byte was refused, and
\* a monitor plugged in after that gets the whole table too.
Finishes ==
  <>[](lutIndex = LUT_SIZE /\ ~intLow)
=============================================================================
