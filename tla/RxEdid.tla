------------------------------- MODULE RxEdid -------------------------------
(***************************************************************************)
(* The EDID EEPROMs of the two HDMI sinks, as the Nios II firmware checks  *)
(* and programs them at every boot: WriteRxEDID (main.c) calling           *)
(* HDMIRX_VerifyEeprom and HDMIRX_WriteEeprom (HDMI_RX.c), one I2C         *)
(* transaction of I2C.c per step.  A transaction may be answered with a    *)
(* NACK, and power may fail between or during any two transactions.        *)
(*                                                                         *)
(* A byte is abstracted to "equals the byte of szDefaultEDID at this       *)
(* place".                                                                 *)
(***************************************************************************)
EXTENDS Naturals

CONSTANTS
  NPort,         \* EEPROMs, served in the order RX0, RX1, ... (2 in main.c)
  NByte          \* bytes of szDefaultEDID (256 in HDMI_RX.c)

ASSUME NPortAssumption == NPort \in Nat \ {0}
ASSUME NByteAssumption == NByte \in Nat \ {0}

Port == 0 .. NPort - 1
Byte == 0 .. NByte - 1

VARIABLES
  eeprom,        \* eeprom[p][j]: byte j of EEPROM p equals szDefaultEDID[j]
  phase,         \* where WriteRxEDID is, "run" after it, "off" without power
  port,          \* the EEPROM being served (NPort when all are)
  i,             \* the loop index of HDMIRX_VerifyEeprom / HDMIRX_WriteEeprom
  match,         \* every byte read into szEDID so far equals szDefaultEDID
  verdict,       \* what was printed for each EEPROM
  nacked         \* history: a transaction of this boot was answered by a NACK

vars == <<eeprom, phase, port, i, match, verdict, nacked>>

Phase == {"verify", "write", "recheck", "run", "off"}
Verdict == {"none", "ready", "OK", "NG"}

Init ==
  /\ eeprom \in [Port -> [Byte -> BOOLEAN]]
  /\ phase = "verify"
  /\ port = 0
  /\ i = 0
  /\ match = TRUE
  /\ verdict = [p \in Port |-> "none"]
  /\ nacked = FALSE

-----------------------------------------------------------------------------
\* Calls and returns.

Enter(ph) == phase' = ph /\ i' = 0 /\ match' = TRUE

\* Mutant: the loop over the EEPROMs runs once too often.
FinishPastEnd(v) ==
  /\ verdict' = [verdict EXCEPT ![port] = v]
  /\ port' = port + 1
  /\ Enter(IF port + 1 > NPort THEN "run" ELSE "verify")

\* Mutant: one result is printed for all the EEPROMs left.
FinishAll(v) ==
  /\ verdict' = [p \in Port |-> IF p < port THEN verdict[p] ELSE v]
  /\ port' = port + 1
  /\ Enter(IF port + 1 = NPort THEN "run" ELSE "verify")

\* The printf of WriteRxEDID for this EEPROM, then the next one, or main goes on.
Finish(v) ==
  /\ verdict' = [verdict EXCEPT ![port] = v]
  /\ port' = port + 1
  /\ Enter(IF port + 1 = NPort THEN "run" ELSE "verify")

\* Mutant: the first result is not looked at.
VerifyReturnsUnused(bPass) ==
  IF phase = "verify"
  THEN Enter("write") /\ UNCHANGED <<port, verdict>>
  ELSE Finish(IF bPass THEN "OK" ELSE "NG")

\* HDMIRX_VerifyEeprom returned bPass, to its first or to its second call.
VerifyReturns(bPass) ==
  IF phase = "verify"
  THEN IF bPass THEN Finish("ready")
                ELSE Enter("write") /\ UNCHANGED <<port, verdict>>
  ELSE Finish(IF bPass THEN "OK" ELSE "NG")

Verifying == phase \in {"verify", "recheck"}

-----------------------------------------------------------------------------
\* HDMIRX_VerifyEeprom.

ReadByte ==
  /\ Verifying /\ i < NByte
  /\ match' = (match /\ eeprom[port][i])
  /\ i' = i + 1
  /\ UNCHANGED <<eeprom, phase, port, verdict, nacked>>

\* Mutant: a NACK ends the loop but not the comparison.
ReadNackCompared ==
  /\ Verifying /\ i < NByte
  /\ VerifyReturns(match)
  /\ nacked' = TRUE
  /\ UNCHANGED eeprom

\* Mutant: a NACK starts the table again.
ReadNackRetried ==
  /\ Verifying /\ i < NByte
  /\ Enter(phase)
  /\ nacked' = TRUE
  /\ UNCHANGED <<eeprom, port, verdict>>

\* I2C_Read returned false: the loop ends and so does the comparison.
ReadNack ==
  /\ Verifying /\ i < NByte
  /\ VerifyReturns(FALSE)
  /\ nacked' = TRUE
  /\ UNCHANGED eeprom

Compare ==
  /\ Verifying /\ i = NByte
  /\ VerifyReturns(match)
  /\ UNCHANGED <<eeprom, nacked>>

-----------------------------------------------------------------------------
\* HDMIRX_WriteEeprom.

Store == eeprom' = [eeprom EXCEPT ![port][i] = TRUE]

WriteByte ==
  /\ phase = "write" /\ i < NByte
  /\ Store
  /\ i' = i + 1
  /\ UNCHANGED <<phase, port, match, verdict, nacked>>

\* I2C_Write returned false and the loop ends; when only the acknowledge was
\* lost the EEPROM stored the byte all the same.  WriteRxEDID ignores the result.
WriteNack ==
  /\ phase = "write" /\ i < NByte
  /\ Store \/ UNCHANGED eeprom
  /\ Enter("recheck")
  /\ nacked' = TRUE
  /\ UNCHANGED <<port, verdict>>

\* Mutant: the loop stops before the last byte.
WriteEndEarly ==
  /\ phase = "write" /\ i = NByte - 1
  /\ Enter("recheck")
  /\ UNCHANGED <<eeprom, port, verdict, nacked>>

WriteEnd ==
  /\ phase = "write" /\ i = NByte
  /\ Enter("recheck")
  /\ UNCHANGED <<eeprom, port, verdict, nacked>>

-----------------------------------------------------------------------------
\* Power.  The byte whose write cycle is under way may end up wrong.

PowerLoss ==
  /\ phase # "off"
  /\ \/ UNCHANGED eeprom
     \/ /\ phase = "write" /\ i < NByte
        /\ eeprom' = [eeprom EXCEPT ![port][i] = FALSE]
  /\ Enter("off")
  /\ port' = 0
  /\ verdict' = [p \in Port |-> "none"]
  /\ nacked' = FALSE

PowerOn ==
  /\ phase = "off"
  /\ Enter("verify")
  /\ UNCHANGED <<eeprom, port, verdict, nacked>>

-----------------------------------------------------------------------------
Firmware == ReadByte \/ ReadNack \/ Compare \/ WriteByte \/ WriteNack \/ WriteEnd

Next == Firmware \/ PowerLoss \/ PowerOn

Spec == Init /\ [][Next]_vars

\* The processor runs: WriteRxEDID blocks on nothing, so it takes its next step.
FairSpec == Spec /\ WF_vars(Firmware)

-----------------------------------------------------------------------------
(***************************************************************************)
(* Properties.                                                             *)
(***************************************************************************)

\* Every variable keeps its type: in particular the index never leaves the
\* EDID table and port is NPort exactly when WriteRxEDID has returned.
TypeOK ==
  /\ eeprom \in [Port -> [Byte -> BOOLEAN]]
  /\ phase \in Phase
  /\ port \in 0 .. NPort
  /\ port = NPort <=> phase = "run"
  /\ i \in 0 .. NByte
  /\ match \in BOOLEAN
  /\ verdict \in [Port -> Verdict]
  /\ nacked \in BOOLEAN

Good(p) == \A j \in Byte : eeprom[p][j]

\* "EEPROM EDID ready" and "Verify OK" are printed of good EEPROMs only, and
\* the EEPROM stays good for as long as this boot lasts, whatever was answered
\* by a NACK and wherever an earlier boot was cut off (main.c:262-282).
VerdictSound == \A p \in Port : verdict[p] \in {"ready", "OK"} => Good(p)

\* A boot in which no transaction was answered by a NACK leaves every EEPROM
\* good, even after boots that were cut off in the middle of a write.
CleanBootProvisions == phase = "run" /\ ~nacked => \A p \in Port : Good(p)

\* WriteRxEDID starts to rewrite an EEPROM only if the EEPROM is not good or
\* the transactions of this boot cannot be trusted: write cycles wear it out.
NoNeedlessWear ==
  [][phase # "write" /\ phase' = "write" => ~Good(port) \/ nacked']_vars

\* WriteRxEDID returns, whatever the EEPROMs answer, once power stops failing.
BootEnds == <>[](phase # "off") => <>[](phase = "run")

\* The firmware implements the abstract provisioning of EdidProvision.
Provision == INSTANCE EdidProvision
  WITH good <- {p \in Port : Good(p)}, up <- phase # "off"

ProvisionSafety == Provision!ProvisionSafety
ImplementsProvision == Provision!ProvisionSpec

=============================================================================
