--------------------------- MODULE EdidProvision ---------------------------
(***************************************************************************)
(* What the boot code promises about the EDID EEPROMs of the HDMI sinks,   *)
(* without saying how: every EEPROM is either good or not, it is           *)
(* programmed in one step, and it gets a verdict that never flatters it.   *)
(* WriteRxEDID (main.c:259-283) is shown to implement this in RxEdid.      *)
(***************************************************************************)
CONSTANT Port          \* the RX ports, each with an EEPROM of its own

VARIABLES
  good,                \* the ports whose EEPROM holds szDefaultEDID
  verdict,             \* verdict[p]: what this boot printed for EEPROM p
  up                   \* the board is powered

pvars == <<good, verdict, up>>

Verdict == {"none", "ready", "OK", "NG"}

ProvisionInit ==
  /\ good \subseteq Port
  /\ verdict = [p \in Port |-> "none"]
  /\ up = TRUE

\* An EEPROM may only be touched before its verdict of this boot is out.
Program(p) ==
  /\ up /\ p \notin good /\ verdict[p] = "none"
  /\ good' = good \union {p}
  /\ UNCHANGED <<verdict, up>>

Report(p) ==
  /\ up /\ verdict[p] = "none"
  /\ \E v \in Verdict \ {"none"} :
       /\ v \in {"ready", "OK"} => p \in good
       /\ verdict' = [verdict EXCEPT ![p] = v]
  /\ UNCHANGED <<good, up>>

\* Power loss can spoil an EEPROM still being worked on, and no other one.
LosePower ==
  /\ up
  /\ up' = FALSE
  /\ verdict' = [p \in Port |-> "none"]
  /\ \E spoilt \in SUBSET {p \in Port : verdict[p] = "none"} :
       good' = good \ spoilt

RestorePower ==
  /\ ~up
  /\ up' = TRUE
  /\ UNCHANGED <<good, verdict>>

ProvisionNext ==
  \/ \E p \in Port : Program(p) \/ Report(p)
  \/ LosePower
  \/ RestorePower

ProvisionSafety == ProvisionInit /\ [][ProvisionNext]_pvars

ProvisionSpec == ProvisionSafety /\ \A p \in Port : WF_pvars(Report(p))
=============================================================================
