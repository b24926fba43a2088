---------------------------- MODULE RxEdidProofs ----------------------------
(***************************************************************************)
(* Proofs about RxEdid, for any number of EEPROMs of any size.             *)
(***************************************************************************)
EXTENDS RxEdid, TLAPS

\* While an EEPROM is being served, its number is one of Port, and the next
\* number is again a value of the variable port.
LEMMA Served ==
  ASSUME TypeOK, phase \in {"verify", "write", "recheck"}
  PROVE  /\ port \in Port
         /\ port + 1 \in 0 .. NPort
         /\ port + 1 # NPort => port + 1 \in Port
  BY NPortAssumption DEF TypeOK, Port

LEMMA TypeInit == Init => TypeOK
<1>. SUFFICES ASSUME Init PROVE TypeOK
  OBVIOUS
<1>1. port \in 0 .. NPort /\ i \in 0 .. NByte /\ port # NPort
  BY NPortAssumption, NByteAssumption DEF Init
<1>2. QED
  BY <1>1 DEF Init, TypeOK, Phase, Verdict

\* The boot code keeps the type of every variable (main.c:259-283).
THEOREM TypeCorrect == Spec => []TypeOK
<1>1. Init => TypeOK
  BY TypeInit
<1>2. TypeOK /\ [Next]_vars => TypeOK'
  <2>. SUFFICES ASSUME TypeOK, [Next]_vars PROVE TypeOK'
    OBVIOUS
  <2>0. 0 \in 0 .. NPort /\ 0 # NPort /\ 0 \in 0 .. NByte
    BY NPortAssumption, NByteAssumption
  <2>1. ASSUME Verifying, NEW b \in BOOLEAN,
               VerifyReturns(b), UNCHANGED eeprom, nacked' \in BOOLEAN
        PROVE  TypeOK'
    <3>1. CASE phase = "verify" /\ ~b
      BY <2>0, <2>1, <3>1 DEF VerifyReturns, Enter, Phase, TypeOK
    <3>2. CASE ~(phase = "verify" /\ ~b)
      <4>1. PICK v \in Verdict : Finish(v)
        BY <2>1, <3>2 DEF VerifyReturns, Verdict
      <4>2. port \in Port /\ port + 1 \in 0 .. NPort
        BY <2>1, Served DEF Verifying
      <4>3. verdict' \in [Port -> Verdict]
        BY <4>1, <4>2 DEF Finish, TypeOK
      <4>4. phase' \in Phase /\ (port' = NPort <=> phase' = "run")
        BY <4>1 DEF Finish, Enter, Phase
      <4>5. QED
        BY <2>0, <2>1, <4>1, <4>2, <4>3, <4>4 DEF Finish, Enter, TypeOK
    <3>3. QED BY <3>1, <3>2
  <2>2. i # NByte /\ i \in 0 .. NByte => i + 1 \in 0 .. NByte
    BY NByteAssumption
  <2>3. ASSUME NEW b \in BOOLEAN, port \in Port,
               eeprom' = [eeprom EXCEPT ![port][i] = b]
        PROVE  eeprom' \in [Port -> [Byte -> BOOLEAN]]
    BY <2>3 DEF TypeOK
  <2>5. CASE ReadByte
    <3>1. i \in Byte /\ i + 1 \in 0 .. NByte
      BY <2>5, NByteAssumption DEF ReadByte, TypeOK, Byte
    <3>2. match' \in BOOLEAN
      BY <2>5 DEF ReadByte
    <3>3. QED BY <2>5, <3>1, <3>2 DEF ReadByte, TypeOK
  <2>6. CASE ReadNack
    BY <2>1, <2>6 DEF ReadNack
  <2>7. CASE Compare
    BY <2>1, <2>7 DEF Compare, TypeOK
  <2>8. CASE WriteByte
    <3>1. i + 1 \in 0 .. NByte
      BY <2>8, NByteAssumption DEF WriteByte, TypeOK
    <3>2. eeprom' \in [Port -> [Byte -> BOOLEAN]]
      BY <2>3, <2>8, Served DEF WriteByte, Store
    <3>3. QED BY <2>8, <3>1, <3>2 DEF WriteByte, TypeOK
  <2>9. CASE WriteNack
    <3>1. eeprom' \in [Port -> [Byte -> BOOLEAN]]
      BY <2>3, <2>9, Served DEF WriteNack, Store, TypeOK
    <3>2. QED BY <2>0, <2>9, <3>1 DEF WriteNack, Enter, Phase, TypeOK
  <2>10. CASE WriteEnd
    BY <2>0, <2>10 DEF WriteEnd, Enter, Phase, TypeOK
  <2>11. CASE PowerLoss
    <3>1. eeprom' \in [Port -> [Byte -> BOOLEAN]]
      BY <2>3, <2>11, Served DEF PowerLoss, TypeOK
    <3>2. QED BY <2>0, <2>11, <3>1 DEF PowerLoss, Enter, Phase, Verdict, TypeOK
  <2>12. CASE PowerOn
    BY <2>0, <2>12 DEF PowerOn, Enter, Phase, TypeOK
  <2>13. CASE UNCHANGED vars
    BY <2>13 DEF vars, TypeOK
  <2>14. QED
    BY <2>5, <2>6, <2>7, <2>8, <2>9, <2>10, <2>11, <2>12, <2>13 DEF Next, Firmware
<1>3. QED
  BY <1>1, <1>2, PTL DEF Spec

-----------------------------------------------------------------------------
(***************************************************************************)
(* The inductive invariant.  A verdict is only as good as the loops that   *)
(* lead to it, so it speaks of what the part of the table already read or  *)
(* written says about the EEPROM, of the EEPROMs not served yet, and of    *)
(* what a boot without NACK has achieved so far.                           *)
(***************************************************************************)
Scanned == Verifying => (match <=> \A j \in Byte : j < i => eeprom[port][j])

Written == phase = "write" => \A j \in Byte : j < i => eeprom[port][j]

NotServedYet == \A p \in Port : p >= port => verdict[p] = "none"

CleanSoFar ==
  ~nacked => /\ \A p \in Port : p < port => Good(p)
             /\ phase = "recheck" => Good(port)

IInv ==
  TypeOK /\ Scanned /\ Written /\ NotServedYet /\ CleanSoFar /\ VerdictSound

\* At the end of the loop of HDMIRX_VerifyEeprom, match tells if the EEPROM is
\* good; at the end of that of HDMIRX_WriteEeprom, the EEPROM is good.
LEMMA WholeTable ==
  ASSUME IInv, i = NByte
  PROVE  /\ Verifying => (match <=> Good(port))
         /\ phase = "write" => Good(port)
<1>1. \A j \in Byte : j < i
  BY NByteAssumption DEF Byte
<1>2. QED
  BY <1>1 DEF IInv, Scanned, Written, Good

\* What a return of HDMIRX_VerifyEeprom does to the invariant: sound is what
\* its caller may conclude from TRUE.
LEMMA ReturnKeepsIInv ==
  ASSUME IInv, TypeOK', Verifying, NEW b \in BOOLEAN, VerifyReturns(b),
         b => Good(port), UNCHANGED eeprom,
         ~nacked' => ~nacked /\ (~b => phase = "verify")
  PROVE  IInv'
<1>1. port \in Port /\ \A p \in Port : p < port + 1 <=> p < port \/ p = port
  BY Served DEF IInv, Verifying, Port
<1>2. \A p \in Port : Good(p)' <=> Good(p)
  BY DEF Good
<1>3. \A j \in Byte : ~(j < 0)
  BY DEF Byte
<1>4. CASE phase = "verify" /\ ~b
  <2>1. phase' = "write" /\ i' = 0 /\ match' = TRUE /\ UNCHANGED <<port, verdict>>
    BY <1>4 DEF VerifyReturns, Enter
  <2>2. Scanned' /\ Written'
    BY <2>1, <1>3 DEF Scanned, Written, Verifying
  <2>3. NotServedYet' /\ VerdictSound'
    BY <2>1, <1>2 DEF IInv, NotServedYet, VerdictSound
  <2>4. CleanSoFar'
    BY <2>1, <1>2 DEF IInv, CleanSoFar
  <2>5. QED BY <2>2, <2>3, <2>4 DEF IInv
<1>5. CASE ~(phase = "verify" /\ ~b)
  <2>1. PICK v \in Verdict : Finish(v) /\ (v \in {"ready", "OK"} => b)
    BY <1>5 DEF VerifyReturns, Verdict, Verifying
  <2>2. /\ port' = port + 1 /\ i' = 0 /\ match' = TRUE
        /\ phase' \in {"verify", "run"}
        /\ verdict' = [verdict EXCEPT ![port] = v]
    BY <2>1 DEF Finish, Enter
  <2>3. Scanned' /\ Written'
    BY <2>2, <1>3 DEF Scanned, Written, Verifying
  <2>4. NotServedYet'
    <3>. SUFFICES ASSUME NEW p \in Port, p >= port + 1 PROVE verdict'[p] = "none"
      BY <2>2 DEF NotServedYet
    <3>1. p # port /\ p >= port
      BY <1>1 DEF Port
    <3>2. QED BY <2>2, <3>1 DEF IInv, NotServedYet, TypeOK
  <2>5. VerdictSound'
    BY <1>1, <1>2, <2>1, <2>2 DEF IInv, VerdictSound, TypeOK
  <2>6. CleanSoFar'
    <3>. SUFFICES ASSUME ~nacked', NEW p \in Port, p < port + 1 PROVE Good(p)
      BY <1>2, <2>2 DEF CleanSoFar
    <3>1. CASE p < port
      BY <3>1 DEF IInv, CleanSoFar
    <3>2. CASE p = port
      BY <1>5, <3>2
    <3>3. QED BY <1>1, <3>1, <3>2
  <2>7. QED BY <2>3, <2>4, <2>5, <2>6 DEF IInv
<1>6. QED BY <1>4, <1>5

\* IInv is inductive.
LEMMA Inductive == Spec => []IInv
<1>1. Init => IInv
  <2>. SUFFICES ASSUME Init PROVE IInv
    OBVIOUS
  <2>1. (\A j \in Byte : ~(j < 0)) /\ (\A p \in Port : ~(p < 0))
    BY DEF Byte, Port
  <2>2. TypeOK
    BY TypeInit
  <2>3. QED
    BY <2>1, <2>2 DEF Init, IInv, Scanned, Written, NotServedYet, CleanSoFar, VerdictSound
<1>2. IInv /\ TypeOK' /\ [Next]_vars => IInv'
  <2>. SUFFICES ASSUME IInv, TypeOK', [Next]_vars PROVE IInv'
    OBVIOUS
  <2>1. (\A j \in Byte : ~(j < 0)) /\ (\A p \in Port : ~(p < 0))
    BY DEF Byte, Port
  <2>2. CASE ReadByte
    <3>1. \A j \in Byte : j < i + 1 <=> j < i \/ j = i
      BY <2>2 DEF ReadByte, Byte, IInv, TypeOK
    <3>2. i \in Byte
      BY <2>2, NByteAssumption DEF ReadByte, Byte, IInv, TypeOK
    <3>3. Scanned'
      BY <2>2, <3>1, <3>2 DEF ReadByte, Verifying, IInv, Scanned
    <3>4. Written' /\ NotServedYet' /\ CleanSoFar' /\ VerdictSound'
      BY <2>2 DEF ReadByte, Verifying, IInv, Written, NotServedYet, CleanSoFar, VerdictSound, Good
    <3>5. QED BY <3>3, <3>4 DEF IInv
  <2>3. CASE ReadNack
    BY <2>3, ReturnKeepsIInv DEF ReadNack
  <2>4. CASE Compare
    <3>1. match <=> Good(port)
      BY <2>4, WholeTable DEF Compare
    <3>2. ~nacked /\ ~match => phase = "verify"
      BY <2>4, <3>1 DEF Compare, Verifying, IInv, CleanSoFar
    <3>3. match \in BOOLEAN
      BY DEF IInv, TypeOK
    <3>4. QED BY <2>4, <3>1, <3>2, <3>3, ReturnKeepsIInv DEF Compare
  <2>5. ASSUME phase = "write", Store
        PROVE  /\ \A p \in Port \ {port} : Good(p)' <=> Good(p)
               /\ \A j \in Byte : eeprom'[port][j] <=> eeprom[port][j] \/ j = i
    BY <2>5, Served DEF Store, Good, IInv, TypeOK
  <2>6. CASE WriteByte
    <3>1. \A j \in Byte : j < i + 1 <=> j < i \/ j = i
      BY <2>6 DEF WriteByte, Byte, IInv, TypeOK
    <3>2. Written' /\ Scanned'
      BY <2>5, <2>6, <3>1 DEF WriteByte, IInv, Written, Scanned, Verifying
    <3>3. NotServedYet'
      BY <2>6 DEF WriteByte, IInv, NotServedYet
    <3>4. CleanSoFar'
      <4>1. \A p \in Port : p < port => p \in Port \ {port}
        BY DEF Port
      <4>2. QED BY <2>5, <2>6, <4>1 DEF WriteByte, IInv, CleanSoFar
    <3>5. VerdictSound'
      <4>1. verdict[port] = "none"
        BY <2>6, Served DEF WriteByte, IInv, NotServedYet, Port
      <4>2. QED BY <2>5, <2>6, <4>1 DEF WriteByte, IInv, VerdictSound
    <3>6. QED BY <3>2, <3>3, <3>4, <3>5 DEF IInv
  <2>7. CASE WriteNack
    <3>1. Written' /\ Scanned' /\ CleanSoFar'
      <4>1. phase' = "recheck" /\ i' = 0 /\ match' = TRUE /\ nacked' = TRUE
        BY <2>7 DEF WriteNack, Enter
      <4>2. QED BY <2>1, <4>1 DEF Written, Scanned, CleanSoFar, Verifying
    <3>2. NotServedYet'
      BY <2>7 DEF WriteNack, IInv, NotServedYet
    <3>3. VerdictSound'
      <4>1. verdict[port] = "none"
        BY <2>7, Served DEF WriteNack, IInv, NotServedYet, Port
      <4>2. \A p \in Port \ {port} : Good(p)' <=> Good(p)
        BY <2>5, <2>7 DEF WriteNack, Good
      <4>3. QED BY <2>7, <4>1, <4>2 DEF WriteNack, IInv, VerdictSound
    <3>4. QED BY <3>1, <3>2, <3>3 DEF IInv
  <2>8. CASE WriteEnd
    <3>1. Good(port)
      BY <2>8, WholeTable DEF WriteEnd
    <3>2. QED
      BY <2>1, <2>8, <3>1 DEF WriteEnd, Enter, IInv, Scanned, Written, NotServedYet,
                              CleanSoFar, VerdictSound, Verifying, Good
  <2>9. CASE PowerLoss
    <3>1. phase' = "off" /\ port' = 0 /\ verdict' = [p \in Port |-> "none"]
      BY <2>9 DEF PowerLoss, Enter
    <3>2. Scanned' /\ Written'
      BY <3>1 DEF Scanned, Written, Verifying
    <3>3. NotServedYet' /\ VerdictSound'
      BY <3>1 DEF NotServedYet, VerdictSound
    <3>4. CleanSoFar'
      BY <2>1, <3>1 DEF CleanSoFar
    <3>5. QED BY <3>2, <3>3, <3>4 DEF IInv
  <2>10. CASE PowerOn
    <3>1. phase' = "verify" /\ i' = 0 /\ match' = TRUE
      BY <2>10 DEF PowerOn, Enter
    <3>2. UNCHANGED <<eeprom, port, verdict, nacked>>
      BY <2>10 DEF PowerOn
    <3>3. Scanned' /\ Written'
      BY <2>1, <3>1 DEF Scanned, Written, Verifying
    <3>4. NotServedYet' /\ VerdictSound' /\ CleanSoFar'
      BY <3>1, <3>2 DEF IInv, NotServedYet, VerdictSound, CleanSoFar, Good
    <3>5. QED BY <3>3, <3>4 DEF IInv
  <2>11. CASE UNCHANGED vars
    BY <2>11 DEF vars, IInv, Scanned, Written, NotServedYet, CleanSoFar, VerdictSound,
                 Verifying, Good
  <2>12. QED
    BY <2>2, <2>3, <2>4, <2>6, <2>7, <2>8, <2>9, <2>10, <2>11 DEF Next, Firmware
<1>3. QED
  BY <1>1, <1>2, TypeCorrect, PTL DEF Spec

-----------------------------------------------------------------------------
\* A verdict of "ready" or "OK" is never given to an EEPROM that is not good,
\* and the EEPROM stays good under it (main.c:262-282).
THEOREM VerdictsAreSound == Spec => []VerdictSound
<1>1. IInv => VerdictSound
  BY DEF IInv
<1>2. QED
  BY <1>1, Inductive, PTL

\* A boot without NACK leaves every EEPROM good, whatever the boots before it did.
THEOREM CleanBootsProvision == Spec => []CleanBootProvisions
<1>1. IInv => CleanBootProvisions
  <2>. SUFFICES ASSUME IInv, phase = "run", ~nacked, NEW p \in Port PROVE Good(p)
    BY DEF CleanBootProvisions
  <2>1. p < port
    BY NPortAssumption DEF IInv, TypeOK, Port
  <2>2. QED
    BY <2>1 DEF IInv, CleanSoFar
<1>2. QED
  BY <1>1, Inductive, PTL

\* WriteRxEDID starts a rewrite only of an EEPROM that is not good, or after a NACK.
THEOREM WritesAreNeeded == Spec => NoNeedlessWear
<1>1. ASSUME IInv, [Next]_vars, phase # "write", phase' = "write"
      PROVE  ~Good(port) \/ nacked'
  <2>1. CASE ReadNack
    BY <2>1 DEF ReadNack
  <2>2. CASE Compare
    <3>1. match <=> Good(port)
      BY <1>1, <2>2, WholeTable DEF Compare
    <3>2. ~match
      BY <1>1, <2>2 DEF Compare, VerifyReturns, Finish, Enter
    <3>3. QED BY <3>1, <3>2
  <2>3. ~ReadByte /\ ~WriteByte /\ ~WriteNack /\ ~WriteEnd /\ ~(UNCHANGED vars)
    BY <1>1 DEF ReadByte, WriteByte, WriteNack, WriteEnd, vars
  <2>4. ~PowerLoss /\ ~PowerOn
    BY <1>1 DEF PowerLoss, PowerOn, Enter
  <2>5. QED
    BY <1>1, <2>1, <2>2, <2>3, <2>4 DEF Next, Firmware
<1>2. IInv /\ [Next]_vars =>
        [phase # "write" /\ phase' = "write" => ~Good(port) \/ nacked']_vars
  BY <1>1
<1>3. QED
  BY <1>2, Inductive, PTL DEF Spec, NoNeedlessWear

-----------------------------------------------------------------------------
(***************************************************************************)
(* The firmware implements EdidProvision.  The byte that makes an EEPROM   *)
(* good is the abstract Program, the return of HDMIRX_VerifyEeprom that    *)
(* ends the service of an EEPROM is the abstract Report, and every other   *)
(* step of the two loops is a stutter.                                     *)
(***************************************************************************)
Goods == {p \in Port : Good(p)}

LEMMA StoreImplements ==
  ASSUME IInv, phase = "write", phase' # "off", Store, UNCHANGED verdict
  PROVE  [Provision!ProvisionNext]_(Provision!pvars)
<1>1. port \in Port /\ verdict[port] = "none"
  BY Served DEF IInv, NotServedYet, Port
<1>2. \A p \in Port : (p # port => (Good(p)' <=> Good(p))) /\ (Good(p) => Good(p)')
  BY <1>1 DEF Store, Good, IInv, TypeOK
<1>3. CASE Goods' = Goods
  BY <1>3 DEF Provision!pvars, Goods
<1>4. CASE Goods' # Goods
  <2>1. port \notin Goods /\ Goods' = Goods \union {port}
    BY <1>1, <1>2, <1>4 DEF Goods
  <2>2. Provision!Program(port)
    BY <1>1, <2>1 DEF Provision!Program, Goods
  <2>3. QED BY <1>1, <2>2 DEF Provision!ProvisionNext
<1>5. QED BY <1>3, <1>4

LEMMA ReturnImplements ==
  ASSUME IInv, Verifying, NEW b \in BOOLEAN, VerifyReturns(b), b => Good(port),
         UNCHANGED eeprom
  PROVE  [Provision!ProvisionNext]_(Provision!pvars)
<1>1. \A p \in Port : Good(p)' <=> Good(p)
  BY DEF Good
<1>2. CASE phase = "verify" /\ ~b
  BY <1>1, <1>2 DEF VerifyReturns, Enter, Provision!pvars
<1>3. CASE ~(phase = "verify" /\ ~b)
  <2>1. PICK v \in Verdict \ {"none"} : Finish(v) /\ (v \in {"ready", "OK"} => b)
    BY <1>3 DEF VerifyReturns, Verdict, Verifying
  <2>2. port \in Port /\ verdict[port] = "none"
    BY Served DEF IInv, NotServedYet, Port, Verifying
  <2>3. phase # "off" /\ phase' # "off" /\ verdict' = [verdict EXCEPT ![port] = v]
    BY <2>1 DEF Finish, Enter, Verifying
  <2>4. v \in {"ready", "OK"} => port \in Goods
    BY <2>1, <2>2 DEF Goods
  <2>5. Goods' = Goods
    BY <1>1 DEF Goods
  <2>6. v \in Provision!Verdict \ {"none"}
    BY DEF Verdict, Provision!Verdict
  <2>7. Provision!Report(port)
    BY <2>2, <2>3, <2>4, <2>5, <2>6 DEF Provision!Report, Goods
  <2>8. QED BY <2>2, <2>7 DEF Provision!ProvisionNext
<1>4. QED BY <1>2, <1>3

\* WriteRxEDID, with its loops, its NACKs and its power failures, is an
\* implementation of the one-step provisioning of EdidProvision.
THEOREM Refinement == Spec => ProvisionSafety
<1>1. Init => Provision!ProvisionInit
  BY DEF Init, Provision!ProvisionInit, Good
<1>2. IInv /\ TypeOK' /\ [Next]_vars => [Provision!ProvisionNext]_(Provision!pvars)
  <2>. SUFFICES ASSUME IInv, TypeOK', [Next]_vars
                PROVE  [Provision!ProvisionNext]_(Provision!pvars)
    OBVIOUS
  <2>1. ASSUME UNCHANGED <<eeprom, verdict>>, phase # "off", phase' # "off"
        PROVE  UNCHANGED Provision!pvars
    BY <2>1 DEF Provision!pvars, Good
  <2>2. CASE ReadByte
    BY <2>1, <2>2 DEF ReadByte, Verifying
  <2>3. CASE ReadNack
    BY <2>3, ReturnImplements DEF ReadNack
  <2>4. CASE Compare
    <3>1. (match <=> Good(port)) /\ match \in BOOLEAN
      BY <2>4, WholeTable DEF Compare, IInv, TypeOK
    <3>2. QED BY <2>4, <3>1, ReturnImplements DEF Compare
  <2>5. CASE WriteByte
    BY <2>5, StoreImplements DEF WriteByte
  <2>6. CASE WriteNack
    <3>1. phase # "off" /\ phase' # "off" /\ UNCHANGED verdict
      BY <2>6 DEF WriteNack, Enter
    <3>2. CASE Store
      BY <2>6, <3>1, <3>2, StoreImplements DEF WriteNack
    <3>3. CASE UNCHANGED eeprom
      BY <2>1, <3>1, <3>3
    <3>4. QED BY <2>6, <3>2, <3>3 DEF WriteNack
  <2>7. CASE WriteEnd
    BY <2>1, <2>7 DEF WriteEnd, Enter
  <2>8. CASE PowerLoss
    <3>1. phase # "off" /\ phase' = "off" /\ verdict' = [p \in Port |-> "none"]
      BY <2>8 DEF PowerLoss, Enter
    <3>2. PICK spoilt \in SUBSET {p \in Port : verdict[p] = "none"} :
            \A p \in Port : Good(p)' <=> (Good(p) /\ p \notin spoilt)
      <4>1. CASE UNCHANGED eeprom
        <5>1. \A p \in Port : Good(p)' <=> (Good(p) /\ p \notin {})
          BY <4>1 DEF Good
        <5>2. {} \in SUBSET {p \in Port : verdict[p] = "none"}
          OBVIOUS
        <5>3. QED BY <5>1, <5>2
      <4>2. CASE ~(UNCHANGED eeprom)
        <5>1. /\ phase = "write" /\ i < NByte
              /\ eeprom' = [eeprom EXCEPT ![port][i] = FALSE]
          BY <2>8, <4>2 DEF PowerLoss
        <5>2. port \in Port /\ verdict[port] = "none"
          BY <5>1, Served DEF IInv, NotServedYet, Port
        <5>3. i \in Byte
          BY <5>1, NByteAssumption DEF IInv, TypeOK, Byte
        <5>4. \A p \in Port : Good(p)' <=> (Good(p) /\ p \notin {port})
          BY <5>1, <5>2, <5>3 DEF Good, IInv, TypeOK
        <5>5. QED BY <5>2, <5>4
      <4>3. QED BY <4>1, <4>2
    <3>3. Goods' = Goods \ spoilt
      BY <3>2 DEF Goods
    <3>4. Provision!LosePower
      BY <3>1, <3>3 DEF Provision!LosePower, Goods
    <3>5. QED BY <3>4 DEF Provision!ProvisionNext
  <2>9. CASE PowerOn
    <3>1. phase = "off" /\ phase' # "off" /\ UNCHANGED <<eeprom, verdict>>
      BY <2>9 DEF PowerOn, Enter
    <3>2. Goods' = Goods
      BY <3>1 DEF Goods, Good
    <3>3. Provision!RestorePower
      BY <3>1, <3>2 DEF Provision!RestorePower, Goods
    <3>4. QED BY <3>3 DEF Provision!ProvisionNext
  <2>10. CASE UNCHANGED vars
    BY <2>10 DEF vars, Provision!pvars, Good
  <2>11. QED
    BY <2>2, <2>3, <2>4, <2>5, <2>6, <2>7, <2>8, <2>9, <2>10 DEF Next, Firmware
<1>3. QED
  BY <1>1, <1>2, Inductive, TypeCorrect, PTL
     DEF Spec, ProvisionSafety, Provision!ProvisionSafety
=============================================================================
