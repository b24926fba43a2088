--------------------------- MODULE MCHdmiTxConfig ---------------------------
(***************************************************************************)
(* HdmiTxConfig for TLC, with the table of I2C_HDMI_Config.v:113-149.      *)
(***************************************************************************)
EXTENDS HdmiTxConfig

MCRegisters ==
  <<\H98, \H01, \H02, \H03, \H14, \H15, \H16, \H18, \H40, \H41, \H49, \H55, \H56, \H96,
    \H73, \H76, \H98, \H99, \H9A, \H9C, \H9D, \HA2, \HA3, \HA5, \HAB, \HAF, \HBA, \HD1,
    \HDE, \HE4, \HFA>>

MCLut == [e \in 0 .. 30 |-> MCRegisters[e + 1]]
=============================================================================
