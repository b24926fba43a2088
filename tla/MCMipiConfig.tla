---------------------------- MODULE MCMipiConfig ----------------------------
(***************************************************************************)
(* MipiConfig for TLC.  The bridge has the table of                        *)
(* MIPI_BRIDGE_CONFIG.v:245-260, its delays cut short.  The camera has the *)
(* 14 entries of MIPI_CAMERA_CONFIG.v:505-518, the third of them labelled  *)
(* like the last but one.                                                  *)
(***************************************************************************)
EXTENDS MipiConfig

BridgeTable == [w \in 0 .. 12 |-> w]
BridgeDelays == {1, 5}
BridgeDelayClocks == [e \in 0 .. 12 |-> IF e = 1 THEN 2 ELSE 5]

CameraTable ==
  [w \in 0 .. 13 |-> CASE w = 2 -> NoEntry [] w = 12 -> 2 [] OTHER -> w]
CameraDelayClocks == [e \in 0 .. 13 |-> 0]

BridgeListed == 0 .. 12
CameraListed == 0 .. 13
=============================================================================
