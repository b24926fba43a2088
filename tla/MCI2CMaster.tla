----------------------------- MODULE MCI2CMaster -----------------------------
(***************************************************************************)
(* I2CMaster for TLC: bytes of three bits, all four addresses for the      *)
(* device, and calls that reach it and calls that do not.                  *)
(***************************************************************************)
EXTENDS I2CMaster

MCDevice == {<<0, 0, 0>>, <<0, 1, 0>>, <<1, 0, 0>>, <<1, 1, 0>>}

MCMainCalls ==
  {[op |-> o, dev |-> <<0, 1, 0>>, reg |-> r, val |-> v] :
     o \in {"write", "read"}, r \in {<<0, 0, 0>>, <<1, 0, 1>>}, v \in {<<0, 1, 0>>, <<1, 1, 1>>}}

MCHandlerCalls ==
  {[op |-> "write", dev |-> <<0, 1, 0>>, reg |-> <<0, 0, 1>>, val |-> <<1, 0, 0>>],
   [op |-> "read", dev |-> <<0, 1, 0>>, reg |-> <<1, 1, 0>>, val |-> <<0, 0, 0>>]}
=============================================================================
