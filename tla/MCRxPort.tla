------------------------------ MODULE MCRxPort ------------------------------
(***************************************************************************)
(* RxPort for TLC, with its bounds set in the configuration.               *)
(***************************************************************************)
EXTENDS RxPort
=============================================================================
