------------------------------ MODULE MCRxEdid ------------------------------
(***************************************************************************)
(* RxEdid for TLC: two EEPROMs (as in main.c) of three bytes each, so that *)
(* a byte has a first, an inner and a last place.                          *)
(***************************************************************************)
EXTENDS RxEdid
=============================================================================
