---------------------------- MODULE ByteChannel ----------------------------
(***************************************************************************)
(* What a writer of the debug output is promised: the characters taken     *)
(* from it reach the host in order, none lost and none twice, and no more  *)
(* than Capacity of them are on the way.  The k-th character taken is      *)
(* named k.                                                                *)
(***************************************************************************)
EXTENDS Naturals

CONSTANT Capacity

VARIABLES put, got      \* the last character taken, and the last received

vars == <<put, got>>

Init == put = 0 /\ got = 0

Put == \E n \in 1 .. Capacity : put' = put + n /\ put' - got <= Capacity /\ UNCHANGED got

Get == got < put /\ got' = got + 1 /\ UNCHANGED put

Next == Put \/ Get

Spec == Init /\ [][Next]_vars
=============================================================================
