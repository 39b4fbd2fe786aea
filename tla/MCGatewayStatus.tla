---- MODULE MCGatewayStatus ----
(* Two PLCs behind one gateway, which is up or down at first; two failed   *)
(* probes in a row lose it (three by default); one report at a time is on  *)
(* its way after the client has given it up.                               *)
EXTENDS GatewayStatus

CONSTANTS p1, p2

TwoPLCs == {p1, p2}
OnePLC == {p1}
====
