---- MODULE MCStoreForward ----
(* Small instances of StoreForward: an alarm that the cloud refuses, and   *)
(* one or two readings; a batch holds two rows, so that one may stay behind. *)
EXTENDS StoreForward

CONSTANTS a1, r1, r2

TwoReadings == {r1, r2}
OneAlarm == {a1}
OneReading == {r1}
NoItem == {}
====
