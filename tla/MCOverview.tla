---- MODULE MCOverview ----
(* A PLC with two tags and an alarm on each, pages of one alarm.           *)
EXTENDS Overview

CONSTANT p1

OnePLC == {p1}
TwoTags == [p \in OnePLC |-> {1, 2}]
TwoAlarms == {[plc |-> p1, tag |-> 2, severe |-> FALSE, at |-> 1],
              [plc |-> p1, tag |-> 1, severe |-> TRUE, at |-> 2]}
====
