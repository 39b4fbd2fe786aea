---- MODULE MCSqliteBuffer ----
(* Three overlapping enqueue() calls, one of them an alarm, against the    *)
(* transmit loop and crashes.                                              *)
EXTENDS SqliteBuffer

CONSTANTS t1, t2, t3

MCTasks == {t1, t2, t3}
MCAlarmTasks == {t3}
====
