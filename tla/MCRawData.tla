---- MODULE MCRawData ----
(* A spreadsheet of two files, a layout with two (one too many), and a      *)
(* query without file.                                                      *)
EXTENDS RawData

CONSTANTS c1, c2, c3, d1, d2, w1

AllCreates == {c1, c2, c3}
MCTypeOf == [c \in AllCreates |->
  CASE c = c1 -> "excel" [] c = c2 -> "equipment_layout" [] c = c3 -> "db_sql"]
MCFileCount == [c \in AllCreates |-> IF c = c3 THEN 0 ELSE 2]
TwoDeletes == {d1, d2}
OneDownload == {w1}
====
