---- MODULE MCTagConfigSync ----
(* Two tags, and two writers whose steps overlap each other's and those of *)
(* the polls, on a new sequence.                                            *)
EXTENDS TagConfigSync

CONSTANTS t1, t2, w1, w2

TwoTags == {t1, t2}
TwoWriters == {w1, w2}
====
