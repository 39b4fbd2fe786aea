---- MODULE MCRawDataTab ----
(* Two submissions that overlap, or one with its retry. *)
EXTENDS RawDataTab

CONSTANTS s1, s2

OneSubmission  == {s1}
TwoSubmissions == {s1, s2}
====
