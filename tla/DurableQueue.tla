----------------------------- MODULE DurableQueue -----------------------------
(***************************************************************************)
(* What the local store-and-forward buffer promises, whatever runs on its  *)
(* connection: an instance of SqliteBuffer is shown to implement it.       *)
(*                                                                         *)
(* The file holds a counter and a set of rows.  A commit may add rows,     *)
(* remove rows that were released, and raise the counter, all at once.     *)
(* No sequence number is ever committed for two rows, not even for a row   *)
(* that has been removed since, and nothing but a release removes a row.   *)
(***************************************************************************)
EXTENDS Naturals

VARIABLES
  value,     \* the committed counter
  rows,      \* the committed rows
  ever,      \* every row that was committed at some time
  released   \* the rows the sender has finished with

qvars == <<value, rows, ever, released>>

QInit == value = 0 /\ rows = {} /\ ever = {} /\ released = {}

\* Rows that may be added: each with a number of its own, never used before.
Fresh(new) ==
  \A r \in new : /\ \A s \in ever : s.seq # r.seq
                 /\ \A s \in new : r.seq = s.seq => r = s

\* One transaction becomes durable: it adds new rows and removes released ones.
Write ==
  /\ value' >= value
  /\ ever \subseteq ever'
  /\ Fresh(ever' \ ever)
  /\ \A r \in ever' : r.seq <= value'
  /\ rows' \subseteq rows \cup (ever' \ ever)
  /\ (rows \cup (ever' \ ever)) \ rows' \subseteq released
  /\ UNCHANGED released

\* The sender declares rows finished: delivered, or refused for good.
Release ==
  /\ released \subseteq released'
  /\ UNCHANGED <<value, rows, ever>>

QSpec == QInit /\ [][Write \/ Release]_qvars
=============================================================================
