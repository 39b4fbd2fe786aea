------------------------------- MODULE Delivery -------------------------------
(***************************************************************************)
(* What the collector and the cloud promise together about an item, a      *)
(* reading or an alarm: it stays pending until the cloud holds it, or      *)
(* until a POST it was in has been refused for good, and the cloud holds   *)
(* it at most once.                                                        *)
(***************************************************************************)
EXTENDS Naturals

CONSTANT Items

VARIABLES
  pending,       \* durable at the collector
  copies,        \* rows of each item in the cloud
  refused        \* items of the POSTs that were refused for good

dvars == <<pending, copies, refused>>

Held == {i \in Items : copies[i] = 1}

DInit == pending = {} /\ copies = [i \in Items |-> 0] /\ refused = {}

\* The collector's file changes: what leaves it is held or was refused.
Commit ==
  /\ pending' \subseteq Items
  /\ pending \ pending' \subseteq Held \cup refused
  /\ UNCHANGED <<copies, refused>>

\* The cloud takes items it may have taken before.
Ingest ==
  /\ copies' \in [Items -> {0, 1}]
  /\ \A i \in Items : copies[i] <= copies'[i]
  /\ UNCHANGED <<pending, refused>>

\* A POST is refused: of its items none is taken.
Refuse ==
  /\ refused \subseteq refused' /\ refused' \subseteq Items
  /\ UNCHANGED <<pending, copies>>

DSpec == DInit /\ [][Commit \/ Ingest \/ Refuse]_dvars
=============================================================================
