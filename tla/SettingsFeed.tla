----------------------------- MODULE SettingsFeed -----------------------------
(***************************************************************************)
(* What the collector is promised about its settings: of each tag it has   *)
(* what tag_config had at some moment since the collector started or       *)
(* before, what comes in together is of one moment, and of no tag an       *)
(* earlier moment follows a later one.  It is not promised that the tags   *)
(* are of the same moment, nor that everything comes in.                   *)
(*                                                                         *)
(* TagConfigSync is shown to keep this promise, row by row and poll by     *)
(* poll.  AlarmPipeline, whose polls bring all tags, takes no other steps. *)
(***************************************************************************)
EXTENDS Naturals, Sequences

CONSTANTS
  Tags,
  Nothing    \* the setting of a tag that the collector has none of

VARIABLES
  offered,   \* the contents of tag_config so far, oldest first
  held       \* the setting of each tag in the collector

fvars == <<offered, held>>

Unset == [t \in Tags |-> Nothing]

FInit == Len(offered) > 0 /\ held = Unset

\* tag_config is written.
Offer ==
  /\ Len(offered') > Len(offered)
  /\ \A i \in 1..Len(offered) : offered'[i] = offered[i]
  /\ held' = held

\* The setting that tag t had at moment i, no earlier than the one it is held with.
Follows(t, i) ==
  /\ held'[t] = offered[i][t]
  /\ held[t] = Nothing \/ \E j \in 1..i : held[t] = offered[j][t]

\* A poll brings settings of one moment, of some tags or of all.
TakeOver ==
  /\ \E i \in 1..Len(offered) : \A t \in Tags : held'[t] = held[t] \/ Follows(t, i)
  /\ DOMAIN held' = Tags
  /\ offered' = offered

\* The collector is started again, or ends.
Forget == held' = Unset /\ offered' = offered

FSpec == FInit /\ [][Offer \/ TakeOver \/ Forget]_fvars
=============================================================================
