----------------------------- MODULE GatewayStatus -----------------------------
(***************************************************************************)
(* How the dashboard learns that a gateway is down: the client's reconnect *)
(* loop and heartbeat, the marking of the PLCs behind the gateway, the     *)
(* reports that are posted at once and never again, and the latest status  *)
(* per PLC that the cloud shows.                                           *)
(*                                                                         *)
(* Time is counted in probe intervals (a third of heartbeat_timeout_s): a  *)
(* probe fails at once or after one interval, and one interval lies        *)
(* between two probes.                                                     *)
(***************************************************************************)
EXTENDS Naturals, FiniteSets

CONSTANTS
  PLCs,
  MaxFailures,     \* failed probes in a row that lose the gateway
  MayLose,         \* environment: reports may be lost or come late
  MaxUpsets,       \* bound: gateway outages and returns, and errors it answers with
  MaxRestarts,     \* bound
  MaxLate          \* bound: reports on their way

ASSUME StatusAssumption ==
  /\ MaxFailures \in Nat \ {0}
  /\ MayLose \in BOOLEAN
  /\ MaxUpsets \in Nat /\ MaxRestarts \in Nat /\ MaxLate \in Nat

VARIABLES
  gateway,     \* the gateway answers
  upsets, restarts,
  pc,          \* where the client's task is
  target,      \* is_up of the _mark_all_gateways() in progress
  up,          \* _gateway_up
  failures,    \* consecutive_failures
  silent,      \* intervals since the gateway last answered a probe in this session
  post,        \* the report being posted
  last,        \* history: the last report this life made about each PLC
  reports,     \* reports made so far: the order of their occurred_at
  late,        \* reports given up by the client that still arrive
  events       \* collector_status_events

linkVars   == <<gateway, upsets, restarts>>
probeVars  == <<failures, silent>>
reportVars == <<post, last, reports, late, events>>
vars == <<linkVars, pc, target, up, probeVars, reportVars>>

NoPost == [plc |-> "none", up |-> TRUE, at |-> 0]

Init ==
  /\ gateway \in BOOLEAN /\ upsets = 0 /\ restarts = 0
  /\ pc = "connecting" /\ target = TRUE
  /\ up = [p \in PLCs |-> TRUE]
  /\ failures = 0 /\ silent = 0
  /\ post = NoPost /\ last = [p \in PLCs |-> NoPost] /\ reports = 0 /\ late = {} /\ events = {}

Toggle ==
  /\ upsets < MaxUpsets
  /\ gateway' = ~gateway /\ upsets' = upsets + 1
  /\ UNCHANGED <<restarts, pc, target, up, probeVars, reportVars>>
-----------------------------------------------------------------------------
(* run() and _connect_and_subscribe().                                     *)

StartMarking(is_up) == pc' = "marking" /\ target' = is_up

\* A call to the gateway raises: it does not answer, or with an error or too late.
Raises ==
  /\ \/ ~gateway /\ upsets' = upsets
     \/ gateway /\ upsets < MaxUpsets /\ upsets' = upsets + 1
  /\ UNCHANGED <<gateway, restarts>>

ConnectSucceeds ==
  /\ pc = "connecting" /\ gateway
  /\ StartMarking(TRUE)
  /\ UNCHANGED <<linkVars, up, probeVars, reportVars>>

\* Any exception ends the session: the PLCs are marked down, then the loop waits.
SessionFails ==
  /\ pc \in {"connecting", "subscribing"}
  /\ Raises
  /\ StartMarking(FALSE)
  /\ UNCHANGED <<up, probeVars, reportVars>>

Subscribe ==
  /\ pc = "subscribing" /\ gateway
  /\ pc' = "probing"
  /\ failures' = 0 /\ silent' = 0
  /\ UNCHANGED <<linkVars, target, up, reportVars>>

BackoffEnds ==
  /\ pc = "backoff"
  /\ pc' = "connecting"
  /\ UNCHANGED <<linkVars, target, up, probeVars, reportVars>>
-----------------------------------------------------------------------------
(* _heartbeat_loop().                                                      *)

ProbeAnswered ==
  /\ pc = "probing" /\ gateway
  /\ failures' = 0 /\ silent' = 1
  /\ UNCHANGED <<linkVars, pc, target, up, reportVars>>

ProbeOneMore(waited) ==         \* mutant: consecutive_failures > max_failures
  /\ pc = "probing" /\ Raises
  /\ failures' = failures + 1
  /\ IF failures + 1 > MaxFailures
     THEN StartMarking(FALSE) /\ silent' = silent + waited
     ELSE UNCHANGED <<pc, target>> /\ silent' = silent + waited + 1
  /\ UNCHANGED <<up, reportVars>>

\* The read raises at once (waited = 0) or times out after an interval.
ProbeFails(waited) ==
  /\ pc = "probing" /\ Raises
  /\ failures' = failures + 1
  /\ IF failures + 1 >= MaxFailures
     THEN StartMarking(FALSE) /\ silent' = silent + waited
     ELSE UNCHANGED <<pc, target>> /\ silent' = silent + waited + 1
  /\ UNCHANGED <<up, reportVars>>
-----------------------------------------------------------------------------
(* _mark_all_gateways() and send_gateway_status().                         *)

Unmarked == {p \in PLCs : up[p] # target}

Mark(p) ==
  /\ pc = "marking"
  /\ p \in Unmarked
  /\ up' = [up EXCEPT ![p] = target]
  /\ reports' = reports + 1
  /\ post' = [plc |-> p, up |-> target, at |-> reports + 1]
  /\ last' = [last EXCEPT ![p] = post']
  /\ pc' = "reporting"
  /\ UNCHANGED <<linkVars, target, probeVars, late, events>>

MarkingBreaks ==                \* mutant: the loop ends at the first change
  /\ pc = "marking"
  /\ \E p \in PLCs : up[p] = target
  /\ pc' = IF target THEN "subscribing" ELSE "backoff"
  /\ UNCHANGED <<linkVars, target, up, probeVars, reportVars>>

MarkingEnds ==
  /\ pc = "marking"
  /\ Unmarked = {}
  /\ pc' = IF target THEN "subscribing" ELSE "backoff"
  /\ UNCHANGED <<linkVars, target, up, probeVars, reportVars>>

Reported == pc = "reporting" /\ pc' = "marking" /\ post' = NoPost

ReportHandled ==
  /\ Reported
  /\ events' = events \cup {post}
  /\ UNCHANGED <<linkVars, target, up, probeVars, last, reports, late>>

ReportRevertsMark ==            \* mutant: a report that failed undoes the mark
  /\ Reported
  /\ MayLose
  /\ up' = [up EXCEPT ![post.plc] = ~post.up]
  /\ UNCHANGED <<linkVars, target, probeVars, last, reports, late, events>>

\* The request fails or is refused: it is logged and forgotten.
ReportLost ==
  /\ Reported
  /\ MayLose
  /\ UNCHANGED <<linkVars, target, up, probeVars, last, reports, late, events>>

\* The request times out but is still on its way.
ReportDelayed ==
  /\ Reported
  /\ MayLose /\ Cardinality(late) < MaxLate
  /\ late' = late \cup {post}
  /\ UNCHANGED <<linkVars, target, up, probeVars, last, reports, events>>

LateArrives(e) ==
  /\ e \in late
  /\ late' = late \ {e} /\ events' = events \cup {e}
  /\ UNCHANGED <<linkVars, pc, target, up, probeVars, post, last, reports>>

\* A new client believes that every gateway is up.
Restart ==
  /\ restarts < MaxRestarts
  /\ restarts' = restarts + 1
  /\ pc' = "connecting" /\ target' = TRUE
  /\ up' = [p \in PLCs |-> TRUE]
  /\ failures' = 0 /\ silent' = 0
  /\ post' = NoPost /\ last' = [p \in PLCs |-> NoPost]
  /\ UNCHANGED <<gateway, upsets, reports, late, events>>

Client ==
  \/ ConnectSucceeds \/ SessionFails \/ Subscribe \/ BackoffEnds
  \/ ProbeAnswered \/ \E waited \in 0..1 : ProbeFails(waited)
  \/ \E p \in PLCs : Mark(p)
  \/ MarkingEnds
  \/ ReportHandled \/ ReportLost \/ ReportDelayed

Next == Client \/ Toggle \/ (\E e \in late : LateArrives(e)) \/ Restart

Spec == Init /\ [][Next]_vars

\* The client's task never stops; the environment owes nothing.
FairSpec == Spec /\ WF_vars(Client)
-----------------------------------------------------------------------------
(* What the cloud shows: GET /status/v1/gateways.                          *)

EventsOf(p) == {e \in events : e.plc = p}

OldestEvent(p) ==              \* mutant: ORDER BY plc_id, occurred_at, without DESC
  {e \in EventsOf(p) : \A f \in EventsOf(p) : e.at <= f.at}

\* DISTINCT ON (plc_id) .. ORDER BY plc_id, occurred_at DESC
Latest(p) == {e \in EventsOf(p) : \A f \in EventsOf(p) : f.at <= e.at}

ShownDown(p) == \E e \in Latest(p) : ~e.up
-----------------------------------------------------------------------------
Report == [plc : PLCs, up : BOOLEAN, at : 1..reports]

TypeOK ==
  /\ gateway \in BOOLEAN /\ upsets \in 0..MaxUpsets /\ restarts \in 0..MaxRestarts
  /\ pc \in {"connecting", "marking", "reporting", "subscribing", "probing", "backoff"}
  /\ target \in BOOLEAN /\ up \in [PLCs -> BOOLEAN]
  /\ failures \in 0..MaxFailures /\ silent \in Nat
  /\ reports \in Nat
  /\ IF pc = "reporting" THEN post \in Report ELSE post = NoPost
  /\ last \in [PLCs -> Report \cup {NoPost}]
  /\ late \subseteq Report /\ events \subseteq Report

\* What is shown is what the client believes: once the last report about a PLC
\* is stored, the latest event agrees with _gateway_up, whatever other reports
\* were lost or arrive late, also those of an earlier life.
BeliefIsShown == \A p \in PLCs : last[p] \in events => (ShownDown(p) <=> ~up[p])

\* The reports about a PLC alternate within a life of the collector: an outage
\* is never reported twice, and neither is its end.
ReportsAlternate ==
  [][\A p \in PLCs :
       last[p] # last'[p] /\ last[p] # NoPost /\ last'[p] # NoPost =>
         last'[p].up # last[p].up]_vars

\* While the client still takes the gateway for alive, the gateway has answered
\* within twice the heartbeat timeout.
DetectedInTwice == pc = "probing" => silent < 2 * MaxFailures

\* What the client believes of a PLC settles on what the gateway does, whatever
\* becomes of its reports and however often it is restarted.
BeliefConverges ==
  <>[]gateway \/ <>[]~gateway => <>[](\A p \in PLCs : up[p] = gateway)

-----------------------------------------------------------------------------
(* Statements of the repository's comments that the code does not keep.    *)

\* In the end the cloud shows the state the gateway has settled in.
ShownConverges ==
  \A p \in PLCs :
    /\ <>[]gateway => <>[]~ShownDown(p)
    /\ <>[]~gateway => <>[]ShownDown(p)

\* A gateway is only reported down when it has not answered for the whole timeout.
DownOnlyAfterTimeout ==
  [][\A p \in PLCs : up[p] /\ ~up'[p] => silent >= MaxFailures]_vars

\* A gateway that has not answered for the whole timeout has been given up.
DeclaredInTime == pc = "probing" => silent <= MaxFailures
=============================================================================
