-------------------------------- MODULE Overview --------------------------------
(***************************************************************************)
(* The dashboard's overview: one card per PLC, derived from three feeds    *)
(* that are polled independently (latest readings, newest alarms, gateway  *)
(* states), and a sparkline for the tag each card puts in front, fetched   *)
(* by an effect whenever the set of those tags changes.                    *)
(*                                                                         *)
(* Of the calls of a feed only the newest can reach the screen (usePolling *)
(* counts generations), so one call per feed is all there is to keep.      *)
(***************************************************************************)
EXTENDS Naturals, FiniteSets

CONSTANTS
  PLCs,
  TagsOf,          \* tags of each PLC, numbered as their names are sorted
  Alarms,          \* [plc, tag, severe, at]: HIGH or CRITICAL; distinct times
  PageSize,        \* limit of fetchAlarms()
  MaxReports,      \* bound: gateway reports
  FeedsMayFail     \* environment: the network

ASSUME OverviewAssumption ==
  /\ TagsOf \in [PLCs -> SUBSET Nat]
  /\ Alarms \subseteq [plc : PLCs, tag : Nat, severe : BOOLEAN, at : Nat]
  /\ \A a, b \in Alarms : a.at = b.at => a = b
  /\ PageSize \in Nat \ {0} /\ MaxReports \in Nat
  /\ FeedsMayFail \in BOOLEAN

VARIABLES
  rows,        \* [plc, tag] that have a reading
  alarms,      \* rows of the table alarms
  status,      \* the latest report about each PLC
  reports,
  call,        \* the newest call of each feed: "asked", or what it has read
  feeds,       \* the data of each feed that the screen was built from
  deps,        \* the tracked tags for which the effect ran last
  jobs,        \* its fetches: the tags, and whether it was cancelled
  history      \* the points on the screen, by tag: none, or some

cloudVars == <<rows, alarms, status, reports>>
fetchVars == <<deps, jobs, history>>
appVars == <<cloudVars, call, feeds, fetchVars>>

Feeds == {"readings", "alarms", "gateways"}
NoCall == [state |-> "none", body |-> {}]

PlcTags == UNION {[plc : {p}, tag : TagsOf[p]] : p \in PLCs}
Reports == [plc : PLCs, state : {"gateway_down", "gateway_recovered"}]

AppInit ==
  /\ rows = {} /\ alarms = {} /\ reports = 0
  /\ status = {}
  /\ call = [f \in Feeds |-> NoCall]
  /\ feeds = [f \in Feeds |-> {}]
  /\ deps = {} /\ jobs = {} /\ history = {}
-----------------------------------------------------------------------------
(* The tables, as ingestion and status reports change them.  No code of    *)
(* the repository acknowledges an alarm.                                   *)

ReadingLands(r) ==
  /\ rows' = rows \cup {r}
  /\ UNCHANGED <<alarms, status, reports, call, feeds, fetchVars>>

\* A late alarm may be older than alarms that are there.
AlarmLands(a) ==
  /\ alarms' = alarms \cup {a}
  /\ UNCHANGED <<rows, status, reports, call, feeds, fetchVars>>

ReportLands(r) ==
  /\ reports < MaxReports /\ reports' = reports + 1
  /\ status' = {q \in status : q.plc # r.plc} \cup {r}
  /\ UNCHANGED <<rows, alarms, call, feeds, fetchVars>>

\* ORDER BY triggered_at_utc DESC LIMIT ..
Page(as) == {a \in as : Cardinality({b \in as : b.at > a.at}) < PageSize}
-----------------------------------------------------------------------------
(* derivePlcSummaries(), for the data s of the three feeds.                *)

Cards(s) == {r.plc : r \in s["readings"] \cup s["gateways"]}
AlarmsOf(s, p) == {a \in s["alarms"] : a.plc = p}
TagsShown(s, p) == {r.tag : r \in {q \in s["readings"] : q.plc = p}}

\* What the gateway says comes before what the alarms say.
Health(s, p) ==
  IF [plc |-> p, state |-> "gateway_down"] \in s["gateways"] THEN "offline"
  ELSE IF \E a \in AlarmsOf(s, p) : a.severe THEN "crit"
  ELSE IF AlarmsOf(s, p) # {} THEN "warn"
  ELSE "ok"

First(ts) == CHOOSE t \in ts : \A u \in ts : t <= u
Newest(as) == CHOOSE a \in as : \A b \in as : b.at <= a.at

\* The tag of the newest alarm if there is a reading of it, or else the first tag.
PrimaryTag(s, p) ==
  LET alarmed == IF AlarmsOf(s, p) = {} THEN {} ELSE {Newest(AlarmsOf(s, p)).tag}
      ts == TagsShown(s, p)
  IN  First(IF alarmed \cap ts # {} THEN alarmed ELSE ts)

\* trackedTagKeys of App.
Tracked(s) ==
  {[plc |-> p, tag |-> PrimaryTag(s, p)] : p \in
     {q \in Cards(s) : Health(s, q) # "offline" /\ TagsShown(s, q) # {}}}
-----------------------------------------------------------------------------
(* The effect of App that fetches the sparklines, run when what it depends *)
(* on has changed: its cleanup, then itself.                               *)

NotCancelled(s) ==              \* mutant: no cleanup
  /\ deps' = Tracked(s)
  /\ jobs' = IF deps' \in {deps, {}} THEN jobs
             ELSE jobs \cup {[keys |-> deps', live |-> TRUE]}
  /\ UNCHANGED history

Effect(s) ==
  /\ deps' = Tracked(s)
  /\ jobs' = IF deps' = deps THEN jobs
             ELSE {[j EXCEPT !.live = FALSE] : j \in jobs}
                    \cup {[keys |-> k, live |-> TRUE] : k \in {deps'} \ {{}}}
  /\ UNCHANGED history

\* The fetches of all tags have ended; one that failed gives no points.
FetchesEnd(j, failed) ==
  /\ j \in jobs
  /\ failed = {} \/ FeedsMayFail
  /\ jobs' = jobs \ {j}
  /\ history' = IF j.live THEN {[key |-> k, points |-> k \notin failed] : k \in j.keys}
                ELSE history
  /\ UNCHANGED <<cloudVars, call, feeds, deps>>
-----------------------------------------------------------------------------
(* usePolling(), three times.                                              *)

\* The timer fires; a call that is still under way is superseded.
PollFeed(f) ==
  /\ call' = [call EXCEPT ![f] = [state |-> "asked", body |-> {}]]
  /\ UNCHANGED <<cloudVars, feeds, fetchVars>>

OldestPage(f) ==                \* mutant: ORDER BY triggered_at_utc
  CASE f = "readings" -> rows
    [] f = "alarms"   -> {a \in alarms : Cardinality({b \in alarms : b.at < a.at}) < PageSize}
    [] f = "gateways" -> status

\* What the endpoint of the feed answers.
Answer(f) ==
  CASE f = "readings" -> rows
    [] f = "alarms"   -> Page(alarms)
    [] f = "gateways" -> status

ReadFeed(f) ==
  /\ call[f].state = "asked"
  /\ call' = [call EXCEPT ![f] = [state |-> "read", body |-> Answer(f)]]
  /\ UNCHANGED <<cloudVars, feeds, fetchVars>>

FeedArrives(f) ==
  /\ call[f].state = "read"
  /\ call' = [call EXCEPT ![f] = NoCall]
  /\ feeds' = [feeds EXCEPT ![f] = call[f].body]
  /\ Effect(feeds')
  /\ UNCHANGED cloudVars

\* The data on the screen stays.
FeedFails(f) ==
  /\ FeedsMayFail
  /\ call[f].state # "none"
  /\ call' = [call EXCEPT ![f] = NoCall]
  /\ UNCHANGED <<cloudVars, feeds, fetchVars>>

AppNext ==
  \/ \E r \in PlcTags : ReadingLands(r)
  \/ \E a \in Alarms : AlarmLands(a)
  \/ \E r \in Reports : ReportLands(r)
  \/ \E f \in Feeds : PollFeed(f) \/ ReadFeed(f) \/ FeedArrives(f) \/ FeedFails(f)
  \/ \E j \in jobs : \E failed \in SUBSET j.keys : FetchesEnd(j, failed)

AppSpec == AppInit /\ [][AppNext]_appVars

\* The timers fire, and not every call fails or is superseded by the next.
AppFairSpec ==
  /\ AppSpec
  /\ \A f \in Feeds :
       WF_appVars(PollFeed(f)) /\ SF_appVars(ReadFeed(f)) /\ SF_appVars(FeedArrives(f))
-----------------------------------------------------------------------------
\* The table a feed reads.
Table(f) ==
  CASE f = "readings" -> PlcTags [] f = "alarms" -> Alarms [] f = "gateways" -> Reports

Bodies == SUBSET (PlcTags \cup Alarms \cup Reports)

\* Every variable has its type, and the effect ran for the tags in front.
AppTypeOK ==
  /\ rows \subseteq PlcTags /\ alarms \subseteq Alarms
  /\ status \subseteq Reports /\ reports \in 0..MaxReports
  /\ call \in [Feeds -> [state : {"none", "asked", "read"}, body : Bodies]]
  /\ feeds \in [Feeds -> Bodies]
  /\ \A f \in Feeds : call[f].body \subseteq Table(f) /\ feeds[f] \subseteq Table(f)
  /\ deps = Tracked(feeds)
  /\ jobs \subseteq [keys : SUBSET PlcTags, live : BOOLEAN]
  /\ history \subseteq [key : PlcTags, points : BOOLEAN]

\* A fetch for tags that are no longer in front does not replace the one for those
\* that are: when none is under way, the screen has what was fetched last.
SparklinesFollow ==
  LET inFront == Tracked(feeds)
  IN  inFront # {} /\ (\A j \in jobs : ~j.live) => {h.key : h \in history} = inFront

\* An alarm is on the screen: in the list, and on the card of its PLC.
Seen(a) ==
  a \in feeds["alarms"] /\ a.plc \in Cards(feeds) /\ Health(feeds, a.plc) # "ok"

HasReading(p) == p \in {r.plc : r \in rows}

\* An alarm does not stay unseen while it is among the newest, although each feed
\* is polled for itself and polls fail or are superseded.
AlarmIsSeen ==
  \A a \in Alarms : a \in Page(alarms) /\ HasReading(a.plc)
                      ~> Seen(a) \/ a \notin Page(alarms)
-----------------------------------------------------------------------------
(* A statement of the code's documentation that the code does not keep.    *)

\* The UI shows what still needs attention.
NeedsAttentionIsSeen ==
  \A a \in Alarms : a \in alarms /\ HasReading(a.plc) ~> Seen(a)
=============================================================================
