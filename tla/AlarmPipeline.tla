----------------------------- MODULE AlarmPipeline -----------------------------
(***************************************************************************)
(* From a value in a PLC to an alarm in the local buffer: the OPC UA       *)
(* subscription, the deadband gate, Collector._on_reading and the alarm    *)
(* engine, with the collector's start-up, lost sessions, changes of the    *)
(* settings, failing commits and restarts.                                 *)
(*                                                                         *)
(* The buffer is the one of SqliteBuffer, seen from its callers: enqueue() *)
(* calls end in the order in which they started, a row's seq is its place  *)
(* in rows, a commit makes all rows so far durable, and a call whose       *)
(* commit raises has written its row all the same.  Evaluation runs in the *)
(* same turn of the event loop in which the reading's call returns.        *)
(***************************************************************************)
EXTENDS Integers, Sequences

CONSTANTS
  Tags,            \* (plc_id, tag_id) pairs
  PlcOf,           \* the PLC of each tag
  Values,          \* values a tag can have
  Qualities,       \* "Good", and maybe "Bad", which stands for Uncertain too
  Configs,         \* the versions of tag_config, oldest first: the settings of
                   \* the tags that have a row; rows are never deleted
  None,            \* no threshold, no last value
  NaN,             \* not a number: no comparison with it holds
  MayRaise,        \* environment: the commit of an enqueue() may raise
  MaxChanges,      \* bound: changes of the plant
  MaxFaults        \* bound: lost sessions and crashes, together

Limit == (Values \ {NaN}) \cup {None}
Settings == [max : Limit, min : Limit,
             margin : Nat, deadband : Nat]

ASSUME PipelineAssumption ==
  /\ Values \subseteq Int \cup {NaN} /\ None \notin Int \cup {NaN} /\ NaN \notin Int
  /\ Qualities \subseteq {"Good", "Bad"}
  /\ Len(Configs) \in Nat \ {0}
  /\ \A v \in 1..Len(Configs) :
       /\ DOMAIN Configs[v] \subseteq Tags
       /\ \A t \in DOMAIN Configs[v] : Configs[v][t] \in Settings
       /\ \A w \in v..Len(Configs) : DOMAIN Configs[v] \subseteq DOMAIN Configs[w]
  /\ MayRaise \in BOOLEAN
  /\ MaxChanges \in Nat /\ MaxFaults \in Nat

VARIABLES
  plant,       \* the sample each tag has in the gateway: value, quality, time
  changes,     \* how often the plant has changed: the source timestamps
  connected,   \* an OPC UA session exists
  drops,       \* sessions lost so far
  monitored,   \* tags the session has subscribed to
  unsent,      \* tags whose sample the gateway has to notify
  lastValue,   \* _DeadbandGate._last_value
  calls,       \* the enqueue() calls in progress: the rows they will write
  rows,        \* rows in the buffer, committed or not, in the order of their seq
  durable,     \* how many of them are committed
  engine,      \* AlarmEngine._state
  published,   \* version of tag_config in the cloud
  version,     \* version in TagConfigStore; 0: the collector is not running
  subscribed,  \* the version the OPC UA client was built with
  life         \* starts of the collector, the current one included

plantVars == <<plant, changes>>
linkVars  == <<connected, drops, monitored, unsent>>
bufVars   == <<calls, rows, durable>>
confVars  == <<published, version, subscribed, life>>
vars == <<plantVars, linkVars, lastValue, bufVars, engine, confVars>>

PLCs == {PlcOf[t] : t \in Tags}
Running == version # 0
Known(v) == IF v = 0 THEN {} ELSE DOMAIN Configs[v]

Init ==
  /\ plant \in [Tags -> [value : Values, quality : Qualities, at : {0}]]
  /\ changes = 0
  /\ connected = FALSE /\ drops = 0 /\ monitored = {} /\ unsent = {}
  /\ lastValue = [t \in Tags |-> None]
  /\ calls = <<>> /\ rows = <<>> /\ durable = 0
  /\ engine = [t \in Tags |-> "NORMAL"]
  /\ published = 1 /\ version = 0 /\ subscribed = 0 /\ life = 0
-----------------------------------------------------------------------------
(* The gateway.                                                            *)

Change(t, v, q) ==
  /\ changes < MaxChanges
  /\ changes' = changes + 1
  /\ plant' = [plant EXCEPT ![t] = [value |-> v, quality |-> q, at |-> changes + 1]]
  /\ unsent' = IF t \in monitored THEN unsent \cup {t} ELSE unsent
  /\ UNCHANGED <<connected, drops, monitored, lastValue, bufVars, engine, confVars>>

Connect ==
  /\ Running /\ ~connected
  /\ connected' = TRUE
  /\ UNCHANGED <<plantVars, drops, monitored, unsent, lastValue, bufVars, engine, confVars>>

\* A new session subscribes to the tags the client was built with, a PLC at a
\* time; the gateway notifies each tag once and then whenever it changes.
Subscribe(p) ==
  LET tags == {t \in Known(subscribed) \ monitored : PlcOf[t] = p} IN
  /\ connected /\ tags # {}
  /\ monitored' = monitored \cup tags /\ unsent' = unsent \cup tags
  /\ UNCHANGED <<plantVars, connected, drops, lastValue, bufVars, engine, confVars>>

\* The heartbeat or a call of _connect_and_subscribe fails: a new session follows.
LoseSession ==
  /\ connected /\ drops + life <= MaxFaults
  /\ connected' = FALSE /\ drops' = drops + 1
  /\ monitored' = {} /\ unsent' = {}
  /\ UNCHANGED <<plantVars, lastValue, bufVars, engine, confVars>>
-----------------------------------------------------------------------------
(* datachange_notification: the gate, then an _on_reading coroutine whose  *)
(* first step is the enqueue() of the reading.                             *)

FarApart(v, w, deadband) ==
  NaN \notin {v, w} /\ (v - w >= deadband \/ w - v >= deadband)

GateByTagId(t, v) ==            \* mutant: one last value for all PLCs
  LET deadband == Configs[subscribed][t].deadband IN
  \/ \A u \in Tags : lastValue[u] = None
  \/ deadband <= 0
  \/ \A u \in Tags : lastValue[u] # None => FarApart(v, lastValue[u], deadband)

ShouldForward(t, v) ==
  LET deadband == Configs[subscribed][t].deadband IN
  \/ lastValue[t] = None
  \/ deadband <= 0
  \/ FarApart(v, lastValue[t], deadband)

Reading(t) == [kind |-> "reading", tag |-> t, sample |-> plant[t],
               life |-> life, state |-> None, version |-> None, reading |-> None,
               cleared |-> None]

Notify(t) ==
  /\ t \in unsent
  /\ unsent' = unsent \ {t}
  /\ IF ShouldForward(t, plant[t].value)
     THEN /\ lastValue' = [lastValue EXCEPT ![t] = plant[t].value]
          /\ calls' = Append(calls, Reading(t))
     ELSE UNCHANGED <<lastValue, calls>>
  /\ UNCHANGED <<plantVars, connected, drops, monitored, rows, durable, engine, confVars>>
-----------------------------------------------------------------------------
(* AlarmEngine.                                                            *)

AtOrAbove(v, limit) == limit # None /\ v # NaN /\ v >= limit
AtOrBelow(v, limit) == limit # None /\ v # NaN /\ v <= limit
OrZero(limit) == IF limit = None THEN 0 ELSE limit

ClearsHigh(c, v) == v # NaN /\ v <= OrZero(c.max) - c.margin
ClearsLow(c, v)  == v # NaN /\ v >= OrZero(c.min) + c.margin

NextNoMargin(c, v, s) ==        \* mutant: clears as soon as the value is back
  CASE s = "NORMAL" /\ AtOrAbove(v, c.max)  -> "HIGH"
    [] s = "NORMAL" /\ ~AtOrAbove(v, c.max) /\ AtOrBelow(v, c.min) -> "LOW"
    [] s = "HIGH" /\ v # NaN /\ v < OrZero(c.max)      -> "NORMAL"
    [] s = "LOW" /\ v # NaN /\ v > OrZero(c.min)       -> "NORMAL"
    [] OTHER                                -> s

NextState(c, v, s) ==
  CASE s = "NORMAL" /\ AtOrAbove(v, c.max)  -> "HIGH"
    [] s = "NORMAL" /\ ~AtOrAbove(v, c.max) /\ AtOrBelow(v, c.min) -> "LOW"
    [] s = "HIGH" /\ ClearsHigh(c, v)       -> "NORMAL"
    [] s = "LOW" /\ ClearsLow(c, v)         -> "NORMAL"
    [] OTHER                                -> s

\* The alarm of reading row n; its alarm_id is made of the tag, the sample's
\* time and n, the seq of the reading.
Alarm(n, r, s) == [kind |-> "alarm", tag |-> r.tag, sample |-> r.sample,
                   life |-> life, state |-> s, version |-> version, reading |-> n,
                   cleared |-> None]

EvaluateAnyQuality(n, r) ==     \* mutant: the quality is not looked at
  LET s == NextState(Configs[version][r.tag], r.sample.value, engine[r.tag]) IN
  /\ engine' = [engine EXCEPT ![r.tag] = s]
  /\ calls' = IF s \in {engine[r.tag], "NORMAL"} THEN Tail(calls)
              ELSE Append(Tail(calls), Alarm(n, r, s))

\* The rest of _on_reading once enqueue() has returned n for reading r: the
\* settings are those the store has now, a clear is only remembered.
Evaluate(n, r) ==
  LET s == NextState(Configs[version][r.tag], r.sample.value, engine[r.tag]) IN
  IF r.sample.quality = "Good"
  THEN /\ engine' = [engine EXCEPT ![r.tag] = s]
       /\ calls' = IF s \in {engine[r.tag], "NORMAL"} THEN Tail(calls)
                   ELSE Append(Tail(calls), Alarm(n, r, s))
  ELSE engine' = engine /\ calls' = Tail(calls)
-----------------------------------------------------------------------------
(* The ends of enqueue() calls.                                            *)

EnqueueReturns ==
  /\ calls # <<>>
  /\ rows' = Append(rows, Head(calls))
  /\ durable' = Len(rows) + 1
  /\ IF Head(calls).kind = "reading"
     THEN Evaluate(Len(rows) + 1, Head(calls))
     ELSE engine' = engine /\ calls' = Tail(calls)
  /\ UNCHANGED <<plantVars, linkVars, lastValue, confVars>>

RaiseDropsRow ==                \* mutant: the row of a failed commit is dropped
  /\ MayRaise /\ calls # <<>>
  /\ calls' = Tail(calls)
  /\ UNCHANGED <<plantVars, linkVars, lastValue, rows, durable, engine, confVars>>

\* The coroutine ends with the exception: a reading is not evaluated.
EnqueueRaises ==
  /\ MayRaise /\ calls # <<>>
  /\ rows' = Append(rows, Head(calls))
  /\ calls' = Tail(calls)
  /\ UNCHANGED <<plantVars, linkVars, lastValue, durable, engine, confVars>>

-----------------------------------------------------------------------------
(* Settings, start and end of the collector.                               *)

\* An operator writes tag_config.
Publish ==
  /\ published < Len(Configs)
  /\ published' = published + 1
  /\ UNCHANGED <<plantVars, linkVars, lastValue, bufVars, engine, version, subscribed, life>>

\* A poll: TagConfigStore takes the new settings over, the OPC UA client keeps its own.
RefreshConfig ==
  /\ Running /\ version < published
  /\ version' = published
  /\ UNCHANGED <<plantVars, linkVars, lastValue, bufVars, engine, published, subscribed, life>>

\* run(): the settings are fetched before anything else, then the client is
\* built with them.  If that request fails, the process ends as it began, and
\* the container is started again.  Gate and engine start from nothing.
Start ==
  /\ ~Running
  /\ version' = published /\ subscribed' = published /\ life' = life + 1
  /\ engine' = [t \in Tags |-> "NORMAL"]
  /\ lastValue' = [t \in Tags |-> None]
  /\ UNCHANGED <<plantVars, linkVars, bufVars, published>>

\* The process is killed, or one of the tasks that run() gathers raises.
Crash ==
  /\ Running /\ drops + life <= MaxFaults
  /\ version' = 0 /\ subscribed' = 0
  /\ connected' = FALSE /\ monitored' = {} /\ unsent' = {}
  /\ rows' = SubSeq(rows, 1, durable) /\ calls' = <<>>
  /\ engine' = [t \in Tags |-> "NORMAL"]
  /\ lastValue' = [t \in Tags |-> None]
  /\ UNCHANGED <<plantVars, drops, durable, published, life>>

Next ==
  \/ \E t \in Tags, v \in Values, q \in Qualities : Change(t, v, q)
  \/ Connect \/ LoseSession
  \/ \E p \in PLCs : Subscribe(p)
  \/ \E t \in Tags : Notify(t)
  \/ EnqueueReturns \/ EnqueueRaises
  \/ Publish \/ RefreshConfig
  \/ Start \/ Crash

Spec == Init /\ [][Next]_vars

\* The client reconnects and subscribes, the gateway notifies, enqueue() ends; the
\* cloud owes nothing.
OutageSpec ==
  /\ Spec
  /\ WF_vars(Connect)
  /\ \A p \in PLCs : WF_vars(Subscribe(p))
  /\ \A t \in Tags : WF_vars(Notify(t))
  /\ WF_vars(EnqueueReturns \/ EnqueueRaises)

\* A start finds the cloud in the end.
FairSpec == OutageSpec /\ WF_vars(Start)
-----------------------------------------------------------------------------
States == {"NORMAL", "HIGH", "LOW"}
Sample == [value : Values, quality : Qualities, at : 0..MaxChanges]

RowOK(r) ==
  /\ r.kind \in {"reading", "alarm"} /\ r.tag \in Tags /\ r.sample \in Sample
  /\ r.life \in 1..life
  /\ r.kind = "alarm" => /\ r.state \in States /\ r.version \in 1..published
                         /\ r.reading \in 1..Len(rows)

TypeOK ==
  /\ plant \in [Tags -> Sample] /\ changes \in 0..MaxChanges
  /\ connected \in BOOLEAN /\ drops \in 0..MaxFaults
  /\ monitored \subseteq Known(subscribed) /\ unsent \subseteq monitored
  /\ lastValue \in [Tags -> Values \cup {None}]
  /\ \A i \in 1..Len(calls) : RowOK(calls[i])
  /\ \A i \in 1..Len(rows) : RowOK(rows[i])
  /\ durable \in 0..Len(rows)
  /\ engine \in [Tags -> States]
  /\ published \in 1..Len(Configs) /\ version \in 0..published
  /\ subscribed \in 0..version
  /\ life \in 0..(MaxFaults + 1)

\* The settings, seen as those of SettingsFeed: a poll brings the latest of all tags.
SettingsOf(v) == [t \in Tags |-> IF t \in Known(v) THEN Configs[v][t] ELSE None]

F == INSTANCE SettingsFeed WITH
       Nothing <- None,
       offered <- [v \in 1..published |-> SettingsOf(v)],
       held    <- SettingsOf(version)
SettingsAreAFeed == F!FSpec

IsAlarm(r, t, s) == r.kind = "alarm" /\ r.tag = t /\ r.state = s
AlarmRows(t, s) == {i \in 1..Len(rows) : IsAlarm(rows[i], t, s)}

\* Every alarm in the buffer can be traced: to a reading of its tag that lies
\* before it, was Good, has its value and time, and breaches the threshold of the
\* settings the alarm names.
AlarmsAreTraceable ==
  \A t \in Tags : \A s \in {"HIGH", "LOW"} : \A i \in AlarmRows(t, s) :
    LET a == rows[i]  r == rows[a.reading]  c == Configs[a.version][t] IN
    /\ a.reading < i /\ r.kind = "reading" /\ r.tag = t
    /\ r.sample = a.sample /\ a.sample.quality = "Good"
    /\ IF s = "HIGH" THEN AtOrAbove(a.sample.value, c.max)
                     ELSE AtOrBelow(a.sample.value, c.min)

\* No flood: within one life of the collector, between two alarms of a tag for
\* the same limit a Good reading has gone back past the limit by the margin of
\* some settings.
NoFlood ==
  \A t \in Tags : \A s \in {"HIGH", "LOW"} : \A i, j \in AlarmRows(t, s) :
    i < j /\ rows[i].life = rows[j].life =>
      \E k \in rows[i].reading..rows[j].reading : \E v \in 1..Len(Configs) :
        /\ rows[k].kind = "reading" /\ rows[k].tag = t
        /\ rows[k].sample.quality = "Good"
        /\ t \in Known(v)
        /\ IF s = "HIGH" THEN ClearsHigh(Configs[v][t], rows[k].sample.value)
                         ELSE ClearsLow(Configs[v][t], rows[k].sample.value)

\* The engine believes in no alarm the buffer does not know: a tag in an alarm
\* state has an alarm of this life in the buffer, or on its way there.  Otherwise
\* the excursion stays unreported, because the engine raises it only once.
StateIsOnRecord ==
  \A t \in Tags : engine[t] # "NORMAL" =>
    \/ \E i \in AlarmRows(t, engine[t]) : rows[i].life = life
    \/ \E i \in 1..Len(calls) : IsAlarm(calls[i], t, engine[t])

\* A value that stays beyond a limit brings the engine to the alarm state,
\* through lost sessions and restarts, if the tag had settings when the collector
\* last started (or has them while it is down).
Watched == Known(IF Running THEN subscribed ELSE published)
InForce(t) == Configs[IF Running THEN version ELSE published][t]

Beyond(t, s) ==
  /\ t \in Watched /\ plant[t].quality = "Good"
  /\ IF s = "HIGH" THEN AtOrAbove(plant[t].value, InForce(t).max)
                   ELSE AtOrBelow(plant[t].value, InForce(t).min)

BreachIsAlarmed ==
  \A t \in Tags : \A s \in {"HIGH", "LOW"} :
    Beyond(t, s) ~> (engine[t] = s \/ ~Beyond(t, s))

-----------------------------------------------------------------------------
(* Statements of the repository's comments that the code does not keep.    *)

\* alarm_id is a dedup key: when a restart makes the collector evaluate the same
\* sample again, the alarm gets the id it had before.
AlarmId(a) == <<a.tag, a.sample.at, a.reading>>
SameSampleSameId ==
  \A t \in Tags : \A s \in {"HIGH", "LOW"} : \A i, j \in AlarmRows(t, s) :
    rows[i].sample.at = rows[j].sample.at => AlarmId(rows[i]) = AlarmId(rows[j])

\* The seq in an alarm's id is the seq of the alarm's row.
IdHasOwnSeq ==
  \A t \in Tags : \A s \in {"HIGH", "LOW"} : \A i \in AlarmRows(t, s) :
    rows[i].reading = i

\* A tag that is back to NORMAL leaves no alarm of this life open.
ClearIsRecorded ==
  \A t \in Tags : \A s \in {"HIGH", "LOW"} : \A i \in AlarmRows(t, s) :
    engine[t] = "NORMAL" /\ rows[i].life = life => rows[i].cleared # None

\* tag_config changes reach the field without a restart: every tag that has
\* settings in the store is watched, with the deadband the store has for it.
SettingsInForce ==
  Running => /\ Watched = Known(version)
             /\ \A t \in Watched : Configs[subscribed][t].deadband = InForce(t).deadband
=============================================================================
