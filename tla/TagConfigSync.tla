----------------------------- MODULE TagConfigSync -----------------------------
(***************************************************************************)
(* How a change of tag_config reaches the collector: writers stamp rows    *)
(* with versions from config_version_seq, the collector polls for the rows *)
(* above its cursor and moves the cursor to the answer's current_version.  *)
(*                                                                         *)
(* Every statement is a transaction of its own: a writer takes a version   *)
(* and writes its row in two steps, the handler reads the rows and the     *)
(* sequence in two steps, and the steps of all of them interleave.  So a   *)
(* poll may be told of a version whose row it could not see yet, and move  *)
(* its cursor past it: such versions are recorded in overtaken.  A row is  *)
(* modelled by its version: what the settings are does not matter here.    *)
(***************************************************************************)
EXTENDS Naturals, Sequences

CONSTANTS
  Tags, Writers,
  MaxVersion       \* bound: versions handed out by the sequence

ASSUME SyncAssumption == MaxVersion \in Nat

VARIABLES
  lastValue,   \* last_value of config_version_seq
  isCalled,    \* is_called of config_version_seq: FALSE in a new database
  table,       \* updated_version of each row of tag_config (0: no row)
  stamp,       \* the version a writer has taken and not written yet (0: none)
  poll,        \* how far the poll in progress is
  answer,      \* its rows, then its rows and current_version
  since,       \* the collector's cursor, sent as since_version
  store,       \* version of each tag's config in the collector (0: none)
  past,        \* history: the tables there have been, oldest first
  asOf,        \* history: how many of them there were when the poll read the rows
  overtaken    \* history: versions the cursor moved past before their row was written

writerVars == <<lastValue, isCalled, table, stamp, past>>
pollVars   == <<poll, answer, since, store, asOf, overtaken>>
vars       == <<writerVars, pollVars>>

NoRows == [t \in Tags |-> 0]

Init ==
  /\ lastValue = 1 /\ isCalled = FALSE
  /\ table = NoRows
  /\ stamp = [w \in Writers |-> 0]
  /\ poll = "idle" /\ answer = [rows |-> NoRows, current |-> 0]
  /\ since = 0 /\ store = NoRows
  /\ past = <<NoRows>> /\ asOf = 0 /\ overtaken = {}
-----------------------------------------------------------------------------
\* SELECT nextval('config_version_seq'): the first call returns the initial 1.
NextVal(w) ==
  /\ stamp[w] = 0
  /\ LET v == IF isCalled THEN lastValue + 1 ELSE lastValue IN
     /\ v <= MaxVersion
     /\ lastValue' = v /\ isCalled' = TRUE
     /\ stamp' = [stamp EXCEPT ![w] = v]
  /\ UNCHANGED <<table, past, pollVars>>

\* INSERT .. ON CONFLICT DO UPDATE SET .. updated_version = EXCLUDED..
Upsert(w, t) ==
  /\ stamp[w] # 0
  /\ table' = [table EXCEPT ![t] = stamp[w]] /\ past' = Append(past, table')
  /\ stamp' = [stamp EXCEPT ![w] = 0]
  /\ UNCHANGED <<lastValue, isCalled, pollVars>>

\* The writer ends between its statements: its version is never used.
WriterEnds(w) ==
  /\ stamp[w] # 0
  /\ stamp' = [stamp EXCEPT ![w] = 0]
  /\ UNCHANGED <<lastValue, isCalled, table, past, pollVars>>
-----------------------------------------------------------------------------
Ask ==
  /\ poll = "idle"
  /\ poll' = "asked"
  /\ UNCHANGED <<writerVars, answer, since, store, asOf, overtaken>>

ChangedFrom(v) ==               \* mutant: WHERE updated_version > since + 1
  [t \in Tags |-> IF table[t] > v + 1 THEN table[t] ELSE 0]

\* WHERE updated_version > since_version
Changed(v) == [t \in Tags |-> IF table[t] > v THEN table[t] ELSE 0]

CachedRows ==                   \* mutant: the rows of an earlier moment
  /\ poll = "asked"
  /\ \E i \in 1..Len(past) :
       answer' = [rows |-> [t \in Tags |-> IF past[i][t] > since THEN past[i][t] ELSE 0],
                  current |-> 0]
  /\ poll' = "rows" /\ asOf' = Len(past)
  /\ UNCHANGED <<writerVars, since, store, overtaken>>

SelectRows ==
  /\ poll = "asked"
  /\ answer' = [rows |-> Changed(since), current |-> 0]
  /\ poll' = "rows" /\ asOf' = Len(past)
  /\ UNCHANGED <<writerVars, since, store, overtaken>>

SelectLastValue ==
  /\ poll = "rows"
  /\ answer' = [answer EXCEPT !.current = lastValue]
  /\ poll' = "answered"
  /\ UNCHANGED <<writerVars, since, store, asOf, overtaken>>

PollEnds == poll' = "idle" /\ answer' = [rows |-> NoRows, current |-> 0] /\ asOf' = 0

\* The versions written so far, up to the nth table.
WrittenBy(n) == {past[i][t] : i \in 1..n, t \in Tags}

Returned == {t \in Tags : answer.rows[t] # 0}

\* The rows before that of t: ORDER BY updated_version.
Before(t) == {u \in Returned : answer.rows[u] < answer.rows[t]}

\* The store once the rows of S have replaced those in it.
Merged(S) == [t \in Tags |-> IF t \in S THEN answer.rows[t] ELSE store[t]]

\* The cursor moves to v, past versions whose row the answer could not have.
MoveTo(v) ==
  /\ since' = v
  /\ overtaken' = overtaken \cup ((1..v) \ WrittenBy(asOf))

CursorFromRows ==               \* mutant: the cursor is the newest row's version
  /\ poll = "answered"
  /\ store' = Merged(Returned)
  /\ \E v \in {0} \cup {answer.rows[t] : t \in Tags} :
       MoveTo(v) /\ \A t \in Tags : answer.rows[t] <= v
  /\ PollEnds
  /\ UNCHANGED writerVars

CursorFirst ==                  \* mutant: the cursor moves before the rows are applied
  /\ poll = "answered"
  /\ \E S \in {Returned} \cup {Before(t) : t \in Returned} : store' = Merged(S)
  /\ MoveTo(answer.current)
  /\ PollEnds
  /\ UNCHANGED writerVars

\* refresh_once(): the rows replace those of the store, then the cursor moves.
Apply ==
  /\ poll = "answered"
  /\ store' = Merged(Returned)
  /\ MoveTo(answer.current)
  /\ PollEnds
  /\ UNCHANGED writerVars

\* The loop over the rows raises at that of t: those before it stay applied, and the
\* cursor is not moved.
ApplyRaises ==
  /\ poll = "answered"
  /\ \E t \in Returned : store' = Merged(Before(t))
  /\ PollEnds
  /\ UNCHANGED <<writerVars, since, overtaken>>

\* The request or its answer fails: the stale config and cursor are kept.
PollFails ==
  /\ poll # "idle"
  /\ PollEnds
  /\ UNCHANGED <<writerVars, since, store, overtaken>>

\* Store and cursor live in memory only.
Restart ==
  /\ PollEnds
  /\ since' = 0 /\ store' = NoRows
  /\ UNCHANGED <<writerVars, overtaken>>

Poll == Ask \/ SelectRows \/ SelectLastValue \/ Apply

Write ==
  \E w \in Writers : NextVal(w) \/ WriterEnds(w) \/ \E t \in Tags : Upsert(w, t)

Next == Write \/ Poll \/ ApplyRaises \/ PollFails \/ Restart

Spec == Init /\ [][Next]_vars

\* The poll loop runs for ever, and polls that keep being started do not all fail.
\* Nothing is asked of the writers.
FairSpec ==
  /\ Spec
  /\ WF_vars(Ask)
  /\ SF_vars(SelectRows) /\ SF_vars(SelectLastValue) /\ SF_vars(Apply)
-----------------------------------------------------------------------------
Answers == [rows : [Tags -> Nat], current : Nat]

TypeOK ==
  /\ lastValue \in Nat /\ isCalled \in BOOLEAN
  /\ table \in [Tags -> Nat] /\ stamp \in [Writers -> Nat]
  /\ poll \in {"idle", "asked", "rows", "answered"}
  /\ answer \in Answers
  /\ since \in Nat /\ store \in [Tags -> Nat]
  /\ past \in Seq([Tags -> Nat])
  /\ asOf \in Nat /\ overtaken \subseteq Nat

\* The cursor hides no change but one that it overtook: a row at or below the
\* collector's cursor, which no later poll asks for, is a row the collector has, in
\* that very version, or the cursor was past this version before it was written.
HiddenOnlyIfOvertaken ==
  \A t \in Tags : table[t] <= since => store[t] = table[t] \/ table[t] \in overtaken

\* What the collector has of each tag is what tag_config had at some moment, a poll
\* brings what it had at one, and of no tag an earlier moment follows a later one:
\* the abstract feed is implemented, whatever overlaps, fails or is half applied.
F == INSTANCE SettingsFeed WITH Nothing <- 0, offered <- past, held <- store
KeepsThePromise == F!FSpec

\* Row t has been in tag_config with version v, and later with the older version w:
\* the writer that took w came late.
SetBack(t, v, w) ==
  \E j \in 1..Len(past) : past[j][t] = w /\ \E i \in 1..j : past[i][t] = v

\* The collector's cursor never goes back, nor its copy of a row, but for a restart,
\* which starts again from nothing, and for a row that was set back in tag_config.
NeverBack ==
  [][Restart \/ /\ since <= since'
                /\ \A t \in Tags : store[t] <= store'[t] \/ SetBack(t, store[t], store'[t])]_vars

\* A change lands: once a row has a version, the collector comes to hold this
\* version, or it is replaced, or is one that the cursor overtook.
ChangesArrive ==
  \A t \in Tags : \A v \in 1..MaxVersion :
    table[t] = v ~> (store[t] = v \/ table[t] # v \/ v \in overtaken)
-----------------------------------------------------------------------------
(* Statements of the repository's documents that the code does not keep.   *)

\* seed_dev_tag_config.py, module docstring: a collector polling with any
\* since_version will pick up the change: no row is hidden by the cursor.
NoMissedChange == \A t \in Tags : table[t] <= since => store[t] = table[t]

\* TagConfigStore, class docstring: threshold changes reach the field without a manual
\* restart of the collector.
EveryChangeArrives ==
  \A t \in Tags : \A v \in 1..MaxVersion :
    table[t] = v ~> (store[t] = v \/ table[t] # v)
=============================================================================
