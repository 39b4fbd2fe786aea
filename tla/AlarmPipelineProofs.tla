-------------------------- MODULE AlarmPipelineProofs --------------------------
(***************************************************************************)
(* Proofs about AlarmPipeline, for any tags, values (NaN among them),      *)
(* settings and changes of the settings, and any number of lost sessions,  *)
(* failing commits and crashes.                                            *)
(***************************************************************************)
EXTENDS AlarmPipeline, TLAPS

-----------------------------------------------------------------------------
(* Rows and calls as one line: a call that ends moves its row from the     *)
(* head of calls to the end of rows, and no row changes its place.         *)

LineLen == Len(rows) + Len(calls)
At(i) == IF i <= Len(rows) THEN rows[i] ELSE calls[i - Len(rows)]

Row == [kind : {"reading", "alarm"}, tag : Tags, sample : Sample, life : Nat,
        state : States \cup {None}, version : Nat \cup {None},
        reading : Nat \cup {None}, cleared : {None}]

SeqInv == rows \in Seq(Row) /\ calls \in Seq(Row)

\* Reading k goes back past the limit of s by the margin of some settings.
Back(t, s, k) ==
  /\ rows[k].kind = "reading" /\ rows[k].tag = t
  /\ rows[k].sample.quality = "Good"
  /\ \E v \in 1..Len(Configs) :
       /\ t \in Known(v)
       /\ IF s = "HIGH" THEN ClearsHigh(Configs[v][t], rows[k].sample.value)
                        ELSE ClearsLow(Configs[v][t], rows[k].sample.value)

BackBetween(t, s, m, n) == \E k \in m..n : Back(t, s, k)
-----------------------------------------------------------------------------
(* The inductive invariant.                                                *)

LifeInv ==
  /\ plant \in [Tags -> Sample] /\ changes \in 0..MaxChanges
  /\ connected \in BOOLEAN /\ drops \in 0..MaxFaults
  /\ monitored \subseteq Known(subscribed) /\ unsent \subseteq monitored
  /\ lastValue \in [Tags -> Values \cup {None}]
  /\ durable \in 0..Len(rows)
  /\ engine \in [Tags -> States]
  /\ published \in 1..Len(Configs) /\ version \in 0..published
  /\ subscribed \in 0..version
  /\ life \in 0..(MaxFaults + 1)
  /\ connected => Running
  /\ IF Running THEN life >= 1 ELSE life <= MaxFaults /\ calls = <<>>

\* A row in the line is of a life so far, and the tags of the calls have settings.
LineInv ==
  /\ \A i \in 1..LineLen : At(i).life \in 1..life
  /\ \A i \in 1..Len(calls) : calls[i].tag \in Known(version)

\* The alarm at i goes back to a Good reading before it that breaches its limit.
Traced(i) ==
  LET a == At(i)  r == rows[a.reading]  c == Configs[a.version][a.tag] IN
  /\ a.reading \in 1..Len(rows) /\ a.reading < i
  /\ r.kind = "reading" /\ r.tag = a.tag /\ r.sample = a.sample
  /\ a.sample.quality = "Good"
  /\ a.version \in 1..published /\ a.state \in {"HIGH", "LOW"}
  /\ IF a.state = "HIGH" THEN AtOrAbove(a.sample.value, c.max)
                         ELSE AtOrBelow(a.sample.value, c.min)

TraceInv == \A i \in 1..LineLen : At(i).kind = "alarm" => Traced(i)

AlarmAt(i, t, s) == IsAlarm(At(i), t, s)

\* The engine has left an alarm of this life only by a reading that went back.
LeftInv ==
  Running =>
    \A t \in Tags : \A s \in {"HIGH", "LOW"} : \A i \in 1..LineLen :
      AlarmAt(i, t, s) /\ At(i).life = life /\ engine[t] # s =>
        BackBetween(t, s, At(i).reading, Len(rows))

FloodInv ==
  \A t \in Tags : \A s \in {"HIGH", "LOW"} : \A i, j \in 1..LineLen :
    i < j /\ AlarmAt(i, t, s) /\ AlarmAt(j, t, s) /\ At(i).life = At(j).life =>
      BackBetween(t, s, At(i).reading, At(j).reading)

RecordInv ==
  \A t \in Tags : engine[t] # "NORMAL" =>
    \E i \in 1..LineLen : AlarmAt(i, t, engine[t]) /\ At(i).life = life

IInv == SeqInv /\ LifeInv /\ LineInv /\ TraceInv /\ LeftInv /\ FloodInv /\ RecordInv
-----------------------------------------------------------------------------
(* The line.                                                               *)

LEMMA LineTypes ==
  ASSUME SeqInv
  PROVE  /\ Len(rows) \in Nat /\ Len(calls) \in Nat /\ LineLen \in Nat
         /\ \A i \in 1..LineLen : At(i) \in Row
         /\ \A i \in 1..Len(rows) : i \in 1..LineLen /\ At(i) = rows[i]
         /\ \A i \in 1..Len(calls) :
              Len(rows) + i \in 1..LineLen /\ At(Len(rows) + i) = calls[i]
BY DEF SeqInv, LineLen, At

\* What a step that adds k rows to the end of the line and crosses out none keeps.
LineGrows(k) ==
  /\ LineLen' = LineLen + k
  /\ \A i \in 1..LineLen : At(i)' = At(i)
  /\ Len(rows') >= Len(rows)
  /\ \A i \in 1..Len(rows) : rows'[i] = rows[i]

LEMMA LineStays ==
  ASSUME SeqInv, rows' = rows, calls' = calls
  PROVE  SeqInv' /\ LineGrows(0)
BY DEF SeqInv, LineGrows, LineLen, At

LEMMA CallEnds ==
  ASSUME SeqInv, calls # <<>>, rows' = Append(rows, Head(calls)), calls' = Tail(calls)
  PROVE  /\ SeqInv' /\ LineGrows(0)
         /\ Len(rows') = Len(rows) + 1 /\ rows'[Len(rows) + 1] = Head(calls)
         /\ \A i \in 1..Len(calls') : calls'[i] = calls[i + 1]
         /\ Len(calls') + 1 = Len(calls)
<1>1. /\ Head(calls) \in Row /\ Head(calls) = calls[1] /\ Len(calls) \in Nat \ {0}
      /\ Len(calls') = Len(calls) - 1 /\ calls' \in Seq(Row)
      /\ \A i \in 1..Len(calls') : calls'[i] = calls[i + 1]
  BY DEF SeqInv
<1>2. /\ Len(rows) \in Nat /\ rows' \in Seq(Row) /\ Len(rows') = Len(rows) + 1
      /\ rows'[Len(rows) + 1] = Head(calls)
      /\ \A i \in 1..Len(rows) : rows'[i] = rows[i]
  BY <1>1 DEF SeqInv
<1>3. LineLen' = LineLen /\ LineLen \in Nat
  BY <1>1, <1>2 DEF LineLen
<1>4. ASSUME NEW i \in 1..LineLen PROVE At(i)' = At(i)
  <2>1. CASE i <= Len(rows)
    BY <1>2, <2>1 DEF At
  <2>2. CASE i = Len(rows) + 1
    BY <1>1, <1>2, <2>2 DEF At
  <2>3. CASE i > Len(rows) + 1
    <3>1. i - Len(rows') \in 1..Len(calls') /\ (i - Len(rows')) + 1 = i - Len(rows)
      BY <1>1, <1>2, <1>3, <2>3 DEF LineLen
    <3> QED
      BY <1>1, <1>2, <2>3, <3>1 DEF At
  <2> QED
    BY <1>2, <1>3, <2>1, <2>2, <2>3
<1> QED
  BY <1>1, <1>2, <1>3, <1>4 DEF SeqInv, LineGrows

LEMMA CallStarts ==
  ASSUME SeqInv, NEW r \in Row, rows' = rows, calls' = Append(calls, r)
  PROVE  /\ SeqInv' /\ LineGrows(1) /\ At(LineLen)' = r
         /\ Len(calls') = Len(calls) + 1 /\ calls'[Len(calls) + 1] = r
         /\ \A i \in 1..Len(calls) : calls'[i] = calls[i]
<1>1. /\ Len(calls) \in Nat /\ Len(rows) \in Nat /\ calls' \in Seq(Row)
      /\ Len(calls') = Len(calls) + 1 /\ calls'[Len(calls) + 1] = r
      /\ \A i \in 1..Len(calls) : calls'[i] = calls[i]
  BY DEF SeqInv
<1>2. ASSUME NEW i \in 1..LineLen PROVE At(i)' = At(i)
  <2>1. CASE i <= Len(rows)
    BY <2>1 DEF At
  <2>2. CASE i > Len(rows)
    BY <1>1, <2>2 DEF At, LineLen
  <2> QED
    BY <1>1, <2>1, <2>2 DEF LineLen
<1>3. At(LineLen)' = r
  BY <1>1 DEF At, LineLen
<1> QED
  BY <1>1, <1>2, <1>3 DEF SeqInv, LineGrows, LineLen

\* The reading's call ends and the call of its alarm starts.
LEMMA CallEndsAndStarts ==
  ASSUME SeqInv, NEW r \in Row, calls # <<>>,
         rows' = Append(rows, Head(calls)), calls' = Append(Tail(calls), r)
  PROVE  /\ SeqInv' /\ LineGrows(1) /\ At(LineLen)' = r
         /\ Len(rows') = Len(rows) + 1 /\ rows'[Len(rows) + 1] = Head(calls)
         /\ Len(calls') = Len(calls) /\ calls'[Len(calls)] = r
         /\ \A i \in 1..Len(calls) - 1 : calls'[i] = calls[i + 1]
<1>1. /\ Head(calls) \in Row /\ Head(calls) = calls[1] /\ Len(calls) \in Nat \ {0}
      /\ Tail(calls) \in Seq(Row) /\ Len(Tail(calls)) = Len(calls) - 1
      /\ \A i \in 1..Len(calls) - 1 : Tail(calls)[i] = calls[i + 1]
  BY DEF SeqInv
<1>2. /\ calls' \in Seq(Row) /\ Len(calls') = Len(calls) /\ calls'[Len(calls)] = r
      /\ \A i \in 1..Len(calls) - 1 : calls'[i] = calls[i + 1]
  BY <1>1
<1>3. /\ Len(rows) \in Nat /\ rows' \in Seq(Row) /\ Len(rows') = Len(rows) + 1
      /\ rows'[Len(rows) + 1] = Head(calls)
      /\ \A i \in 1..Len(rows) : rows'[i] = rows[i]
  BY <1>1 DEF SeqInv
<1>4. LineLen' = LineLen + 1 /\ LineLen \in Nat
  BY <1>1, <1>2, <1>3 DEF LineLen
<1>5. ASSUME NEW i \in 1..LineLen PROVE At(i)' = At(i)
  <2>1. CASE i <= Len(rows)
    BY <1>3, <2>1 DEF At
  <2>2. CASE i = Len(rows) + 1
    BY <1>1, <1>3, <2>2 DEF At
  <2>3. CASE i > Len(rows) + 1
    <3>1. i - Len(rows') \in 1..Len(calls) - 1 /\ (i - Len(rows')) + 1 = i - Len(rows)
      BY <1>1, <1>3, <1>4, <2>3 DEF LineLen
    <3> QED
      BY <1>2, <1>3, <2>3, <3>1 DEF At
  <2> QED
    BY <1>3, <1>4, <2>1, <2>2, <2>3
<1>6. At(LineLen)' = r
  BY <1>1, <1>2, <1>3 DEF At, LineLen
<1> QED
  BY <1>1, <1>2, <1>3, <1>4, <1>5, <1>6 DEF SeqInv, LineGrows

\* A crash leaves the committed rows.
LEMMA LineCut ==
  ASSUME SeqInv, durable \in 0..Len(rows), rows' = SubSeq(rows, 1, durable), calls' = <<>>
  PROVE  /\ SeqInv' /\ LineLen' = durable /\ Len(rows') = durable
         /\ \A i \in 1..durable : /\ i \in 1..LineLen /\ At(i)' = At(i)
                                  /\ rows'[i] = rows[i]
<1>1. /\ Len(rows) \in Nat /\ Len(calls) \in Nat /\ rows' \in Seq(Row)
      /\ Len(rows') = durable /\ \A i \in 1..durable : rows'[i] = rows[i]
  BY DEF SeqInv
<1>2. calls' \in Seq(Row) /\ Len(calls') = 0
  OBVIOUS
<1> QED
  BY <1>1, <1>2 DEF SeqInv, LineLen, At

\* The readings of the alarms in the line are in the buffer.
LEMMA AlarmFacts ==
  ASSUME SeqInv, TraceInv, NEW i \in 1..LineLen, NEW t, NEW s, AlarmAt(i, t, s)
  PROVE  /\ At(i).kind = "alarm" /\ At(i).tag = t /\ At(i).state = s /\ Traced(i)
         /\ At(i).reading \in 1..Len(rows) /\ Len(rows) \in 1..Len(rows)
         /\ At(i).reading < i
BY LineTypes DEF AlarmAt, IsAlarm, TraceInv, Traced

LEMMA TraceStays ==
  ASSUME SeqInv, SeqInv', LifeInv, published' \in Nat, published <= published',
         NEW k, LineGrows(k), NEW i \in 1..LineLen, At(i).kind = "alarm", Traced(i)
  PROVE  Traced(i)'
<1>1. At(i)' = At(i) /\ rows'[At(i).reading] = rows[At(i).reading]
  BY DEF LineGrows, Traced
<1>2. At(i).reading \in 1..Len(rows')
  BY LineTypes DEF LineGrows, Traced, SeqInv
<1>3. At(i).version \in 1..published'
  BY PipelineAssumption DEF Traced, LifeInv
<1> QED
  BY <1>1, <1>2, <1>3 DEF Traced

\* A step that makes no alarm, and in which the engine leaves an alarm state only by
\* a reading that goes back.
LEMMA NoNewAlarm ==
  ASSUME IInv, SeqInv', published' \in Nat, published <= published', life' = life,
         Running' => Running,
         NEW n \in Nat, LineGrows(n),
         \A i \in LineLen + 1..LineLen + n : At(i)'.kind # "alarm",
         \A t \in Tags : \/ engine'[t] = engine[t]
                         \/ /\ engine'[t] = "NORMAL"
                            /\ \A s : engine[t] = s =>
                                 \E k \in Len(rows) + 1..Len(rows') : Back(t, s, k)'
  PROVE  TraceInv' /\ LeftInv' /\ FloodInv' /\ RecordInv'
<1>1. /\ Len(rows) \in Nat /\ Len(rows') \in Nat /\ LineLen \in Nat
      /\ LineLen' = LineLen + n /\ Len(rows) <= Len(rows')
      /\ \A i \in 1..LineLen : At(i)' = At(i)
  BY LineTypes DEF IInv, SeqInv, LineGrows
<1>2. ASSUME NEW i \in 1..LineLen', At(i)'.kind = "alarm"
      PROVE  i \in 1..LineLen /\ At(i)' = At(i)
  <2>1. i \notin LineLen + 1..LineLen + n
    BY <1>2
  <2> QED
    BY <1>1, <2>1
<1>3. ASSUME NEW i \in 1..LineLen', NEW t, NEW s, AlarmAt(i, t, s)'
      PROVE  /\ i \in 1..LineLen /\ At(i)' = At(i) /\ AlarmAt(i, t, s)
             /\ At(i).reading \in 1..Len(rows)
  BY <1>2, <1>3, AlarmFacts DEF AlarmAt, IsAlarm, IInv
<1>4. TraceInv'
  BY <1>2, TraceStays DEF IInv, TraceInv
<1>5. LeftInv'
  <2> SUFFICES ASSUME Running', NEW t \in Tags, NEW s \in {"HIGH", "LOW"},
                      NEW i \in 1..LineLen', AlarmAt(i, t, s)', At(i)'.life = life,
                      engine'[t] # s
               PROVE  BackBetween(t, s, At(i).reading, Len(rows))'
    BY DEF LeftInv
  <2>1. i \in 1..LineLen /\ At(i)' = At(i) /\ At(i).reading \in 1..Len(rows) /\ AlarmAt(i, t, s)
    BY <1>3
  <2>2. CASE engine[t] # s
    <3>1. BackBetween(t, s, At(i).reading, Len(rows))
      BY <2>1, <2>2 DEF IInv, LeftInv
    <3>2. PICK k \in At(i).reading..Len(rows) : Back(t, s, k)
      BY <3>1 DEF BackBetween
    <3>3. k \in 1..Len(rows)
      BY <1>1, <2>1, <3>2
    <3>4. Back(t, s, k)'
      BY <3>2, <3>3 DEF Back, LineGrows
    <3>5. k \in At(i).reading..Len(rows')
      BY <1>1, <2>1, <3>2
    <3> QED
      BY <2>1, <3>4, <3>5 DEF BackBetween
  <2>3. CASE engine[t] = s
    <3>1. PICK k \in Len(rows) + 1..Len(rows') : Back(t, s, k)'
      BY <2>3
    <3>2. k \in At(i).reading..Len(rows')
      BY <1>1, <2>1, <3>1
    <3> QED
      BY <2>1, <3>1, <3>2 DEF BackBetween
  <2> QED
    BY <2>2, <2>3
<1>6. FloodInv'
  <2> SUFFICES ASSUME NEW t \in Tags, NEW s \in {"HIGH", "LOW"},
                      NEW i \in 1..LineLen', NEW j \in 1..LineLen', i < j,
                      AlarmAt(i, t, s)', AlarmAt(j, t, s)', At(i)'.life = At(j)'.life
               PROVE  BackBetween(t, s, At(i).reading, At(j).reading)'
    BY DEF FloodInv
  <2>1. /\ i \in 1..LineLen /\ At(i)' = At(i) /\ At(i).reading \in 1..Len(rows) /\ AlarmAt(i, t, s)
        /\ j \in 1..LineLen /\ At(j)' = At(j) /\ At(j).reading \in 1..Len(rows) /\ AlarmAt(j, t, s)
    BY <1>3
  <2>2. BackBetween(t, s, At(i).reading, At(j).reading)
    BY <2>1 DEF IInv, FloodInv
  <2>3. PICK k \in At(i).reading..At(j).reading : Back(t, s, k)
    BY <2>2 DEF BackBetween
  <2>4. k \in 1..Len(rows)
    BY <1>1, <2>1, <2>3
  <2>5. Back(t, s, k)'
    BY <2>3, <2>4 DEF Back, LineGrows
  <2> QED
    BY <2>1, <2>3, <2>5 DEF BackBetween
<1>7. RecordInv'
  <2> SUFFICES ASSUME NEW t \in Tags, engine'[t] # "NORMAL"
               PROVE  \E i \in 1..LineLen' : AlarmAt(i, t, engine[t])' /\ At(i)'.life = life
    BY DEF RecordInv
  <2>1. engine'[t] = engine[t]
    OBVIOUS
  <2>2. PICK i \in 1..LineLen : AlarmAt(i, t, engine[t]) /\ At(i).life = life
    BY <2>1 DEF IInv, RecordInv
  <2>3. i \in 1..LineLen' /\ At(i)' = At(i)
    BY <1>1
  <2> QED
    BY <2>1, <2>2, <2>3 DEF AlarmAt, IsAlarm
<1> QED
  BY <1>4, <1>5, <1>6, <1>7

\* A step that puts the alarm a at the end of the line, because the reading whose
\* call ended in this step took the engine from NORMAL to its state.
LEMMA NewAlarm ==
  ASSUME IInv, SeqInv', published' = published, life' = life, Running,
         NEW t \in Tags, NEW s \in {"HIGH", "LOW"}, NEW a \in Row,
         engine[t] = "NORMAL", engine' = [engine EXCEPT ![t] = s],
         LineGrows(1), Len(rows') = Len(rows) + 1, At(LineLen)' = a,
         IsAlarm(a, t, s), a.life = life, a.reading = Len(rows) + 1,
         Traced(LineLen)'
  PROVE  TraceInv' /\ LeftInv' /\ FloodInv' /\ RecordInv'
<1>1. /\ Len(rows) \in Nat /\ LineLen \in Nat /\ LineLen' = LineLen + 1
      /\ \A i \in 1..LineLen : At(i)' = At(i)
      /\ 1..LineLen' = 1..LineLen \cup {LineLen'}
  BY LineTypes DEF IInv, LineGrows
<1>2. engine'[t] = s /\ \A u \in Tags : u # t => engine'[u] = engine[u]
  BY DEF IInv, LifeInv
<1>3. ASSUME NEW u, NEW z, NEW i \in 1..LineLen, AlarmAt(i, u, z)'
      PROVE  /\ At(i)' = At(i) /\ AlarmAt(i, u, z)
             /\ At(i).reading \in 1..Len(rows)
  BY <1>1, <1>3, AlarmFacts DEF AlarmAt, IsAlarm, IInv
\* What an earlier alarm was followed by still follows it.
<1>4. ASSUME NEW u \in Tags, NEW z \in {"HIGH", "LOW"}, NEW i \in 1..LineLen,
             AlarmAt(i, u, z), At(i).life = life, engine[u] # z
      PROVE  \E k \in At(i).reading..Len(rows) : Back(u, z, k)'
  <2>1. At(i).reading \in 1..Len(rows)
    BY <1>4, AlarmFacts DEF IInv
  <2>2. PICK k \in At(i).reading..Len(rows) : Back(u, z, k)
    BY <1>4 DEF IInv, LeftInv, BackBetween
  <2>3. k \in 1..Len(rows)
    BY <1>1, <2>1, <2>2
  <2> QED
    BY <2>2, <2>3 DEF Back, LineGrows
<1>5. TraceInv'
  <2> SUFFICES ASSUME NEW i \in 1..LineLen', At(i)'.kind = "alarm" PROVE Traced(i)'
    BY DEF TraceInv
  <2>1. CASE i \in 1..LineLen
    <3>1. At(i).kind = "alarm" /\ Traced(i)
      BY <1>1, <2>1 DEF IInv, TraceInv
    <3>2. published' \in Nat /\ published <= published'
      BY PipelineAssumption DEF IInv, LifeInv
    <3> QED
      BY <2>1, <3>1, <3>2, TraceStays DEF IInv
  <2>2. CASE i = LineLen'
    BY <2>2 DEF Traced
  <2> QED
    BY <1>1, <2>1, <2>2
<1>6. LeftInv'
  <2> SUFFICES ASSUME NEW u \in Tags, NEW z \in {"HIGH", "LOW"}, NEW i \in 1..LineLen',
                      AlarmAt(i, u, z)', At(i)'.life = life, engine'[u] # z
               PROVE  BackBetween(u, z, At(i).reading, Len(rows))'
    BY DEF LeftInv
  <2>1. i \in 1..LineLen
    BY <1>1, <1>2 DEF AlarmAt, IsAlarm
  <2>2. /\ At(i)' = At(i) /\ AlarmAt(i, u, z) /\ At(i).reading \in 1..Len(rows)
    BY <1>3, <2>1
  <2>3. engine[u] # z
    BY <1>2
  <2>4. PICK k \in At(i).reading..Len(rows) : Back(u, z, k)'
    BY <1>4, <2>1, <2>2, <2>3
  <2>5. k \in At(i).reading..Len(rows')
    BY <1>1, <2>2, <2>4
  <2> QED
    BY <2>2, <2>4, <2>5 DEF BackBetween
<1>7. FloodInv'
  <2> SUFFICES ASSUME NEW u \in Tags, NEW z \in {"HIGH", "LOW"},
                      NEW i \in 1..LineLen', NEW j \in 1..LineLen', i < j,
                      AlarmAt(i, u, z)', AlarmAt(j, u, z)', At(i)'.life = At(j)'.life
               PROVE  BackBetween(u, z, At(i).reading, At(j).reading)'
    BY DEF FloodInv
  <2>1. i \in 1..LineLen
    BY <1>1
  <2>2. At(i)' = At(i) /\ AlarmAt(i, u, z) /\ At(i).reading \in 1..Len(rows)
    BY <1>3, <2>1
  <2>3. CASE j \in 1..LineLen
    <3>1. At(j)' = At(j) /\ AlarmAt(j, u, z) /\ At(j).reading \in 1..Len(rows)
      BY <1>3, <2>3
    <3>2. PICK k \in At(i).reading..At(j).reading : Back(u, z, k)
      BY <2>1, <2>2, <2>3, <3>1 DEF IInv, FloodInv, BackBetween
    <3>3. k \in 1..Len(rows)
      BY <1>1, <2>2, <3>1, <3>2
    <3>4. Back(u, z, k)'
      BY <3>2, <3>3 DEF Back, LineGrows
    <3> QED
      BY <2>2, <3>1, <3>2, <3>4 DEF BackBetween
  <2>4. CASE j = LineLen'
    <3>1. At(j)' = a /\ u = t /\ z = s
      BY <2>4 DEF AlarmAt, IsAlarm, At
    <3>2. PICK k \in At(i).reading..Len(rows) : Back(u, z, k)'
      BY <1>4, <2>1, <2>2, <3>1
    <3>3. k \in At(i).reading..a.reading
      BY <1>1, <2>2, <3>2
    <3> QED
      BY <2>2, <3>1, <3>2, <3>3 DEF BackBetween
  <2> QED
    BY <1>1, <2>3, <2>4
<1>8. RecordInv'
  <2> SUFFICES ASSUME NEW u \in Tags, engine'[u] # "NORMAL"
               PROVE  \E i \in 1..LineLen' : AlarmAt(i, u, engine[u])' /\ At(i)'.life = life
    BY DEF RecordInv
  <2>1. CASE u = t
    <3>1. AlarmAt(LineLen, t, engine[t])' /\ At(LineLen)'.life = life
      BY <1>2 DEF AlarmAt
    <3> QED
      BY <1>1, <2>1, <3>1
  <2>2. CASE u # t
    <3>1. engine'[u] = engine[u]
      BY <1>2, <2>2
    <3>2. PICK i \in 1..LineLen : AlarmAt(i, u, engine[u]) /\ At(i).life = life
      BY <3>1 DEF IInv, RecordInv
    <3>3. i \in 1..LineLen' /\ At(i)' = At(i)
      BY <1>1
    <3> QED
      BY <3>1, <3>2, <3>3 DEF AlarmAt, IsAlarm
  <2> QED
    BY <2>1, <2>2
<1> QED
  BY <1>5, <1>6, <1>7, <1>8
-----------------------------------------------------------------------------
(* Settings and the engine's transitions.                                  *)

\* tag_config only gains rows.
LEMMA KnownGrows ==
  ASSUME NEW v \in 0..Len(Configs), NEW w \in v..Len(Configs)
  PROVE  Known(v) \subseteq Known(w) /\ Known(w) \subseteq Tags
<1>1. v \in Nat /\ w \in Nat /\ (v # 0 => v \in 1..Len(Configs)) /\ (w # 0 => w \in 1..Len(Configs))
  BY PipelineAssumption
<1>2. CASE v = 0
  BY <1>1, <1>2, PipelineAssumption DEF Known
<1>3. CASE v # 0
  <2>1. w # 0 /\ DOMAIN Configs[v] \subseteq DOMAIN Configs[w] /\ DOMAIN Configs[w] \subseteq Tags
    BY <1>1, <1>3, PipelineAssumption
  <2> QED
    BY <1>3, <2>1 DEF Known
<1> QED
  BY <1>2, <1>3

\* An alarm is raised from NORMAL by a value at its limit, and left for NORMAL by
\* one that is past the limit by the margin.
LEMMA NextStateFacts ==
  ASSUME NEW c, NEW v, NEW s \in States
  PROVE  /\ NextState(c, v, s) \in States
         /\ s # "NORMAL" => NextState(c, v, s) \in {s, "NORMAL"}
         /\ s = "NORMAL" /\ NextState(c, v, s) = "HIGH" => AtOrAbove(v, c.max)
         /\ s = "NORMAL" /\ NextState(c, v, s) = "LOW" => AtOrBelow(v, c.min)
         /\ s = "HIGH" /\ NextState(c, v, s) = "NORMAL" => ClearsHigh(c, v)
         /\ s = "LOW" /\ NextState(c, v, s) = "NORMAL" => ClearsLow(c, v)
<1> DEFINE up == AtOrAbove(v, c.max)
           down == AtOrBelow(v, c.min)
           high == ClearsHigh(c, v)
           low == ClearsLow(c, v)
<1>1. NextState(c, v, s) =
        CASE s = "NORMAL" /\ up          -> "HIGH"
          [] s = "NORMAL" /\ ~up /\ down -> "LOW"
          [] s = "HIGH" /\ high          -> "NORMAL"
          [] s = "LOW" /\ low            -> "NORMAL"
          [] OTHER                       -> s
  BY DEF NextState
<1> HIDE DEF up, down, high, low
<1>2. CASE s = "NORMAL" /\ up
  <2>1. NextState(c, v, s) = "HIGH"
    BY <1>1, <1>2
  <2> QED
    BY <1>2, <2>1 DEF States, up
<1>3. CASE s = "NORMAL" /\ ~up /\ down
  <2>1. NextState(c, v, s) = "LOW"
    BY <1>1, <1>3
  <2> QED
    BY <1>3, <2>1 DEF States, down
<1>4. CASE s = "NORMAL" /\ ~up /\ ~down
  <2>1. NextState(c, v, s) = "NORMAL"
    BY <1>1, <1>4
  <2> QED
    BY <1>4, <2>1 DEF States
<1>5. CASE s = "HIGH"
  <2>1. NextState(c, v, s) = IF high THEN "NORMAL" ELSE "HIGH"
    BY <1>1, <1>5
  <2> QED
    BY <1>5, <2>1 DEF States, high
<1>6. CASE s = "LOW"
  <2>1. NextState(c, v, s) = IF low THEN "NORMAL" ELSE "LOW"
    BY <1>1, <1>6
  <2> QED
    BY <1>6, <2>1 DEF States, low
<1> QED
  BY <1>2, <1>3, <1>4, <1>5, <1>6 DEF States
-----------------------------------------------------------------------------
(* Steps that end no call.                                                 *)

LEMMA VersionFacts ==
  ASSUME LifeInv
  PROVE  /\ published \in Nat /\ version \in Nat /\ subscribed \in Nat /\ life \in Nat
         /\ Len(Configs) \in Nat /\ published <= Len(Configs)
         /\ subscribed <= version /\ version <= published
         /\ Known(subscribed) \subseteq Known(version) /\ Known(version) \subseteq Tags
         /\ Running => version \in 1..published
<1>1. /\ published \in Nat /\ version \in Nat /\ subscribed \in Nat /\ life \in Nat
      /\ Len(Configs) \in Nat /\ published <= Len(Configs)
      /\ subscribed <= version /\ version <= published
  BY PipelineAssumption DEF LifeInv
<1>2. subscribed \in 0..Len(Configs) /\ version \in subscribed..Len(Configs)
  BY <1>1
<1> QED
  BY <1>1, <1>2, KnownGrows DEF Running

\* Line and engine stay, and the settings in the store grow.
LEMMA QuietStep ==
  ASSUME IInv, LifeInv', rows' = rows, calls' = calls, engine' = engine, life' = life,
         published <= published', version <= version', Running' => Running
  PROVE  IInv'
<1>1. SeqInv' /\ LineGrows(0)
  BY LineStays DEF IInv
<1>2. /\ published' \in Nat /\ version \in Nat /\ version' \in Nat /\ LineLen \in Nat
      /\ Len(Configs) \in Nat /\ version' <= Len(Configs)
  BY LineTypes, PipelineAssumption DEF IInv, LifeInv
<1>3. Known(version) \subseteq Known(version')
  BY <1>2, KnownGrows
<1>4. LineInv'
  BY <1>1, <1>2, <1>3 DEF IInv, LineInv, LineGrows
<1>5. LineLen + 1..LineLen + 0 = {}
  BY <1>2
<1>6. TraceInv' /\ LeftInv' /\ FloodInv' /\ RecordInv'
  BY <1>1, <1>2, <1>5, NoNewAlarm
<1> QED
  BY <1>1, <1>4, <1>6 DEF IInv

LEMMA NotifyStep ==
  ASSUME IInv, NEW t \in Tags, Notify(t)
  PROVE  IInv'
<1>1. t \in Known(subscribed) /\ plant[t] \in Sample
  BY DEF Notify, IInv, LifeInv
<1>2. UNCHANGED <<plant, changes, connected, drops, monitored, rows, durable, engine, confVars>>
  BY DEF Notify, plantVars
<1>3. plant[t].value \in Values
  BY <1>1 DEF Sample
<1>4. Running
  BY <1>1 DEF IInv, LifeInv, Known, Running
<1>5. LifeInv'
  <2>1. unsent' \subseteq monitored /\ lastValue' \in [Tags -> Values \cup {None}]
    BY <1>3 DEF Notify, IInv, LifeInv
  <2> QED
    BY <1>2, <1>4, <2>1 DEF IInv, LifeInv, confVars, Running
<1>6. CASE calls' = calls
  BY <1>2, <1>5, <1>6, VersionFacts, QuietStep DEF confVars, Running, IInv
<1>7. CASE calls' = Append(calls, Reading(t))
  <2>1. Reading(t) \in Row /\ Reading(t).kind = "reading" /\ Reading(t).tag = t /\ Reading(t).life = life
    BY <1>1, VersionFacts DEF Reading, Row, IInv
  <2> DEFINE r == Reading(t)
  <2> HIDE DEF r
  <2>2. r \in Row /\ r.kind = "reading" /\ r.tag = t /\ r.life = life /\ calls' = Append(calls, r)
    BY <1>7, <2>1 DEF r
  <2>3. /\ SeqInv' /\ LineGrows(1) /\ At(LineLen)' = r
        /\ Len(calls') = Len(calls) + 1 /\ calls'[Len(calls) + 1] = r
        /\ \A i \in 1..Len(calls) : calls'[i] = calls[i]
    BY <1>2, <2>2, CallStarts DEF IInv
  <2>4. LineLen \in Nat /\ LineLen' = LineLen + 1 /\ Len(calls) \in Nat
    BY <2>3, LineTypes DEF LineGrows, IInv
  <2>5. life \in 1..life /\ t \in Known(version)
    BY <1>1, <1>4, VersionFacts DEF IInv, LifeInv
  <2>6. LineInv'
    <3>1. ASSUME NEW i \in 1..LineLen' PROVE At(i)'.life \in 1..life
      <4>1. CASE i = LineLen'
        BY <2>2, <2>3, <2>5, <4>1 DEF At
      <4>2. CASE i # LineLen'
        BY <2>3, <2>4, <4>2 DEF IInv, LineInv, LineGrows
      <4> QED
        BY <4>1, <4>2
    <3>2. ASSUME NEW i \in 1..Len(calls') PROVE calls'[i].tag \in Known(version)
      BY <2>2, <2>3, <2>4, <2>5 DEF IInv, LineInv
    <3> QED
      BY <1>2, <3>1, <3>2 DEF LineInv, confVars
  <2>7. ASSUME NEW i \in LineLen + 1..LineLen + 1 PROVE At(i)'.kind # "alarm"
    <3>1. i = LineLen'
      BY <2>4
    <3>2. At(i)' = r
      BY <2>3, <3>1 DEF At
    <3> QED
      BY <2>2, <3>2
  <2>8. /\ SeqInv' /\ LineGrows(1) /\ 1 \in Nat /\ life' = life
        /\ published' \in Nat /\ published <= published'
    BY <1>2, <2>3, VersionFacts DEF IInv, confVars
  <2>9. \A u \in Tags : engine'[u] = engine[u]
    BY <1>2
  <2>10. TraceInv' /\ LeftInv' /\ FloodInv' /\ RecordInv'
    BY <1>4, <2>7, <2>8, <2>9, NoNewAlarm
  <2> QED
    BY <1>5, <2>3, <2>6, <2>10 DEF IInv
<1> QED
  BY <1>6, <1>7 DEF Notify

LEMMA StartStep ==
  ASSUME IInv, Start
  PROVE  IInv'
<1>1. /\ ~Running /\ version' = published /\ subscribed' = published /\ life' = life + 1
      /\ engine' = [t \in Tags |-> "NORMAL"] /\ lastValue' = [t \in Tags |-> None]
      /\ UNCHANGED <<plantVars, linkVars, calls, rows, durable, published>>
  BY DEF Start, bufVars
<1>2. /\ version = 0 /\ subscribed = 0 /\ calls = <<>> /\ life <= MaxFaults /\ ~connected
      /\ monitored = {} /\ unsent = {}
  BY <1>1 DEF IInv, LifeInv, Running, Known
<1>3. LifeInv'
  BY <1>1, <1>2, VersionFacts, PipelineAssumption
  DEF IInv, LifeInv, Running, plantVars, linkVars, States
<1>4. SeqInv' /\ LineGrows(0)
  BY <1>1, LineStays DEF IInv
<1>5. /\ LineLen' = LineLen /\ LineLen \in Nat /\ life \in Nat
      /\ \A i \in 1..LineLen : At(i)' = At(i) /\ At(i).life \in 1..life
  BY <1>4, LineTypes, VersionFacts DEF IInv, LineGrows, LineInv
<1>6. LineInv'
  BY <1>1, <1>2, <1>5 DEF LineInv
<1>7. TraceInv'
  BY <1>1, <1>5 DEF IInv, TraceInv, Traced
<1>8. LeftInv'
  BY <1>1, <1>5 DEF LeftInv
<1>9. FloodInv'
  <2> SUFFICES ASSUME NEW t \in Tags, NEW s \in {"HIGH", "LOW"},
                      NEW i \in 1..LineLen, NEW j \in 1..LineLen, i < j,
                      AlarmAt(i, t, s)', AlarmAt(j, t, s)', At(i)'.life = At(j)'.life
               PROVE  BackBetween(t, s, At(i).reading, At(j).reading)'
    BY <1>5 DEF FloodInv
  <2>1. /\ At(i)' = At(i) /\ At(j)' = At(j) /\ AlarmAt(i, t, s) /\ AlarmAt(j, t, s)
    BY <1>5 DEF AlarmAt, IsAlarm
  <2>2. PICK k \in At(i).reading..At(j).reading : Back(t, s, k)
    BY <2>1 DEF IInv, FloodInv, BackBetween
  <2>3. Back(t, s, k)'
    BY <1>1, <2>2 DEF Back
  <2> QED
    BY <2>1, <2>2, <2>3 DEF BackBetween
<1>10. RecordInv'
  BY <1>1 DEF RecordInv
<1> QED
  BY <1>3, <1>4, <1>6, <1>7, <1>8, <1>9, <1>10 DEF IInv

LEMMA CrashStep ==
  ASSUME IInv, Crash
  PROVE  IInv'
<1>1. /\ Running /\ drops + life <= MaxFaults /\ version' = 0 /\ subscribed' = 0
      /\ connected' = FALSE /\ monitored' = {} /\ unsent' = {}
      /\ rows' = SubSeq(rows, 1, durable) /\ calls' = <<>>
      /\ engine' = [t \in Tags |-> "NORMAL"] /\ lastValue' = [t \in Tags |-> None]
      /\ UNCHANGED <<plant, changes, drops, durable, published, life>>
  BY DEF Crash, plantVars
<1>2. durable \in 0..Len(rows) /\ durable \in Nat
  BY LineTypes DEF IInv, LifeInv
<1>3. /\ SeqInv' /\ LineLen' = durable /\ Len(rows') = durable
      /\ \A i \in 1..durable : i \in 1..LineLen /\ At(i)' = At(i) /\ rows'[i] = rows[i]
  BY <1>1, <1>2, LineCut DEF IInv
<1>4. LifeInv'
  <2>1. life <= MaxFaults
    BY <1>1, PipelineAssumption DEF IInv, LifeInv
  <2>2. /\ ~Running' /\ durable' \in 0..Len(rows') /\ engine' \in [Tags -> States]
        /\ lastValue' \in [Tags -> Values \cup {None}]
    BY <1>1, <1>2, <1>3 DEF Running, States
  <2>3. version' \in 0..published' /\ subscribed' \in 0..version'
    BY <1>1, VersionFacts DEF IInv
  <2> QED
    BY <1>1, <2>1, <2>2, <2>3 DEF IInv, LifeInv
<1>5. LineInv'
  BY <1>1, <1>3 DEF IInv, LineInv
<1>6. ASSUME NEW i \in 1..durable, At(i).kind = "alarm"
      PROVE  Traced(i) /\ At(i).reading \in 1..durable /\ At(i).reading < i
  <2>1. Traced(i)
    BY <1>3, <1>6 DEF IInv, TraceInv
  <2> QED
    BY <1>2, <2>1, LineTypes DEF IInv, Traced
<1>7. TraceInv'
  <2> SUFFICES ASSUME NEW i \in 1..durable, At(i)'.kind = "alarm" PROVE Traced(i)'
    BY <1>3 DEF TraceInv
  <2>1. At(i)' = At(i) /\ Traced(i) /\ At(i).reading \in 1..durable
    BY <1>3, <1>6
  <2>2. rows'[At(i).reading] = rows[At(i).reading]
    BY <1>3, <2>1
  <2> QED
    BY <1>1, <1>3, <2>1, <2>2 DEF Traced
<1>8. LeftInv' /\ RecordInv'
  BY <1>1 DEF LeftInv, RecordInv, Running
<1>9. FloodInv'
  <2> SUFFICES ASSUME NEW t \in Tags, NEW s \in {"HIGH", "LOW"},
                      NEW i \in 1..durable, NEW j \in 1..durable, i < j,
                      AlarmAt(i, t, s)', AlarmAt(j, t, s)', At(i)'.life = At(j)'.life
               PROVE  BackBetween(t, s, At(i).reading, At(j).reading)'
    BY <1>3 DEF FloodInv
  <2>1. /\ At(i)' = At(i) /\ At(j)' = At(j) /\ AlarmAt(i, t, s) /\ AlarmAt(j, t, s)
        /\ At(i).reading \in 1..durable /\ At(j).reading \in 1..durable
    BY <1>3, <1>6 DEF AlarmAt, IsAlarm
  <2>2. PICK k \in At(i).reading..At(j).reading : Back(t, s, k)
    BY <1>3, <2>1 DEF IInv, FloodInv, BackBetween
  <2>3. k \in 1..durable
    BY <1>2, <2>1, <2>2
  <2>4. Back(t, s, k)'
    BY <1>3, <2>2, <2>3 DEF Back
  <2> QED
    BY <2>1, <2>2, <2>4 DEF BackBetween
<1> QED
  BY <1>3, <1>4, <1>5, <1>7, <1>8, <1>9 DEF IInv
-----------------------------------------------------------------------------
(* The ends of calls.                                                      *)

LEMMA HeadFacts ==
  ASSUME IInv, calls # <<>>
  PROVE  /\ Running /\ Head(calls) \in Row /\ Head(calls).tag \in Known(version)
         /\ version \in 1..published /\ version \in 1..Len(Configs)
         /\ Head(calls).tag \in Tags /\ Len(calls) \in Nat \ {0}
<1>1. Head(calls) \in Row /\ Head(calls) = calls[1] /\ Len(calls) \in Nat \ {0}
  BY DEF IInv, SeqInv
<1>2. Running
  BY DEF IInv, LifeInv
<1>3. calls[1].tag \in Known(version)
  BY <1>1 DEF IInv, LineInv
<1>4. version \in 1..published /\ version \in 1..Len(Configs) /\ Known(version) \subseteq Tags
  BY <1>2, VersionFacts DEF IInv
<1> QED
  BY <1>1, <1>2, <1>3, <1>4

\* A call that ends without an alarm.
LEMMA EndStep ==
  ASSUME IInv, calls # <<>>, rows' = Append(rows, Head(calls)), calls' = Tail(calls),
         durable' \in {durable, Len(rows) + 1}, engine' \in [Tags -> States],
         UNCHANGED <<plantVars, linkVars, lastValue, confVars>>,
         \A t \in Tags : \/ engine'[t] = engine[t]
                         \/ /\ engine'[t] = "NORMAL"
                            /\ \A s : engine[t] = s =>
                                 \E k \in Len(rows) + 1..Len(rows') : Back(t, s, k)'
  PROVE  IInv'
<1>1. /\ SeqInv' /\ LineGrows(0) /\ Len(rows') = Len(rows) + 1
      /\ \A i \in 1..Len(calls') : calls'[i] = calls[i + 1]
      /\ Len(calls') + 1 = Len(calls) /\ Len(calls') \in Nat /\ Len(rows) \in Nat
  BY CallEnds, LineTypes DEF IInv, SeqInv
<1>2. Running
  BY HeadFacts
<1>3. LifeInv'
  <2>1. durable' \in 0..Len(rows')
    BY <1>1 DEF IInv, LifeInv
  <2> QED
    BY <1>2, <2>1 DEF IInv, LifeInv, plantVars, linkVars, confVars, Running
<1>4. LineInv'
  <2>1. LineLen \in Nat
    BY LineTypes DEF IInv
  <2>2. LineLen' = LineLen /\ \A i \in 1..LineLen : At(i)' = At(i)
    BY <1>1, <2>1 DEF LineGrows
  <2>3. ASSUME NEW i \in 1..Len(calls') PROVE calls'[i].tag \in Known(version)
    BY <1>1 DEF IInv, LineInv
  <2> QED
    BY <2>2, <2>3 DEF IInv, LineInv, confVars
<1>5. /\ published' \in Nat /\ published <= published' /\ life' = life /\ 0 \in Nat
      /\ LineLen \in Nat
  BY VersionFacts, LineTypes DEF IInv, confVars
<1>6. LineLen + 1..LineLen + 0 = {}
  BY <1>5
<1>7. TraceInv' /\ LeftInv' /\ FloodInv' /\ RecordInv'
  BY <1>1, <1>2, <1>5, <1>6, NoNewAlarm
<1> QED
  BY <1>1, <1>3, <1>4, <1>7 DEF IInv

\* A reading that raises an alarm.
LEMMA RaiseStep ==
  ASSUME IInv, calls # <<>>, rows' = Append(rows, Head(calls)), durable' = Len(rows) + 1,
         UNCHANGED <<plantVars, linkVars, lastValue, confVars>>,
         Head(calls).kind = "reading", Head(calls).sample.quality = "Good",
         NEW t, t = Head(calls).tag,
         NEW s, s = NextState(Configs[version][t], Head(calls).sample.value, engine[t]),
         s \notin {engine[t], "NORMAL"},
         engine' = [engine EXCEPT ![t] = s],
         calls' = Append(Tail(calls), Alarm(Len(rows) + 1, Head(calls), s))
  PROVE  IInv'
<1>1. /\ Running /\ Head(calls) \in Row /\ t \in Known(version) /\ t \in Tags
      /\ version \in 1..published /\ Len(calls) \in Nat \ {0} /\ Len(rows) \in Nat
      /\ life \in Nat /\ published \in Nat
  BY HeadFacts, LineTypes, VersionFacts DEF IInv
<1>2. engine[t] \in States
  BY <1>1 DEF IInv, LifeInv
<1>3. /\ engine[t] = "NORMAL" /\ s \in {"HIGH", "LOW"} /\ s \in States
      /\ s = "HIGH" => AtOrAbove(Head(calls).sample.value, Configs[version][t].max)
      /\ s = "LOW" => AtOrBelow(Head(calls).sample.value, Configs[version][t].min)
  BY <1>2, NextStateFacts DEF States
<1> DEFINE a == Alarm(Len(rows) + 1, Head(calls), s)
<1>4. /\ a \in Row /\ IsAlarm(a, t, s) /\ a.life = life /\ a.reading = Len(rows) + 1
      /\ a.sample = Head(calls).sample /\ a.version = version /\ a.tag = t /\ a.state = s
      /\ a.kind = "alarm"
  BY <1>1, <1>3 DEF Alarm, Row, IsAlarm
<1>5. calls' = Append(Tail(calls), a)
  OBVIOUS
<1> HIDE DEF a
<1>6. /\ SeqInv' /\ LineGrows(1) /\ At(LineLen)' = a
      /\ Len(rows') = Len(rows) + 1 /\ rows'[Len(rows) + 1] = Head(calls)
      /\ Len(calls') = Len(calls) /\ calls'[Len(calls)] = a
      /\ \A i \in 1..Len(calls) - 1 : calls'[i] = calls[i + 1]
  BY <1>4, <1>5, CallEndsAndStarts DEF IInv
<1>7. LineLen \in Nat /\ LineLen' = LineLen + 1 /\ Len(rows) + 1 < LineLen'
  BY <1>1, <1>6, LineTypes DEF LineGrows, LineLen, IInv
<1>8. LifeInv'
  <2>1. engine' \in [Tags -> States] /\ durable' \in 0..Len(rows')
    BY <1>1, <1>3, <1>6 DEF IInv, LifeInv
  <2> QED
    BY <1>1, <2>1 DEF IInv, LifeInv, plantVars, linkVars, confVars, Running
<1>9. LineInv'
  <2>1. ASSUME NEW i \in 1..LineLen' PROVE At(i)'.life \in 1..life
    <3>1. CASE i = LineLen'
      <4>1. life >= 1
        BY <1>1 DEF IInv, LifeInv
      <4>2. At(i)' = a
        BY <1>6, <3>1 DEF At
      <4> QED
        BY <1>1, <1>4, <4>1, <4>2
    <3>2. CASE i # LineLen'
      BY <1>6, <1>7, <3>2 DEF IInv, LineInv, LineGrows
    <3> QED
      BY <3>1, <3>2
  <2>2. ASSUME NEW i \in 1..Len(calls') PROVE calls'[i].tag \in Known(version)
    <3>1. CASE i = Len(calls)
      BY <1>1, <1>4, <1>6, <3>1
    <3>2. CASE i # Len(calls)
      <4>1. Len(calls') = Len(calls) /\ Len(calls) \in Nat
        BY <1>1, <1>6
      <4>2. i \in 1..Len(calls) - 1 /\ i + 1 \in 1..Len(calls)
        BY <3>2, <4>1
      <4> QED
        BY <1>6, <4>2 DEF IInv, LineInv
    <3> QED
      BY <3>1, <3>2
  <2> QED
    BY <2>1, <2>2 DEF LineInv, confVars
<1>10. Traced(LineLen)'
  <2>1. /\ published' = published
        /\ rows'[a.reading] = Head(calls) /\ a.reading \in 1..Len(rows') /\ a.reading < LineLen'
    BY <1>1, <1>4, <1>6, <1>7 DEF confVars
  <2> QED
    BY <1>1, <1>3, <1>4, <1>6, <2>1 DEF Traced
<1>11. published' = published /\ life' = life
  BY DEF confVars
<1>12. TraceInv' /\ LeftInv' /\ FloodInv' /\ RecordInv'
  BY <1>1, <1>3, <1>4, <1>6, <1>10, <1>11, NewAlarm
<1> QED
  BY <1>6, <1>8, <1>9, <1>12 DEF IInv

LEMMA ReturnStep ==
  ASSUME IInv, EnqueueReturns
  PROVE  IInv'
<1>1. /\ calls # <<>> /\ rows' = Append(rows, Head(calls)) /\ durable' = Len(rows) + 1
      /\ UNCHANGED <<plantVars, linkVars, lastValue, confVars>>
  BY DEF EnqueueReturns
<1>2. PICK t \in Tags : t = Head(calls).tag
  BY <1>1, HeadFacts
<1>3. PICK s \in States :
        s = NextState(Configs[version][t], Head(calls).sample.value, engine[t])
  BY NextStateFacts DEF IInv, LifeInv
<1>4. engine \in [Tags -> States] /\ t \in Known(version) /\ version \in 1..Len(Configs)
  BY <1>1, <1>2, HeadFacts DEF IInv, LifeInv
<1>5. Len(rows) \in Nat /\ Len(rows') = Len(rows) + 1 /\ rows'[Len(rows) + 1] = Head(calls)
  BY <1>1, HeadFacts DEF IInv, SeqInv
<1>6. CASE engine' = engine /\ calls' = Tail(calls)
  BY <1>1, <1>4, <1>6, EndStep
<1>7. CASE Head(calls).kind = "reading" /\ Head(calls).sample.quality = "Good"
  <2>1. /\ engine' = [engine EXCEPT ![t] = s]
        /\ calls' = IF s \in {engine[t], "NORMAL"} THEN Tail(calls)
                    ELSE Append(Tail(calls), Alarm(Len(rows) + 1, Head(calls), s))
    BY <1>2, <1>3, <1>7 DEF EnqueueReturns, Evaluate
  <2>2. CASE s \notin {engine[t], "NORMAL"}
    <3>1. calls' = Append(Tail(calls), Alarm(Len(rows) + 1, Head(calls), s))
      BY <2>1, <2>2
    <3> QED
      BY <1>1, <1>2, <1>3, <1>7, <2>1, <2>2, <3>1, RaiseStep
  <2>3. CASE s = engine[t]
    BY <1>4, <1>6, <2>1, <2>3
  <2>4. CASE s = "NORMAL" /\ engine[t] # "NORMAL"
    <3>1. /\ calls' = Tail(calls) /\ engine' \in [Tags -> States]
          /\ engine'[t] = "NORMAL" /\ \A u \in Tags : u # t => engine'[u] = engine[u]
      BY <1>4, <2>1, <2>4 DEF States
    <3>2. engine[t] \in States /\ engine[t] \in {"HIGH", "LOW"}
      BY <1>4, <2>4 DEF States
    <3>3. /\ engine[t] = "HIGH" => ClearsHigh(Configs[version][t], Head(calls).sample.value)
          /\ engine[t] = "LOW" => ClearsLow(Configs[version][t], Head(calls).sample.value)
      BY <1>3, <2>4, <3>2, NextStateFacts
    <3>4. ASSUME NEW z, engine[t] = z PROVE \E k \in Len(rows) + 1..Len(rows') : Back(t, z, k)'
      <4>1. PICK k \in Len(rows) + 1..Len(rows') : rows'[k] = Head(calls)
        BY <1>5
      <4>2. Back(t, z, k)'
        BY <1>2, <1>4, <1>7, <3>2, <3>3, <3>4, <4>1 DEF Back
      <4> QED
        BY <4>1, <4>2
    <3>5. \A u \in Tags : \/ engine'[u] = engine[u]
                          \/ /\ engine'[u] = "NORMAL"
                             /\ \A z : engine[u] = z =>
                                  \E k \in Len(rows) + 1..Len(rows') : Back(u, z, k)'
      BY <3>1, <3>4
    <3> QED
      BY <1>1, <3>1, <3>5, EndStep
  <2> QED
    BY <2>2, <2>3, <2>4
<1> QED
  BY <1>6, <1>7 DEF EnqueueReturns, Evaluate
-----------------------------------------------------------------------------
(* The invariant.                                                          *)

LEMMA InitIInv ==
  ASSUME Init
  PROVE  IInv
<1>1. rows = <<>> /\ calls = <<>> /\ Len(rows) = 0 /\ Len(calls) = 0 /\ LineLen = 0
  BY DEF Init, LineLen
<1>2. SeqInv
  BY <1>1 DEF SeqInv
<1>3. LifeInv
  <2>1. plant \in [Tags -> Sample]
    BY PipelineAssumption DEF Init, Sample
  <2>2. /\ lastValue \in [Tags -> Values \cup {None}] /\ engine \in [Tags -> States]
        /\ monitored \subseteq Known(subscribed) /\ ~Running
    BY DEF Init, Known, States, Running
  <2>3. /\ changes \in 0..MaxChanges /\ drops \in 0..MaxFaults
        /\ published \in 1..Len(Configs) /\ life \in 0..(MaxFaults + 1) /\ life <= MaxFaults
    BY PipelineAssumption DEF Init
  <2>4. /\ durable \in 0..Len(rows) /\ version \in 0..published /\ subscribed \in 0..version
        /\ unsent \subseteq monitored
    BY <1>1 DEF Init
  <2>5. connected \in BOOLEAN /\ ~connected
    BY Zenon DEF Init
  <2> QED
    BY <1>1, <2>1, <2>2, <2>3, <2>4, <2>5 DEF LifeInv
<1>4. 1..LineLen = {} /\ 1..Len(calls) = {}
  BY <1>1
<1>5. LineInv /\ TraceInv /\ LeftInv /\ FloodInv
  BY <1>4 DEF LineInv, TraceInv, LeftInv, FloodInv
<1>6. RecordInv
  BY DEF Init, RecordInv
<1> QED
  BY <1>2, <1>3, <1>5, <1>6 DEF IInv

LEMMA StepKeeps ==
  ASSUME IInv, [Next]_vars
  PROVE  IInv'
<1> USE DEF plantVars, linkVars, bufVars, confVars
<1>1. ASSUME NEW t \in Tags, NEW v \in Values, NEW q \in Qualities, Change(t, v, q)
      PROVE  IInv'
  <2>1. plant' \in [Tags -> Sample] /\ changes' \in 0..MaxChanges
    <3>1. changes \in Nat /\ changes + 1 \in 0..MaxChanges
      BY <1>1, PipelineAssumption DEF Change, IInv, LifeInv
    <3> QED
      BY <1>1, <3>1 DEF Change, IInv, LifeInv, Sample
  <2>2. unsent' \subseteq monitored
    BY <1>1 DEF Change, IInv, LifeInv
  <2>3. LifeInv'
    BY <1>1, <2>1, <2>2 DEF Change, IInv, LifeInv, Running
  <2> QED
    BY <1>1, <2>3, VersionFacts, QuietStep DEF Change, IInv, Running
<1>2. CASE Connect
  <2>1. LifeInv'
    BY <1>2 DEF Connect, IInv, LifeInv, Running
  <2> QED
    BY <1>2, <2>1, VersionFacts, QuietStep DEF Connect, IInv, Running
<1>3. CASE LoseSession
  <2>1. drops' \in 0..MaxFaults
    BY <1>3, PipelineAssumption DEF LoseSession, IInv, LifeInv
  <2>2. LifeInv'
    BY <1>3, <2>1 DEF LoseSession, IInv, LifeInv, Running
  <2> QED
    BY <1>3, <2>2, VersionFacts, QuietStep DEF LoseSession, IInv, Running
<1>4. ASSUME NEW p \in PLCs, Subscribe(p) PROVE IInv'
  <2>1. monitored' \subseteq Known(subscribed) /\ unsent' \subseteq monitored'
    BY <1>4 DEF Subscribe, IInv, LifeInv
  <2>2. LifeInv'
    BY <1>4, <2>1 DEF Subscribe, IInv, LifeInv, Running, Known
  <2> QED
    BY <1>4, <2>2, VersionFacts, QuietStep DEF Subscribe, IInv, Running
<1>5. ASSUME NEW t \in Tags, Notify(t) PROVE IInv'
  BY <1>5, NotifyStep
<1>6. CASE EnqueueReturns
  BY <1>6, ReturnStep
<1>7. CASE EnqueueRaises
  BY <1>7, EndStep DEF EnqueueRaises, IInv, LifeInv
<1>8. CASE Publish
  <2>1. published' \in 1..Len(Configs) /\ published <= published' /\ version \in 0..published'
    BY <1>8, PipelineAssumption DEF Publish, IInv, LifeInv
  <2>2. LifeInv'
    BY <1>8, <2>1 DEF Publish, IInv, LifeInv, Running
  <2> QED
    BY <1>8, <2>1, <2>2, VersionFacts, QuietStep DEF Publish, IInv, Running
<1>9. CASE RefreshConfig
  <2>1. version' \in 1..published /\ version <= version' /\ subscribed \in 0..version'
    BY <1>9, VersionFacts DEF RefreshConfig, IInv
  <2>2. Running /\ Running'
    BY <1>9, <2>1 DEF RefreshConfig, Running
  <2>3. LifeInv'
    BY <1>9, <2>1, <2>2 DEF RefreshConfig, IInv, LifeInv
  <2>4. published <= published'
    BY <1>9, VersionFacts DEF RefreshConfig, IInv
  <2> QED
    BY <1>9, <2>1, <2>2, <2>3, <2>4, QuietStep DEF RefreshConfig
<1>10. CASE Start
  BY <1>10, StartStep
<1>11. CASE Crash
  BY <1>11, CrashStep
<1>12. CASE UNCHANGED vars
  <2>1. LifeInv'
    BY <1>12 DEF vars, IInv, LifeInv, Running
  <2> QED
    BY <1>12, <2>1, VersionFacts, QuietStep DEF vars, IInv, Running
<1> QED
  BY <1>1, <1>2, <1>3, <1>4, <1>5, <1>6, <1>7, <1>8, <1>9, <1>10, <1>11, <1>12 DEF Next

LEMMA Invariant == Spec => []IInv
<1>1. Init => IInv
  BY InitIInv
<1>2. IInv /\ [Next]_vars => IInv'
  BY StepKeeps
<1> QED
  BY <1>1, <1>2, PTL DEF Spec
-----------------------------------------------------------------------------
(* The theorems.                                                           *)

LEMMA RowsAreTyped ==
  ASSUME IInv, NEW i \in 1..LineLen
  PROVE  RowOK(At(i))
<1>1. At(i) \in Row /\ At(i).life \in 1..life
  BY LineTypes DEF IInv, LineInv
<1>2. ASSUME At(i).kind = "alarm"
      PROVE  /\ At(i).state \in States /\ At(i).version \in 1..published
             /\ At(i).reading \in 1..Len(rows)
  BY <1>2 DEF IInv, TraceInv, Traced, States
<1> QED
  BY <1>1, <1>2 DEF RowOK, Row

\* The state of gateway, session, gate, buffer, engine and settings is well
\* typed: what is monitored has settings, and what is unsent is monitored.
THEOREM TypeCorrect == Spec => []TypeOK
<1>1. IInv => TypeOK
  <2> SUFFICES ASSUME IInv PROVE TypeOK
    OBVIOUS
  <2>1. ASSUME NEW i \in 1..Len(calls) PROVE RowOK(calls[i])
    BY LineTypes, RowsAreTyped DEF IInv
  <2>2. ASSUME NEW i \in 1..Len(rows) PROVE RowOK(rows[i])
    BY LineTypes, RowsAreTyped DEF IInv
  <2> QED
    BY <2>1, <2>2 DEF IInv, LifeInv, TypeOK
<1> QED
  BY <1>1, Invariant, PTL

LEMMA AlarmRowFacts ==
  ASSUME IInv, NEW t, NEW s, NEW i \in AlarmRows(t, s)
  PROVE  /\ i \in 1..LineLen /\ At(i) = rows[i] /\ AlarmAt(i, t, s) /\ Traced(i)
         /\ rows[i].kind = "alarm" /\ rows[i].tag = t /\ rows[i].state = s
<1>1. i \in 1..LineLen /\ At(i) = rows[i] /\ IsAlarm(rows[i], t, s)
  BY LineTypes DEF IInv, AlarmRows
<1> QED
  BY <1>1 DEF AlarmAt, IsAlarm, IInv, TraceInv

\* Every alarm in the buffer goes back to a Good reading of its tag before it,
\* which breaches the limit of the settings the alarm names; a crash that cuts
\* off the uncommitted rows cannot take the reading and leave the alarm.
THEOREM AlarmsTraceable == Spec => []AlarmsAreTraceable
<1>1. IInv => AlarmsAreTraceable
  BY AlarmRowFacts DEF AlarmsAreTraceable, Traced
<1> QED
  BY <1>1, Invariant, PTL

\* Two alarms of one life for the same limit have a reading between them that goes
\* back past the limit by the margin, whatever the settings became meanwhile.
THEOREM NoFlooding == Spec => []NoFlood
<1>1. IInv => NoFlood
  <2> SUFFICES ASSUME IInv, NEW t \in Tags, NEW s \in {"HIGH", "LOW"},
                      NEW i \in AlarmRows(t, s), NEW j \in AlarmRows(t, s),
                      i < j, rows[i].life = rows[j].life
               PROVE  BackBetween(t, s, rows[i].reading, rows[j].reading)
    BY DEF NoFlood, BackBetween, Back
  <2> QED
    BY AlarmRowFacts DEF IInv, FloodInv
<1> QED
  BY <1>1, Invariant, PTL

\* A tag in an alarm state has an alarm of this life in the buffer, or in a call
\* that is still to write it: also after an enqueue() that raised.
THEOREM StateRecorded == Spec => []StateIsOnRecord
<1>1. IInv => StateIsOnRecord
  <2> SUFFICES ASSUME IInv, NEW t \in Tags, engine[t] # "NORMAL"
               PROVE  \/ \E i \in AlarmRows(t, engine[t]) : rows[i].life = life
                      \/ \E i \in 1..Len(calls) : IsAlarm(calls[i], t, engine[t])
    BY DEF StateIsOnRecord
  <2>1. PICK i \in 1..LineLen : AlarmAt(i, t, engine[t]) /\ At(i).life = life
    BY DEF IInv, RecordInv
  <2>2. Len(rows) \in Nat /\ Len(calls) \in Nat
    BY LineTypes DEF IInv
  <2>3. CASE i <= Len(rows)
    BY <2>1, <2>2, <2>3 DEF At, AlarmAt, AlarmRows
  <2>4. CASE i > Len(rows)
    <3>1. i - Len(rows) \in 1..Len(calls)
      BY <2>1, <2>2, <2>4 DEF LineLen
    <3>2. IsAlarm(calls[i - Len(rows)], t, engine[t])
      BY <2>1, <2>2, <2>4 DEF At, AlarmAt
    <3> QED
      BY <3>1, <3>2
  <2> QED
    BY <2>2, <2>3, <2>4
<1> QED
  BY <1>1, Invariant, PTL
-----------------------------------------------------------------------------
(* The settings.                                                           *)

Offered == [v \in 1..published |-> SettingsOf(v)]

LEMMA OfferedFacts ==
  ASSUME IInv
  PROVE  Len(Offered) = published /\ \A v \in 1..published : Offered[v] = SettingsOf(v)
<1>1. published \in Nat
  BY PipelineAssumption DEF IInv, LifeInv
<1> QED
  BY <1>1 DEF Offered

\* What version v has of a tag, and the nothing that a stopped collector has.
LEMMA SettingsFacts ==
  /\ SettingsOf(0) = F!Unset
  /\ \A v : DOMAIN SettingsOf(v) = Tags
  BY DEF SettingsOf, Known, F!Unset

LEMMA SettingsStep ==
  ASSUME IInv, [Next]_vars, IInv'
  PROVE  [F!Offer \/ F!TakeOver \/ F!Forget]_(F!fvars)
<1> USE DEF confVars
<1>1. /\ published \in Nat /\ version \in 0..published
      /\ published' \in Nat /\ version' \in 0..published'
  BY PipelineAssumption DEF IInv, LifeInv
<1>2. /\ Len(Offered) = published /\ \A v \in 1..published : Offered[v] = SettingsOf(v)
      /\ Len(Offered') = published' /\ \A v \in 1..published' : Offered'[v] = SettingsOf(v)
  <2>1. Len(Offered') = published' /\ \A v \in 1..published' : Offered'[v] = SettingsOf(v)
    BY <1>1 DEF Offered, SettingsOf, Known
  <2> QED
    BY <2>1, OfferedFacts
<1>3. SettingsOf(version)' = SettingsOf(version')
  BY DEF SettingsOf, Known
<1>4. ASSUME published' = published, version' = version PROVE UNCHANGED F!fvars
  <2>1. Offered' = Offered
    BY <1>4 DEF Offered, SettingsOf, Known
  <2>2. SettingsOf(version)' = SettingsOf(version)
    BY <1>3, <1>4
  <2> QED
    BY <2>1, <2>2 DEF F!fvars, Offered
<1>5. CASE Publish
  <2>1. published' = published + 1 /\ version' = version
    BY <1>5 DEF Publish
  <2>2. SettingsOf(version)' = SettingsOf(version)
    BY <1>3, <2>1
  <2> QED
    BY <1>1, <1>2, <2>1, <2>2 DEF F!Offer, Offered
<1>6. CASE RefreshConfig \/ Start
  <2>1. published' = published /\ version' = published
    BY <1>1, <1>6 DEF RefreshConfig, Start
  <2>2. /\ published \in 1..published /\ Offered' = Offered
        /\ SettingsOf(version)' = Offered[published]
    BY <1>1, <1>2, <1>3, <2>1 DEF Offered, SettingsOf, Known, IInv, LifeInv
  <2>3. ASSUME NEW t \in Tags
        PROVE  \/ SettingsOf(version)[t] = None
               \/ \E j \in 1..published : SettingsOf(version)[t] = Offered[j][t]
    <3>1. CASE version = 0
      BY <3>1 DEF SettingsOf, Known
    <3>2. CASE version # 0
      BY <1>1, <1>2, <3>2
    <3> QED
      BY <3>1, <3>2
  <2>4. \A t \in Tags : F!Follows(t, published)
    BY <2>2, <2>3 DEF F!Follows, Offered
  <2>5. DOMAIN SettingsOf(version)' = Tags
    BY <1>3, SettingsFacts
  <2> QED
    BY <1>2, <2>2, <2>4, <2>5 DEF F!TakeOver, Offered
<1>7. CASE Crash
  <2>1. version' = 0 /\ published' = published
    BY <1>7 DEF Crash
  <2>2. SettingsOf(version)' = F!Unset /\ Offered' = Offered
    BY <1>3, <2>1, SettingsFacts DEF Offered, SettingsOf, Known
  <2> QED
    BY <2>2 DEF F!Forget, Offered
<1> QED
  BY <1>4, <1>5, <1>6, <1>7 DEF Next, Change, Connect, LoseSession, Subscribe, Notify,
     EnqueueReturns, EnqueueRaises, vars

\* The settings of the alarm path move as SettingsFeed allows, the feed that TagConfigSync
\* implements: versions in their order, of every tag it has a row for, none after a crash.
THEOREM SettingsFollowTheFeed == Spec => SettingsAreAFeed
<1>1. Init => F!FInit
  <2> SUFFICES ASSUME Init PROVE F!FInit
    OBVIOUS
  <2>1. published = 1 /\ version = 0
    BY DEF Init
  <2>2. Len([v \in 1..1 |-> SettingsOf(v)]) = 1
    OBVIOUS
  <2> QED
    BY <2>1, <2>2, SettingsFacts DEF F!FInit
<1>2. IInv /\ [Next]_vars /\ IInv' => [F!Offer \/ F!TakeOver \/ F!Forget]_(F!fvars)
  BY SettingsStep
<1> QED
  BY <1>1, <1>2, Invariant, PTL DEF Spec, SettingsAreAFeed, F!FSpec
=============================================================================
