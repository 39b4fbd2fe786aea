-------------------------- MODULE TagConfigSyncProofs --------------------------
(***************************************************************************)
(* Proofs about TagConfigSync, for any set of tags and writers and any     *)
(* number of versions, and whatever overlaps, fails or is half applied: no *)
(* assumption is made about the writers or about the sequence.             *)
(***************************************************************************)
EXTENDS TagConfigSync, TLAPS

-----------------------------------------------------------------------------
(* Types.                                                                  *)

LEMMA TypeStep == TypeOK /\ [Next]_vars => TypeOK'
<1> SUFFICES ASSUME TypeOK, [Next]_vars PROVE TypeOK'
  OBVIOUS
<1> USE DEF TypeOK, Answers, writerVars, pollVars, NoRows
<1>1. ASSUME NEW w \in Writers, NextVal(w) PROVE TypeOK'
  BY <1>1 DEF NextVal
<1>2. ASSUME NEW w \in Writers, NEW t \in Tags, Upsert(w, t) PROVE TypeOK'
  BY <1>2 DEF Upsert
<1>3. ASSUME NEW w \in Writers, WriterEnds(w) PROVE TypeOK'
  BY <1>3 DEF WriterEnds
<1>4. CASE Ask
  BY <1>4 DEF Ask
<1>5. CASE SelectRows
  <2>1. Changed(since) \in [Tags -> Nat] /\ Len(past) \in Nat
    BY DEF Changed
  <2> QED
    BY <1>5, <2>1 DEF SelectRows
<1>6. CASE SelectLastValue
  BY <1>6 DEF SelectLastValue
<1>7. \A S : Merged(S) \in [Tags -> Nat]
  BY DEF Merged
<1>8. CASE Apply
  <2>1. answer.current \in Nat /\ store' \in [Tags -> Nat] /\ since' = answer.current
        /\ overtaken' = overtaken \cup ((1..answer.current) \ WrittenBy(asOf))
    BY <1>7, <1>8 DEF Apply, MoveTo
  <2>2. (1..answer.current) \ WrittenBy(asOf) \subseteq Nat
    BY <2>1
  <2>3. overtaken' \subseteq Nat
    BY <2>1, <2>2
  <2>4. UNCHANGED writerVars /\ poll' = "idle" /\ asOf' = 0
        /\ answer' = [rows |-> NoRows, current |-> 0]
    BY <1>8 DEF Apply, PollEnds
  <2> QED
    BY <2>1, <2>3, <2>4
<1>9. CASE ApplyRaises
  BY <1>7, <1>9 DEF ApplyRaises, PollEnds
<1>10. CASE PollFails
  BY <1>10 DEF PollFails, PollEnds
<1>11. CASE Restart
  BY <1>11 DEF Restart, PollEnds
<1>12. CASE UNCHANGED vars
  BY <1>12 DEF vars
<1> QED
  BY <1>1, <1>2, <1>3, <1>4, <1>5, <1>6, <1>8, <1>9, <1>10, <1>11, <1>12
  DEF Next, Write, Poll

LEMMA InitType == Init => TypeOK
<1> SUFFICES ASSUME Init PROVE TypeOK
  OBVIOUS
<1>1. NoRows \in [Tags -> Nat]
  BY DEF NoRows
<1>2. past \in Seq([Tags -> Nat])
  BY <1>1 DEF Init
<1>3. answer \in Answers
  BY <1>1 DEF Init, Answers
<1> QED
  BY <1>1, <1>2, <1>3 DEF Init, TypeOK

\* Every variable keeps its type, whatever overlaps or fails.
THEOREM TypeCorrect == Spec => []TypeOK
<1>1. Init => TypeOK
  BY InitType
<1>2. TypeOK /\ [Next]_vars => TypeOK'
  BY TypeStep
<1> QED
  BY <1>1, <1>2, PTL DEF Spec
-----------------------------------------------------------------------------
(* The writers: a version that is on its way has not been written.         *)

Writing == {stamp[w] : w \in Writers} \ {0}
Written == WrittenBy(Len(past))

WritersInv ==
  /\ Len(past) > 0 /\ past[1] = NoRows /\ past[Len(past)] = table
  /\ \A v \in Writing : v <= lastValue /\ v \notin Written
  /\ \A v, w \in Writers : stamp[v] # 0 /\ stamp[v] = stamp[w] => v = w
  /\ \A i \in 1..Len(past) : \A t \in Tags : past[i][t] <= lastValue
  /\ ~isCalled => Writing = {} /\ \A i \in 1..Len(past) : \A t \in Tags : past[i][t] = 0

\* A write puts one more table behind those there have been.
LEMMA TableIsAdded ==
  ASSUME TypeOK, WritersInv, NEW w \in Writers, NEW t \in Tags, Upsert(w, t)
  PROVE  /\ Len(past') = Len(past) + 1 /\ past'[Len(past')] = table'
         /\ \A i \in 1..Len(past) : past'[i] = past[i]
         /\ \A u \in Tags : table'[u] = IF u = t THEN stamp[w] ELSE past[Len(past)][u]
<1>1. table' \in [Tags -> Nat]
  BY DEF Upsert, TypeOK
<1>2. past' = Append(past, table') /\ past \in Seq([Tags -> Nat])
  BY DEF Upsert, TypeOK
<1>3. \A u \in Tags : table'[u] = IF u = t THEN stamp[w] ELSE past[Len(past)][u]
  BY DEF Upsert, TypeOK, WritersInv
<1> QED
  BY <1>1, <1>2, <1>3

\* What was written stays written, and a write adds its own version only.
LEMMA WrittenGrows ==
  ASSUME TypeOK, WritersInv, NEW w \in Writers, NEW t \in Tags, Upsert(w, t)
  PROVE  /\ \A n \in 0..Len(past) : WrittenBy(n)' = WrittenBy(n)
         /\ Written' = Written \cup {stamp[w]}
<1>0. Len(past) \in Nat
  BY DEF TypeOK
<1>1. ASSUME NEW n \in 0..Len(past) PROVE WrittenBy(n)' = WrittenBy(n)
  BY <1>0, TableIsAdded DEF WrittenBy
<1>2. \A v \in Written' : v \in Written \cup {stamp[w]}
  <2> SUFFICES ASSUME NEW i \in 1..Len(past'), NEW u \in Tags
               PROVE  past'[i][u] \in Written \cup {stamp[w]}
    BY DEF Written, WrittenBy
  <2>1. CASE i \in 1..Len(past)
    BY <2>1, TableIsAdded DEF Written, WrittenBy
  <2>2. CASE i = Len(past')
    <3>1. past[Len(past)][u] \in Written
      BY <1>0 DEF Written, WrittenBy, WritersInv
    <3> QED
      BY <2>2, <3>1, TableIsAdded
  <2> QED
    BY <1>0, <2>1, <2>2, TableIsAdded
<1>3. Written \subseteq Written'
  BY <1>0, TableIsAdded DEF Written, WrittenBy
<1>4. stamp[w] \in Written'
  <2>1. past'[Len(past')][t] = stamp[w] /\ Len(past') \in 1..Len(past')
    BY <1>0, TableIsAdded
  <2> QED
    BY <2>1 DEF Written, WrittenBy
<1> QED
  BY <1>1, <1>2, <1>3, <1>4

LEMMA WritersStep ==
  ASSUME TypeOK, WritersInv, [Next]_vars
  PROVE  WritersInv'
<1> USE DEF writerVars, pollVars
<1>0. Len(past) \in Nat /\ lastValue \in Nat
  BY DEF TypeOK
<1>1. ASSUME NEW w \in Writers, NextVal(w) PROVE WritersInv'
  <2>1. /\ lastValue' \in Nat /\ lastValue <= lastValue' /\ isCalled'
        /\ past' = past /\ table' = table /\ stamp[w] = 0
        /\ \A v \in Writers : stamp'[v] = IF v = w THEN lastValue' ELSE stamp[v]
    BY <1>0, <1>1 DEF NextVal, TypeOK
  <2>2. \A i \in 1..Len(past) : \A t \in Tags : past[i][t] \in Nat
    BY DEF TypeOK
  <2>3. \A i \in 1..Len(past) : \A t \in Tags : past[i][t] <= lastValue'
    BY <1>0, <2>1, <2>2 DEF WritersInv
  <2>4. lastValue' = 0 \/ lastValue' \notin Written
    BY <1>0, <1>1, <2>2 DEF NextVal, WritersInv, Written, WrittenBy
  <2>5. \A v \in Writers : stamp[v] # 0 => stamp[v] # lastValue'
    <3> SUFFICES ASSUME NEW v \in Writers, stamp[v] # 0 PROVE stamp[v] # lastValue'
      OBVIOUS
    <3>1. stamp[v] \in Writing /\ stamp[v] \in Nat
      BY DEF Writing, TypeOK
    <3>2. isCalled /\ stamp[v] <= lastValue
      BY <3>1 DEF WritersInv, TypeOK
    <3>3. lastValue' = lastValue + 1
      BY <1>1, <3>2 DEF NextVal
    <3> QED
      BY <1>0, <3>1, <3>2, <3>3
  <2>6. Written' = Written
    BY <2>1 DEF Written, WrittenBy
  <2>7. \A v \in Writing' : v = lastValue' \/ v \in Writing
    BY <2>1 DEF Writing
  <2>8. \A v \in Writing' : v <= lastValue' /\ v \notin Written'
    <3> SUFFICES ASSUME NEW v \in Writing' PROVE v <= lastValue' /\ v \notin Written'
      OBVIOUS
    <3>1. v # 0
      BY DEF Writing
    <3>2. CASE v = lastValue'
      BY <2>1, <2>4, <2>6, <3>1, <3>2
    <3>3. CASE v \in Writing
      <4>1. v \in Nat /\ v <= lastValue /\ v \notin Written
        BY <3>3 DEF WritersInv, Writing, TypeOK
      <4> QED
        BY <1>0, <2>1, <2>6, <4>1
    <3> QED
      BY <2>7, <3>2, <3>3
  <2>9. \A u, v \in Writers : stamp'[u] # 0 /\ stamp'[u] = stamp'[v] => u = v
    BY <2>1, <2>5 DEF WritersInv
  <2> QED
    BY <2>1, <2>3, <2>8, <2>9 DEF WritersInv, NoRows
<1>2. ASSUME NEW w \in Writers, NEW t \in Tags, Upsert(w, t) PROVE WritersInv'
  <2>1. /\ stamp[w] # 0 /\ lastValue' = lastValue /\ isCalled' = isCalled
        /\ \A v \in Writers : stamp'[v] = IF v = w THEN 0 ELSE stamp[v]
    BY <1>2 DEF Upsert, TypeOK
  <2>2. stamp[w] \in Writing /\ isCalled
    BY <2>1 DEF Writing, WritersInv
  <2>3. Written' = Written \cup {stamp[w]}
    BY <1>2, WrittenGrows
  <2>4. \A v \in Writing' : v \in Writing /\ v # stamp[w]
    BY <2>1 DEF Writing, WritersInv
  <2>5. \A v \in Written' : v <= lastValue
    <3>1. \A v \in Written : v <= lastValue
      BY DEF WritersInv, Written, WrittenBy
    <3>2. stamp[w] <= lastValue
      BY <2>2 DEF WritersInv
    <3> QED
      BY <2>3, <3>1, <3>2
  <2>6. \A i \in 1..Len(past') : \A u \in Tags : past'[i][u] <= lastValue'
    BY <2>1, <2>5 DEF Written, WrittenBy
  <2>7. Len(past') > 0 /\ past'[1] = NoRows /\ past'[Len(past')] = table'
    BY <1>0, <1>2, TableIsAdded DEF WritersInv
  <2>8. \A v \in Writing' : v <= lastValue' /\ v \notin Written'
    BY <2>1, <2>3, <2>4 DEF WritersInv
  <2>9. \A u, v \in Writers : stamp'[u] # 0 /\ stamp'[u] = stamp'[v] => u = v
    BY <2>1 DEF WritersInv
  <2> QED
    BY <2>1, <2>2, <2>6, <2>7, <2>8, <2>9 DEF WritersInv, NoRows
<1>3. ASSUME NEW w \in Writers, WriterEnds(w) PROVE WritersInv'
  <2>1. /\ UNCHANGED <<lastValue, isCalled, table, past>>
        /\ \A v \in Writers : stamp'[v] = IF v = w THEN 0 ELSE stamp[v]
    BY <1>3 DEF WriterEnds, TypeOK
  <2>2. Writing' \subseteq Writing /\ Written' = Written
    BY <2>1 DEF Writing, Written, WrittenBy
  <2> QED
    BY <2>1, <2>2 DEF WritersInv, NoRows
<1>4. ASSUME UNCHANGED writerVars PROVE WritersInv'
  BY <1>4 DEF WritersInv, Writing, Written, WrittenBy, NoRows
<1> QED
  BY <1>1, <1>2, <1>3, <1>4
  DEF Next, Write, Poll, Ask, SelectRows, SelectLastValue, Apply, ApplyRaises, PollFails,
      Restart, vars
-----------------------------------------------------------------------------
(* The collector: its copy of each row is of a moment it has reached.      *)

Reading == poll \in {"rows", "answered"}

\* The moment up to which the collector has been told: that of the answer under way.
Reached == IF Reading THEN asOf ELSE Len(past)

CollectorInv ==
  /\ since <= lastValue
  /\ poll = "answered" => since <= answer.current /\ answer.current <= lastValue
  /\ Reading => asOf \in 1..Len(past)
  /\ \A t \in Tags : store[t] = 0 \/ \E i \in 1..Reached : store[t] = past[i][t]
  /\ Reading => \A t \in Tags :
       answer.rows[t] = IF past[asOf][t] > since THEN past[asOf][t] ELSE 0

\* A row as it is after a step is as it was, or is the answer's, of a later moment.
LEMMA MergedIsOfTheMoment ==
  ASSUME TypeOK, WritersInv, CollectorInv, Reading, NEW S \in SUBSET Returned, NEW t \in Tags
  PROVE  /\ asOf \in 1..Len(past)
         /\ \/ Merged(S)[t] = store[t]
            \/ Merged(S)[t] = past[asOf][t]
         /\ store[t] = 0 \/ \E i \in 1..asOf : store[t] = past[i][t]
<1>1. CASE t \in S
  <2>1. answer.rows[t] = past[asOf][t]
    BY <1>1 DEF Returned, CollectorInv
  <2> QED
    BY <1>1, <2>1 DEF Merged, CollectorInv, Reached
<1>2. CASE t \notin S
  BY <1>2 DEF Merged, CollectorInv, Reached
<1> QED
  BY <1>1, <1>2

\* The rows that a step applies are some of those returned.
LEMMA StoreStep ==
  ASSUME Apply \/ ApplyRaises
  PROVE  /\ Reading /\ ~Reading' /\ past' = past
         /\ \E S \in SUBSET Returned : store' = Merged(S)
<1>1. Returned \in SUBSET Returned /\ \A t \in Returned : Before(t) \in SUBSET Returned
  BY DEF Before
<1> QED
  BY <1>1 DEF Apply, ApplyRaises, PollEnds, Reading, writerVars

LEMMA CollectorStep ==
  ASSUME TypeOK, WritersInv, CollectorInv, [Next]_vars
  PROVE  CollectorInv'
<1> USE DEF writerVars, pollVars
<1>0. Len(past) \in Nat /\ lastValue \in Nat /\ asOf \in Nat /\ since \in Nat
  BY DEF TypeOK
<1>1. ASSUME NEW w \in Writers, NextVal(w) PROVE CollectorInv'
  <2>1. lastValue' \in Nat /\ lastValue <= lastValue'
    BY <1>0, <1>1 DEF NextVal
  <2>2. UNCHANGED <<past, poll, answer, since, store, asOf>>
    BY <1>1 DEF NextVal
  <2>3. answer.current \in Nat
    BY DEF TypeOK, Answers
  <2> QED
    BY <1>0, <2>1, <2>2, <2>3 DEF CollectorInv, Reading, Reached
<1>2. ASSUME NEW w \in Writers, NEW t \in Tags, Upsert(w, t) PROVE CollectorInv'
  <2>1. UNCHANGED <<lastValue, poll, answer, since, store, asOf>>
    BY <1>2 DEF Upsert
  <2>2. Reached <= Reached' /\ Reached \in 0..Len(past) /\ Reached' \in Nat
    BY <1>0, <1>2, <2>1, TableIsAdded DEF Reached, Reading, CollectorInv
  <2>3. \A i \in 1..Reached : i \in 1..Reached' /\ past'[i] = past[i]
    BY <1>0, <1>2, <2>2, TableIsAdded
  <2>4. Reading => asOf \in 1..Len(past') /\ past'[asOf] = past[asOf]
    BY <1>0, <1>2, TableIsAdded DEF CollectorInv
  <2>5. ASSUME NEW u \in Tags
        PROVE  store'[u] = 0 \/ \E i \in 1..Reached' : store'[u] = past'[i][u]
    BY <2>1, <2>3 DEF CollectorInv
  <2> QED
    BY <2>1, <2>4, <2>5 DEF CollectorInv, Reading
<1>3. ASSUME NEW w \in Writers, WriterEnds(w) PROVE CollectorInv'
  BY <1>3 DEF WriterEnds, CollectorInv, Reading, Reached
<1>4. CASE Ask
  BY <1>4 DEF Ask, CollectorInv, Reading, Reached
<1>5. CASE SelectRows
  <2>1. /\ UNCHANGED <<lastValue, past, since, store>> /\ poll' = "rows"
        /\ asOf' = Len(past) /\ poll = "asked"
    BY <1>5 DEF SelectRows
  <2>2. \A t \in Tags :
          answer'.rows[t] = IF past[Len(past)][t] > since THEN past[Len(past)][t] ELSE 0
    BY <1>5 DEF SelectRows, Changed, WritersInv
  <2>3. Len(past) \in 1..Len(past)
    BY <1>0 DEF WritersInv
  <2>4. Reading' /\ Reached' = Len(past) /\ Reached = Len(past)
    BY <2>1 DEF Reading, Reached
  <2> QED
    BY <2>1, <2>2, <2>3, <2>4 DEF CollectorInv
<1>6. CASE SelectLastValue
  <2>1. answer'.rows = answer.rows /\ answer'.current = lastValue
    BY <1>6 DEF SelectLastValue, TypeOK, Answers
  <2>2. UNCHANGED <<lastValue, past, since, store, asOf>> /\ Reading /\ Reading'
    BY <1>6 DEF SelectLastValue, Reading
  <2> QED
    BY <1>0, <2>1, <2>2 DEF CollectorInv, Reached
<1>7. CASE Apply \/ ApplyRaises
  <2>1. PICK S \in SUBSET Returned : store' = Merged(S)
    BY <1>7, StoreStep
  <2>2. Reading /\ ~Reading' /\ past' = past /\ lastValue' = lastValue
    BY <1>7, StoreStep DEF Apply, ApplyRaises
  <2>3. since' <= lastValue'
    BY <1>7 DEF Apply, ApplyRaises, MoveTo, CollectorInv
  <2>4. ASSUME NEW t \in Tags
        PROVE  store'[t] = 0 \/ \E i \in 1..Len(past) : store'[t] = past[i][t]
    <3>1. \A i \in 1..asOf : asOf \in 1..Len(past) => i \in 1..Len(past)
      BY <1>0
    <3> QED
      BY <2>1, <2>2, <3>1, MergedIsOfTheMoment
  <2>5. poll' # "answered" /\ Reached' = Len(past)
    BY <2>2 DEF Reading, Reached
  <2> QED
    BY <2>2, <2>3, <2>4, <2>5 DEF CollectorInv
<1>8. CASE PollFails
  <2>1. UNCHANGED <<lastValue, past, since, store>> /\ poll' = "idle"
    BY <1>8 DEF PollFails, PollEnds
  <2>2. ~Reading' /\ Reached' = Len(past) /\ Reached \in 0..Len(past)
    BY <1>0, <2>1 DEF Reading, Reached, CollectorInv
  <2>3. \A i \in 1..Reached : i \in 1..Reached'
    BY <1>0, <2>2
  <2> QED
    BY <2>1, <2>2, <2>3 DEF CollectorInv
<1>9. CASE Restart
  <2>1. lastValue' = lastValue /\ since' = 0 /\ poll' = "idle" /\ \A t \in Tags : store'[t] = 0
    BY <1>9 DEF Restart, PollEnds, NoRows
  <2> QED
    BY <1>0, <2>1 DEF CollectorInv, Reading
<1>10. CASE UNCHANGED vars
  BY <1>10 DEF vars, CollectorInv, Reading, Reached
<1> QED
  BY <1>1, <1>2, <1>3, <1>4, <1>5, <1>6, <1>7, <1>8, <1>9, <1>10 DEF Next, Write, Poll

Inv == TypeOK /\ WritersInv /\ CollectorInv

LEMMA InitInv ==
  ASSUME Init
  PROVE  Inv
<1>1. TypeOK
  BY InitType
<1>2. past = <<NoRows>> /\ Len(past) = 1 /\ past[1] = NoRows
  BY DEF Init
<1>3. WritersInv
  BY <1>2 DEF Init, WritersInv, Writing, NoRows
<1>4. CollectorInv
  BY DEF Init, CollectorInv, Reading, NoRows
<1> QED
  BY <1>1, <1>3, <1>4 DEF Inv

LEMMA InvStep == Inv /\ [Next]_vars => Inv'
  BY TypeStep, WritersStep, CollectorStep DEF Inv

\* What a step does to the collector's settings.
LEMMA SettingsStep ==
  ASSUME Inv, Next, ~Restart
  PROVE  /\ since <= since'
         /\ \/ store' = store
            \/ /\ asOf \in 1..Len(past) /\ past' = past /\ DOMAIN store' = Tags
               /\ \A t \in Tags :
                    /\ store'[t] = store[t] \/ store'[t] = past[asOf][t]
                    /\ store[t] = 0 \/ \E i \in 1..asOf : store[t] = past[i][t]
<1> USE DEF writerVars, pollVars
<1>0. since \in Nat
  BY DEF Inv, TypeOK
<1>1. CASE Apply \/ ApplyRaises
  <2>1. PICK S \in SUBSET Returned : store' = Merged(S)
    BY <1>1, StoreStep
  <2>2. Reading /\ past' = past
    BY <1>1, StoreStep
  <2>3. since <= since'
    BY <1>0, <1>1 DEF Apply, ApplyRaises, MoveTo, Inv, CollectorInv
  <2>4. DOMAIN store' = Tags
    BY <2>1 DEF Merged
  <2>5. asOf \in 1..Len(past)
    BY <2>2 DEF Inv, CollectorInv
  <2> QED
    BY <2>1, <2>2, <2>3, <2>4, <2>5, MergedIsOfTheMoment DEF Inv
<1>2. CASE since' = since /\ store' = store
  BY <1>0, <1>2
<1> QED
  BY <1>1, <1>2 DEF Next, Write, Poll, NextVal, Upsert, WriterEnds, Ask, SelectRows,
     SelectLastValue, PollFails

\* Whatever the writers do, in a new database and in an old one, no answer takes the
\* collector's cursor back, nor its copy of a row but where tag_config's went back.
THEOREM CursorNeverBack == Spec => NeverBack
<1>1. Init => Inv
  BY InitInv
<1>2. Inv /\ [Next]_vars => Inv'
  BY InvStep
<1>3. Inv /\ [Next]_vars
        => [Restart \/ /\ since <= since'
                       /\ \A t \in Tags :
                            store[t] <= store'[t] \/ SetBack(t, store[t], store'[t])]_vars
  <2> SUFFICES ASSUME Inv, Next, ~Restart
      PROVE  /\ since <= since'
             /\ \A t \in Tags : store[t] <= store'[t] \/ SetBack(t, store[t], store'[t])
    OBVIOUS
  <2>1. since <= since'
    BY SettingsStep
  <2> SUFFICES ASSUME NEW t \in Tags
      PROVE  store[t] <= store'[t] \/ SetBack(t, store[t], store'[t])
    BY <2>1
  <2>2. store[t] \in Nat /\ store'[t] \in Nat
    BY TypeStep DEF Inv, TypeOK
  <2>3. CASE store'[t] = store[t]
    BY <2>2, <2>3
  <2>4. CASE store'[t] # store[t]
    <3>1. /\ asOf \in 1..Len(past) /\ store'[t] = past[asOf][t]
          /\ store[t] = 0 \/ \E i \in 1..asOf : store[t] = past[i][t]
      BY <2>4, SettingsStep
    <3> QED
      BY <2>2, <3>1 DEF SetBack
  <2> QED
    BY <2>3, <2>4
<1> QED
  BY <1>1, <1>2, <1>3, PTL DEF Spec, NeverBack

LEMMA StepIsOfTheFeed ==
  ASSUME Inv, [Next]_vars
  PROVE  [F!Offer \/ F!TakeOver \/ F!Forget]_(F!fvars)
<1> USE DEF writerVars, pollVars
<1>0. Len(past) \in Nat
  BY DEF Inv, TypeOK
<1>1. ASSUME past' = past, store' = store PROVE UNCHANGED F!fvars
  BY <1>1 DEF F!fvars
<1>2. ASSUME NEW w \in Writers, NEW t \in Tags, Upsert(w, t) PROVE F!Offer
  <2>1. store' = store
    BY <1>2 DEF Upsert
  <2> QED
    BY <1>0, <1>2, <2>1, TableIsAdded DEF Inv, F!Offer
<1>3. CASE Next /\ ~Restart /\ store' # store
  <2>1. /\ asOf \in 1..Len(past) /\ past' = past /\ DOMAIN store' = Tags
        /\ \A t \in Tags :
             /\ store'[t] = store[t] \/ store'[t] = past[asOf][t]
             /\ store[t] = 0 \/ \E i \in 1..asOf : store[t] = past[i][t]
    BY <1>3, SettingsStep
  <2>2. \A t \in Tags : store'[t] = store[t] \/ F!Follows(t, asOf)
    BY <2>1 DEF F!Follows
  <2> QED
    BY <2>1, <2>2 DEF F!TakeOver
<1>4. CASE Restart
  BY <1>4 DEF Restart, F!Forget, F!Unset, NoRows
<1> QED
  BY <1>1, <1>2, <1>3, <1>4 DEF Next, Write, Poll, NextVal, WriterEnds, Ask, SelectRows,
     SelectLastValue, Apply, ApplyRaises, PollFails, vars

\* The row-by-row, poll-by-poll protocol keeps the promise of SettingsFeed, over
\* overlapping writes, a new sequence, failed and half applied polls and restarts.
THEOREM ImplementsFeed == Spec => KeepsThePromise
<1>1. Init => Inv
  BY InitInv
<1>2. Inv /\ [Next]_vars => Inv'
  BY InvStep
<1>3. Init => F!FInit
  <2>1. ASSUME Init PROVE past = <<NoRows>> /\ store = NoRows
    BY <2>1 DEF Init
  <2> QED
    BY <2>1 DEF F!FInit, F!Unset, NoRows
<1>4. Inv /\ [Next]_vars => [F!Offer \/ F!TakeOver \/ F!Forget]_(F!fvars)
  BY StepIsOfTheFeed
<1> QED
  BY <1>1, <1>2, <1>3, <1>4, PTL DEF Spec, KeepsThePromise, F!FSpec
-----------------------------------------------------------------------------
(* What the cursor hides.                                                  *)

\* The cursor is past a version only if its row was written or it is overtaken.  During a
\* poll this is so of the rows as they were read; a row that was written since has a
\* version that had not been written then.
HiddenInv ==
  /\ HiddenOnlyIfOvertaken
  /\ \A v \in 1..since : v \in overtaken \cup Written
  /\ Reading => \A t \in Tags :
       /\ past[asOf][t] <= since =>
            store[t] = past[asOf][t] \/ past[asOf][t] \in overtaken
       /\ table[t] = past[asOf][t] \/ (table[t] > 0 /\ table[t] \notin WrittenBy(asOf))

\* A row that is written while the cursor is past its version is overtaken.
LEMMA HiddenWrite ==
  ASSUME Inv, HiddenInv, NEW w \in Writers, NEW t \in Tags, Upsert(w, t)
  PROVE  HiddenInv'
<1>1. /\ UNCHANGED <<poll, answer, since, store, asOf, overtaken>>
      /\ stamp[w] \in Nat \ {0} /\ stamp[w] \in Writing
      /\ \A u \in Tags : table'[u] = IF u = t THEN stamp[w] ELSE table[u]
  BY DEF Upsert, pollVars, Inv, TypeOK, Writing
<1>2. stamp[w] \notin Written /\ Len(past) \in Nat /\ since \in Nat
  BY <1>1 DEF Inv, WritersInv, TypeOK
<1>3. Written' = Written \cup {stamp[w]}
  BY WrittenGrows DEF Inv
<1>4. HiddenOnlyIfOvertaken'
  <2> SUFFICES ASSUME NEW u \in Tags, table'[u] <= since'
               PROVE  store'[u] = table'[u] \/ table'[u] \in overtaken'
    BY DEF HiddenOnlyIfOvertaken
  <2>1. CASE u = t
    <3>1. stamp[w] \in 1..since
      BY <1>1, <1>2, <2>1
    <3> QED
      BY <1>1, <1>2, <2>1, <3>1 DEF HiddenInv
  <2>2. CASE u # t
    BY <1>1, <2>2 DEF HiddenInv, HiddenOnlyIfOvertaken
  <2> QED
    BY <2>1, <2>2
<1>5. \A v \in 1..since' : v \in overtaken' \cup Written'
  BY <1>1, <1>3 DEF HiddenInv
<1>6. ASSUME Reading', NEW u \in Tags
      PROVE  /\ past'[asOf'][u] <= since' =>
                  store'[u] = past'[asOf'][u] \/ past'[asOf'][u] \in overtaken'
             /\ \/ table'[u] = past'[asOf'][u]
                \/ table'[u] > 0 /\ table'[u] \notin WrittenBy(asOf)'
  <2>1. Reading /\ asOf \in 1..Len(past)
    BY <1>1, <1>6 DEF Reading, Inv, CollectorInv
  <2>2. past'[asOf] = past[asOf]
    BY <2>1, TableIsAdded DEF Inv
  <2>3. WrittenBy(asOf)' = WrittenBy(asOf) /\ WrittenBy(asOf) \subseteq Written
    <3>1. asOf \in 0..Len(past) /\ \A i \in 1..asOf : i \in 1..Len(past)
      BY <1>2, <2>1
    <3>2. \A n \in 0..Len(past) : WrittenBy(n)' = WrittenBy(n)
      BY WrittenGrows DEF Inv
    <3>3. WrittenBy(asOf') = WrittenBy(asOf)
      BY <1>1
    <3> QED
      BY <1>1, <3>1, <3>2, <3>3, TableIsAdded DEF Inv, WrittenBy, Written
  <2> QED
    BY <1>1, <1>2, <2>1, <2>2, <2>3 DEF HiddenInv
<1> QED
  BY <1>4, <1>5, <1>6 DEF HiddenInv

\* The cursor moves past the rows of the answer, which the collector then has, and past
\* versions that had not been written when they were read.
LEMMA HiddenApply ==
  ASSUME Inv, HiddenInv, Apply
  PROVE  HiddenInv'
<1>1. /\ UNCHANGED <<past, table>> /\ ~Reading' /\ Reading /\ asOf \in 1..Len(past)
      /\ since' = answer.current
      /\ overtaken' = overtaken \cup ((1..answer.current) \ WrittenBy(asOf))
      /\ store' = Merged(Returned)
  BY DEF Apply, MoveTo, PollEnds, writerVars, Reading, Inv, CollectorInv
<1>2. answer.current \in Nat /\ since \in Nat /\ since <= answer.current /\ Len(past) \in Nat
  BY DEF Apply, Inv, CollectorInv, TypeOK, Answers
<1>3. HiddenOnlyIfOvertaken'
  <2> SUFFICES ASSUME NEW t \in Tags, table[t] <= answer.current
               PROVE  store'[t] = table[t] \/ table[t] \in overtaken'
    BY <1>1 DEF HiddenOnlyIfOvertaken
  <2>0. table[t] \in Nat /\ past[asOf][t] \in Nat
    BY <1>1 DEF Inv, TypeOK
  <2>1. CASE table[t] # past[asOf][t]
    <3>1. table[t] \in (1..answer.current) \ WrittenBy(asOf)
      BY <1>1, <1>2, <2>0, <2>1 DEF HiddenInv
    <3> QED
      BY <1>1, <3>1
  <2>2. CASE table[t] = past[asOf][t] /\ table[t] > since
    <3>1. answer.rows[t] = table[t] /\ table[t] # 0
      BY <1>1, <1>2, <2>0, <2>2 DEF Inv, CollectorInv
    <3> QED
      BY <1>1, <3>1 DEF Merged, Returned
  <2>3. CASE table[t] = past[asOf][t] /\ table[t] <= since
    <3>1. answer.rows[t] = 0
      BY <1>1, <1>2, <2>0, <2>3 DEF Inv, CollectorInv
    <3>2. store'[t] = store[t]
      BY <1>1, <3>1 DEF Merged, Returned
    <3> QED
      BY <1>1, <2>3, <3>2 DEF HiddenInv
  <2> QED
    BY <1>2, <2>0, <2>1, <2>2, <2>3
<1>4. \A v \in 1..since' : v \in overtaken' \cup Written'
  <2>1. Written' = Written /\ WrittenBy(asOf) \subseteq Written
    <3>1. \A i \in 1..asOf : i \in 1..Len(past)
      BY <1>1, <1>2
    <3> QED
      BY <1>1, <3>1 DEF Written, WrittenBy
  <2> QED
    BY <1>1, <2>1
<1> QED
  BY <1>1, <1>3, <1>4 DEF HiddenInv

\* The rows up to the one that raises are newer than the cursor: what it hides is as it was.
LEMMA HiddenApplyRaises ==
  ASSUME Inv, HiddenInv, ApplyRaises
  PROVE  HiddenInv'
<1>1. /\ UNCHANGED <<past, table, since, overtaken>> /\ ~Reading' /\ Reading
      /\ asOf \in 1..Len(past)
  BY DEF ApplyRaises, PollEnds, writerVars, Reading, Inv, CollectorInv
<1>2. PICK S \in SUBSET Returned : store' = Merged(S)
  BY StoreStep
<1>3. since \in Nat /\ Len(past) \in Nat
  BY DEF Inv, TypeOK
<1>4. HiddenOnlyIfOvertaken'
  <2> SUFFICES ASSUME NEW t \in Tags, table[t] <= since
               PROVE  store'[t] = table[t] \/ table[t] \in overtaken
    BY <1>1 DEF HiddenOnlyIfOvertaken
  <2>0. table[t] \in Nat /\ past[asOf][t] \in Nat /\ past[asOf] \in [Tags -> Nat]
    BY <1>1 DEF Inv, TypeOK
  <2>1. CASE table[t] # past[asOf][t]
    <3>1. table[t] # 0 /\ table[t] \notin WrittenBy(asOf)
      BY <1>1, <2>0, <2>1 DEF HiddenInv
    <3>2. store[t] = 0 \/ store[t] \in WrittenBy(asOf)
      BY <1>1 DEF Inv, CollectorInv, Reached, WrittenBy
    <3> QED
      BY <3>1, <3>2 DEF HiddenInv, HiddenOnlyIfOvertaken
  <2>2. CASE table[t] = past[asOf][t]
    <3>1. answer.rows[t] = 0
      BY <1>1, <1>3, <2>0, <2>2 DEF Inv, CollectorInv
    <3>2. store'[t] = store[t]
      BY <1>2, <3>1 DEF Merged, Returned
    <3> QED
      BY <2>2, <3>2 DEF HiddenInv, HiddenOnlyIfOvertaken
  <2> QED
    BY <2>1, <2>2
<1>5. Written' = Written
  BY <1>1 DEF Written, WrittenBy
<1> QED
  BY <1>1, <1>4, <1>5 DEF HiddenInv

LEMMA HiddenStep ==
  ASSUME Inv, HiddenInv, [Next]_vars
  PROVE  HiddenInv'
<1> USE DEF writerVars, pollVars
<1>1. ASSUME UNCHANGED <<past, table, since, store, overtaken>>,
             Reading' => Reading /\ asOf' = asOf
      PROVE  HiddenInv'
  <2>1. Written' = Written
    BY <1>1 DEF Written, WrittenBy
  <2>2. Reading' => WrittenBy(asOf)' = WrittenBy(asOf)
    BY <1>1 DEF WrittenBy
  <2> QED
    BY <1>1, <2>1, <2>2 DEF HiddenInv, HiddenOnlyIfOvertaken
<1>2. ASSUME NEW w \in Writers, NEW t \in Tags, Upsert(w, t) PROVE HiddenInv'
  BY <1>2, HiddenWrite
<1>3. ASSUME NEW w \in Writers, NextVal(w) \/ WriterEnds(w) PROVE HiddenInv'
  BY <1>1, <1>3 DEF NextVal, WriterEnds, Reading
<1>4. CASE Ask \/ SelectLastValue \/ PollFails \/ UNCHANGED vars
  BY <1>1, <1>4 DEF Ask, SelectLastValue, PollFails, PollEnds, vars, Reading
<1>5. CASE SelectRows
  <2>1. UNCHANGED <<past, table, since, store, overtaken>> /\ asOf' = Len(past)
    BY <1>5 DEF SelectRows
  <2>2. Written' = Written /\ past[Len(past)] = table
    BY <2>1 DEF Written, WrittenBy, Inv, WritersInv
  <2> QED
    BY <2>1, <2>2 DEF HiddenInv, HiddenOnlyIfOvertaken
<1>6. CASE Apply
  BY <1>6, HiddenApply
<1>7. CASE ApplyRaises
  BY <1>7, HiddenApplyRaises
<1>8. CASE Restart
  <2>1. since' = 0 /\ ~Reading' /\ table' = table /\ \A t \in Tags : store'[t] = 0
    BY <1>8 DEF Restart, PollEnds, NoRows, Reading
  <2>2. \A t \in Tags : table[t] \in Nat
    BY DEF Inv, TypeOK
  <2> QED
    BY <2>1, <2>2 DEF HiddenInv, HiddenOnlyIfOvertaken
<1> QED
  BY <1>2, <1>3, <1>4, <1>5, <1>6, <1>7, <1>8 DEF Next, Write, Poll

\* Over overlapping writes, a new sequence, failed and half applied polls and restarts,
\* a row that the cursor hides is in the collector in its version, or is one of those
\* the cursor was past before they were written: these, and no others, are the changes
\* that get_tag_config and refresh_once() can miss.
THEOREM CursorHidesOnlyOvertaken == Spec => []HiddenOnlyIfOvertaken
<1>1. Init => Inv /\ HiddenInv
  <2> SUFFICES ASSUME Init PROVE Inv /\ HiddenInv
    OBVIOUS
  <2>1. since = 0 /\ ~Reading /\ table = NoRows /\ store = NoRows
    BY DEF Init, Reading
  <2> QED
    BY <2>1, InitInv DEF HiddenInv, HiddenOnlyIfOvertaken, NoRows
<1>2. Inv /\ HiddenInv /\ [Next]_vars => (Inv /\ HiddenInv)'
  BY InvStep, HiddenStep
<1>3. HiddenInv => HiddenOnlyIfOvertaken
  BY DEF HiddenInv
<1> QED
  BY <1>1, <1>2, <1>3, PTL DEF Spec
=============================================================================
