-------------------------- MODULE GatewayStatusProofs --------------------------
(***************************************************************************)
(* Proofs about GatewayStatus, for any PLCs, any number of failed probes   *)
(* that lose the gateway, and any outages, restarts, lost and late reports.*)
(***************************************************************************)
EXTENDS GatewayStatus, TLAPS

-----------------------------------------------------------------------------
(* Types, and the count of the heartbeat.                                  *)

\* A probe that fails adds at most two intervals of silence: its own and the one
\* before the next probe.
ProbesCount ==
  pc = "probing" => failures < MaxFailures /\ silent <= 2 * failures + 1

TInv == TypeOK /\ ProbesCount

LEMMA NoPostIsNoReport == NoPost \notin Report
BY DEF TypeOK, NoPost, Report

LEMMA TypeInit == Init => TInv
BY StatusAssumption DEF Init, TInv, TypeOK, ProbesCount, NoPost, Report

\* Reports stay reports when more are made.
LEMMA ReportsGrow ==
  ASSUME reports \in Nat, reports' \in {reports, reports + 1}
  PROVE  Report \subseteq Report'
BY DEF Report

LEMMA RaisesTypes ==
  ASSUME TypeOK, Raises
  PROVE  gateway' \in BOOLEAN /\ upsets' \in 0..MaxUpsets /\ restarts' \in 0..MaxRestarts
<1>1. upsets \in 0..MaxUpsets /\ MaxUpsets \in Nat
  BY StatusAssumption DEF TypeOK
<1> QED
  BY <1>1 DEF Raises, TypeOK

LEMMA TypeStep == TInv /\ [Next]_vars => TInv'
<1> SUFFICES ASSUME TInv, [Next]_vars PROVE TInv'
  OBVIOUS
<1> USE StatusAssumption DEF TInv, linkVars, probeVars, reportVars, StartMarking
<1>1. CASE ConnectSucceeds \/ BackoffEnds
  BY <1>1 DEF ConnectSucceeds, BackoffEnds, TypeOK, ProbesCount, Report
<1>1a. CASE SessionFails
  BY <1>1a, RaisesTypes DEF SessionFails, TypeOK, ProbesCount, Report
<1>2. CASE Subscribe
  BY <1>2 DEF Subscribe, TypeOK, ProbesCount, Report
<1>3. CASE ProbeAnswered
  BY <1>3 DEF ProbeAnswered, TypeOK, ProbesCount, Report
<1>4. ASSUME NEW waited \in 0..1, ProbeFails(waited) PROVE TInv'
  <2>1. /\ failures \in Nat /\ silent \in Nat /\ MaxFailures \in Nat
        /\ failures < MaxFailures /\ silent <= 2 * failures + 1
        /\ failures + 1 \in 0..MaxFailures
        /\ silent + waited \in Nat /\ silent + waited + 1 \in Nat
    BY <1>4 DEF ProbeFails, TypeOK, ProbesCount
  <2>4. gateway' \in BOOLEAN /\ upsets' \in 0..MaxUpsets /\ restarts' \in 0..MaxRestarts
    BY <1>4, RaisesTypes DEF ProbeFails
  <2>2. CASE failures + 1 >= MaxFailures
    <3>1. pc' = "marking" /\ target' = FALSE /\ failures' = failures + 1 /\ silent' = silent + waited
      BY <1>4, <2>2 DEF ProbeFails
    <3> QED
      BY <1>4, <2>1, <2>4, <3>1 DEF ProbeFails, TypeOK, ProbesCount, Report
  <2>3. CASE ~(failures + 1 >= MaxFailures)
    <3>1. /\ pc' = pc /\ target' = target /\ failures' = failures + 1
          /\ silent' = silent + waited + 1
      BY <1>4, <2>3 DEF ProbeFails
    <3> QED
      BY <1>4, <2>1, <2>3, <2>4, <3>1 DEF ProbeFails, TypeOK, ProbesCount, Report
  <2> QED
    BY <2>2, <2>3
<1>5. ASSUME NEW p \in PLCs, Mark(p) PROVE TInv'
  <2>1. reports \in Nat /\ reports' = reports + 1
    BY <1>5 DEF Mark, TypeOK
  <2>2. Report \subseteq Report'
    BY <2>1, ReportsGrow
  <2>3. post' \in Report'
    BY <1>5, <2>1 DEF Mark, TypeOK, Report
  <2> QED
    BY <1>5, <2>1, <2>2, <2>3 DEF Mark, TypeOK, ProbesCount
<1>6. CASE MarkingEnds
  BY <1>6 DEF MarkingEnds, TypeOK, ProbesCount, Report
<1>7. CASE ReportHandled \/ ReportLost \/ ReportDelayed
  <2>1. post \in Report
    BY <1>7 DEF ReportHandled, ReportLost, ReportDelayed, Reported, TypeOK
  <2>2. events' \subseteq events \cup {post} /\ late' \subseteq late \cup {post}
    BY <1>7 DEF ReportHandled, ReportLost, ReportDelayed
  <2> QED
    BY <1>7, <2>1, <2>2
    DEF ReportHandled, ReportLost, ReportDelayed, Reported, TypeOK, ProbesCount, Report
<1>8. ASSUME NEW e \in late, LateArrives(e) PROVE TInv'
  BY <1>8 DEF LateArrives, TypeOK, ProbesCount, Report
<1>9. CASE Restart
  BY <1>9 DEF Restart, TypeOK, ProbesCount, Report
<1>10. CASE Toggle
  BY <1>10 DEF Toggle, TypeOK, ProbesCount, Report
<1>11. CASE UNCHANGED vars
  BY <1>11 DEF vars, TypeOK, ProbesCount, Report
<1> QED
  BY <1>1, <1>2, <1>3, <1>4, <1>5, <1>6, <1>7, <1>8, <1>9, <1>10, <1>11, <1>1a DEF Next, Client

LEMMA TypeInvariant == Spec => []TInv
<1>1. TInv /\ [Next]_vars => TInv'
  BY TypeStep
<1> QED
  BY TypeInit, <1>1, PTL DEF Spec

\* Every variable keeps its type: the failed probes never exceed the limit, and the
\* client posts exactly while it is reporting.
THEOREM TypeCorrect == Spec => []TypeOK
BY TypeInvariant, PTL DEF TInv

\* A gateway the client still takes for alive has answered within twice the
\* heartbeat timeout, for any number of probes the timeout is divided into.
THEOREM DetectedInTime == Spec => []DetectedInTwice
<1>1. TInv => DetectedInTwice
  BY StatusAssumption DEF TInv, TypeOK, ProbesCount, DetectedInTwice
<1> QED
  BY TypeInvariant, <1>1, PTL
-----------------------------------------------------------------------------
(* What is shown.  A late report can only be older than the last one about *)
(* its PLC, and the last one says what the client believes.                *)

LastIsBelief ==
  \A p \in PLCs : last[p] # NoPost => last[p].plc = p /\ last[p].up = up[p]

PostIsLast == pc = "reporting" => post = last[post.plc]

\* No report that has arrived or may still arrive is newer than the last.
LastIsNewest ==
  \A p \in PLCs : last[p] # NoPost =>
    \A e \in events \cup late : e.plc = p => e = last[p] \/ e.at < last[p].at

IInv == TInv /\ LastIsBelief /\ PostIsLast /\ LastIsNewest

LEMMA InitIInv == Init => IInv
BY TypeInit DEF Init, IInv, LastIsBelief, PostIsLast, LastIsNewest

LEMMA ReportAt ==
  ASSUME TInv, NEW e \in events \cup late
  PROVE  e \in Report /\ e.at \in Nat /\ e.at <= reports
BY DEF TInv, TypeOK, Report

\* Only marking a PLC, a report's end and a restart touch what the invariant is about.
LEMMA QuietStep ==
  ASSUME IInv, TInv', UNCHANGED <<up, last, events, late>>,
         pc' # "reporting" \/ (pc' = pc /\ post' = post)
  PROVE  IInv'
BY DEF IInv, LastIsBelief, PostIsLast, LastIsNewest, NoPost

LEMMA MarkKeeps ==
  ASSUME IInv, TInv', NEW p \in PLCs, Mark(p)
  PROVE  IInv'
<1>1. /\ last' = [last EXCEPT ![p] = post'] /\ up' = [up EXCEPT ![p] = target]
      /\ post' = [plc |-> p, up |-> target, at |-> reports + 1]
      /\ events' = events /\ late' = late /\ pc' = "reporting"
  BY DEF Mark, reportVars
<1>2. last \in [PLCs -> Report \cup {NoPost}] /\ up \in [PLCs -> BOOLEAN] /\ reports \in Nat
  BY DEF IInv, TInv, TypeOK
<1>3. /\ last'[p] = post' /\ up'[p] = target
      /\ \A q \in PLCs : q # p => last'[q] = last[q] /\ up'[q] = up[q]
  BY <1>1, <1>2
<1>4. LastIsBelief'
  BY <1>1, <1>3 DEF IInv, LastIsBelief, NoPost
<1>5. PostIsLast'
  BY <1>1, <1>3 DEF PostIsLast
<1>6. \A e \in events \cup late : e.at < post'.at
  BY <1>1, <1>2, ReportAt DEF IInv
<1>7. LastIsNewest'
  BY <1>1, <1>3, <1>6 DEF IInv, LastIsNewest, NoPost
<1> QED
  BY <1>4, <1>5, <1>7 DEF IInv

\* The report that is posted ends up stored, on its way or nowhere.
LEMMA ReportedKeeps ==
  ASSUME IInv, TInv', Reported, up' = up, last' = last,
         events' \cup late' \subseteq events \cup late \cup {post}
  PROVE  IInv'
<1>1. post \in Report /\ post = last[post.plc]
  BY DEF IInv, TInv, TypeOK, Reported, PostIsLast
<1>2. LastIsBelief' /\ PostIsLast'
  BY DEF IInv, LastIsBelief, PostIsLast, Reported, NoPost
<1>3. LastIsNewest'
  BY <1>1 DEF IInv, LastIsNewest, NoPost
<1> QED
  BY <1>2, <1>3 DEF IInv

LEMMA StepKeeps == IInv /\ [Next]_vars => IInv'
<1> SUFFICES ASSUME IInv, [Next]_vars PROVE IInv'
  OBVIOUS
<1>1. TInv'
  BY TypeStep DEF IInv
<1> USE DEF linkVars, probeVars, reportVars, StartMarking, Raises
<1>2. CASE ConnectSucceeds \/ SessionFails \/ Subscribe \/ BackoffEnds \/ ProbeAnswered
  BY <1>1, <1>2, QuietStep
  DEF ConnectSucceeds, SessionFails, Subscribe, BackoffEnds, ProbeAnswered
<1>3. ASSUME NEW waited \in 0..1, ProbeFails(waited) PROVE IInv'
  BY <1>1, <1>3, QuietStep DEF ProbeFails
<1>4. ASSUME NEW p \in PLCs, Mark(p) PROVE IInv'
  BY <1>1, <1>4, MarkKeeps
<1>5. CASE MarkingEnds
  BY <1>1, <1>5, QuietStep DEF MarkingEnds
<1>6. CASE ReportHandled \/ ReportLost \/ ReportDelayed
  BY <1>1, <1>6, ReportedKeeps DEF ReportHandled, ReportLost, ReportDelayed
<1>7. ASSUME NEW e \in late, LateArrives(e) PROVE IInv'
  <2>1. events' \cup late' \subseteq events \cup late
    BY <1>7 DEF LateArrives
  <2> QED
    BY <1>1, <1>7, <2>1
    DEF LateArrives, IInv, LastIsBelief, PostIsLast, LastIsNewest, NoPost
<1>8. CASE Restart
  BY <1>1, <1>8 DEF Restart, IInv, LastIsBelief, PostIsLast, LastIsNewest
<1>9. CASE Toggle
  BY <1>1, <1>9, QuietStep DEF Toggle
<1>10. CASE UNCHANGED vars
  BY <1>1, <1>10, QuietStep DEF vars
<1> QED
  BY <1>2, <1>3, <1>4, <1>5, <1>6, <1>7, <1>8, <1>9, <1>10 DEF Next, Client

LEMMA Invariant == Spec => []IInv
<1>1. IInv /\ [Next]_vars => IInv'
  BY StepKeeps
<1> QED
  BY InitIInv, <1>1, PTL DEF Spec

\* Once the last report about a PLC is stored, the cloud shows what the client
\* believes, whatever other reports were lost, come late or are of an earlier life.
THEOREM ShownIsBelieved == Spec => []BeliefIsShown
<1>1. IInv => BeliefIsShown
  <2> SUFFICES ASSUME IInv, NEW p \in PLCs, last[p] \in events
               PROVE  ShownDown(p) <=> ~up[p]
    BY DEF BeliefIsShown
  <2>1. last[p] # NoPost
    BY NoPostIsNoReport DEF IInv, TInv, TypeOK
  <2>2. last[p].plc = p /\ last[p].up = up[p]
    BY <2>1 DEF IInv, LastIsBelief
  <2>3. \A e \in EventsOf(p) : e = last[p] \/ e.at < last[p].at
    BY <2>1 DEF IInv, LastIsNewest, EventsOf
  <2>4. \A e \in events : e.at \in Nat
    BY ReportAt DEF IInv
  <2>5. Latest(p) = {last[p]}
    BY <2>2, <2>3, <2>4 DEF Latest, EventsOf
  <2> QED
    BY <2>2, <2>5 DEF ShownDown
<1> QED
  BY Invariant, <1>1, PTL

\* Within a life of the collector the reports about a PLC alternate, whatever
\* becomes of them: an outage is never reported twice, and neither is its end.
THEOREM ReportsTakeTurns == Spec => ReportsAlternate
<1> DEFINE Turn ==
      \A p \in PLCs :
        last[p] # last'[p] /\ last[p] # NoPost /\ last'[p] # NoPost =>
          last'[p].up # last[p].up
<1>1. IInv /\ [Next]_vars => Turn
  <2> SUFFICES ASSUME IInv, [Next]_vars, NEW p \in PLCs,
                      last[p] # last'[p], last[p] # NoPost, last'[p] # NoPost
               PROVE  last'[p].up # last[p].up
    OBVIOUS
  <2>1. ~Restart
    BY DEF Restart
  <2>2. PICK q \in PLCs : Mark(q)
    BY <2>1
    DEF Next, Client, vars, linkVars, reportVars, ConnectSucceeds, SessionFails, Subscribe,
        BackoffEnds, ProbeAnswered, ProbeFails, MarkingEnds, ReportHandled, ReportLost,
        ReportDelayed, LateArrives, Toggle
  <2>3. q = p /\ last'[p] = post'
    BY <2>2 DEF Mark, IInv, TInv, TypeOK
  <2>4. last'[p].up = target /\ up[p] # target
    BY <2>2, <2>3 DEF Mark, Unmarked
  <2> QED
    BY <2>4 DEF IInv, LastIsBelief
<1>2. IInv /\ [Next]_vars => [Turn]_vars
  BY <1>1
<1> QED
  BY Invariant, <1>2, PTL DEF Spec, ReportsAlternate
=============================================================================
