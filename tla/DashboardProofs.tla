--------------------------- MODULE DashboardProofs ---------------------------
(***************************************************************************)
(* Proofs about the dashboard.  RawDataTab: for any number of submissions, *)
(* tries, polls in flight and visits to the tab, with or without failing   *)
(* requests, and wherever the dashboard is served from.  Overview: for any *)
(* PLCs, tags, alarms, page size and reports.                              *)
(***************************************************************************)
EXTENDS RawDataTab, Overview, FiniteSetTheorems, WellFoundedInduction, TLAPS

List == [version : Nat, list : SUBSET Attempts]
Call == [latest : BOOLEAN, read : BOOLEAN, body : List]

TypeInv ==
  /\ catalog \subseteq Attempts /\ version \in Nat
  /\ calls \subseteq Call /\ shown \in List
  /\ post \in [Attempts -> {"unsent", "sent", "created", "done", "failed"}]
  /\ row \in [Attempts -> {"none", "uploading", "error", "dismissed"}]
  /\ del \in [Attempts -> {"none", "sent", "deleted", "done"}]
  /\ mounted \in BOOLEAN /\ error \in BOOLEAN /\ submitting \in BOOLEAN /\ reloadDue \in BOOLEAN

\* One poll in flight can reach the screen, and what it knows is no older than the
\* screen and no newer than the catalog.
LatestInv ==
  /\ \A c, d \in calls : c.latest /\ d.latest => c = d
  /\ \A c \in calls : c.latest /\ c.read =>
       shown.version <= c.body.version /\ c.body.version <= version
  /\ shown.version <= version

\* A tab that was left owns nothing.
LeftInv ==
  ~mounted => /\ ours = {} /\ ~reloadDue
              /\ \A c \in calls : ~c.latest

\* A try is made when all the tries before it have failed, and only a try that was
\* made is in the catalog.
TriesInv ==
  /\ \A s \in Submissions : \A k, m \in 1..MaxTries :
       k < m /\ post[<<s, m>>] # "unsent" => post[<<s, k>>] = "failed"
  /\ \A a \in Attempts : row[a] = "error" => post[a] = "failed"
  /\ \A a \in catalog : post[a] # "unsent"

IInv == TypeInv /\ LatestInv /\ LeftInv /\ TriesInv /\ FailureStays
-----------------------------------------------------------------------------
LEMMA AskedIsACall ==
  /\ Asked \in Call /\ Asked.latest /\ ~Asked.read
  /\ Nothing \in List /\ Nothing.version = 0
  BY DEF Asked, Nothing, Call, List

LEMMA SupersededCalls ==
  ASSUME calls \subseteq Call
  PROVE  Superseded \subseteq Call /\ \A c \in Superseded : ~c.latest
<1> SUFFICES ASSUME NEW d \in calls
             PROVE  /\ [d EXCEPT !.latest = FALSE] \in Call
                    /\ ~[d EXCEPT !.latest = FALSE].latest
  BY DEF Superseded
<1>1. d \in [latest : BOOLEAN, read : BOOLEAN, body : List]
  BY DEF Call
<1> QED
  BY <1>1 DEF Call

\* A new poll supersedes the others.
LEMMA AskKeeps ==
  ASSUME IInv, calls' = Superseded \cup {Asked}, mounted' = mounted, mounted, ours' = ours,
         shown' = shown, version' = version
  PROVE  calls' \subseteq Call /\ LatestInv' /\ LeftInv'
<1>1. Superseded \subseteq Call /\ \A c \in Superseded : ~c.latest
  BY SupersededCalls DEF IInv, TypeInv
<1>2. calls' \subseteq Call
  BY <1>1, AskedIsACall
<1>3. \A c \in calls' : c.latest => c = Asked
  BY <1>1
<1> QED
  BY <1>2, <1>3, AskedIsACall DEF IInv, LatestInv, LeftInv

\* Uploads and deletions leave the polls alone; the catalog only gets newer.
LEMMA LatestStays ==
  ASSUME IInv, TypeInv', calls' = calls, shown' = shown, version' >= version
  PROVE  LatestInv'
<1>1. \A c \in calls : c.body.version \in Nat
  BY DEF IInv, TypeInv, Call, List
<1> QED
  BY <1>1 DEF IInv, TypeInv, LatestInv, List

LEMMA PollKeeps ==
  ASSUME IInv, Poll
  PROVE  IInv'
<1> USE DEF server, display, requests, visit
<1>1. /\ UNCHANGED <<catalog, version, post, row, submitting, del, ours, mounted, visits>>
      /\ TriesInv' /\ FailureStays'
  <2>1. UNCHANGED <<catalog, version, post, row, submitting, del, ours, mounted, visits>>
    BY DEF Poll, Tick, Rerun, Read, Arrive, FetchFails
  <2> QED
    BY <2>1 DEF IInv, TriesInv, FailureStays
<1>2. ASSUME calls' \subseteq Call, shown' \in List, error' \in BOOLEAN, reloadDue' \in BOOLEAN
      PROVE  TypeInv'
  BY <1>1, <1>2 DEF IInv, TypeInv
<1>3. CASE Tick \/ Rerun
  <2>1. mounted
    BY <1>3 DEF Tick, Rerun, IInv, LeftInv
  <2>2. /\ calls' = Superseded \cup {Asked} /\ shown' = shown /\ error' = error
        /\ reloadDue' \in BOOLEAN
    BY <1>3 DEF Tick, Rerun, IInv, TypeInv
  <2>3. calls' \subseteq Call /\ LatestInv' /\ LeftInv'
    BY <1>1, <2>1, <2>2, AskKeeps
  <2>4. TypeInv'
    BY <1>2, <2>2, <2>3 DEF IInv, TypeInv
  <2> QED
    BY <1>1, <2>3, <2>4 DEF IInv
<1>4. ASSUME NEW c \in calls, Read(c) PROVE IInv'
  <2> DEFINE answered == [c EXCEPT !.read = TRUE, !.body = [version |-> version, list |-> catalog]]
  <2>1. c \in [latest : BOOLEAN, read : BOOLEAN, body : List]
    BY DEF IInv, TypeInv, Call
  <2>2. [version |-> version, list |-> catalog] \in List
    BY DEF IInv, TypeInv, List
  <2>3. /\ answered \in Call /\ answered.latest = c.latest /\ answered.body.version = version
    BY <2>1, <2>2 DEF Call
  <2>4. calls' = (calls \ {c}) \cup {answered}
    BY <1>4 DEF Read
  <2> HIDE DEF answered
  <2>5. shown' = shown /\ error' = error /\ reloadDue' = reloadDue
    BY <1>4 DEF Read
  <2>6. TypeInv'
    BY <1>2, <2>3, <2>4, <2>5 DEF IInv, TypeInv
  <2>7. LatestInv'
    <3>1. version \in Nat /\ shown.version <= version
      BY DEF IInv, TypeInv, LatestInv
    <3> QED
      BY <1>1, <3>1, <2>3, <2>4, <2>5 DEF IInv, LatestInv
  <2>8. LeftInv'
    BY <1>1, <2>3, <2>4, <2>5 DEF IInv, LeftInv
  <2> QED
    BY <1>1, <2>6, <2>7, <2>8 DEF IInv
<1>5. ASSUME NEW c \in calls, Arrive(c) \/ FetchFails(c) PROVE IInv'
  <2>1. /\ calls' = calls \ {c} /\ reloadDue' = reloadDue /\ error' \in BOOLEAN
        /\ \/ shown' = shown
           \/ shown' = c.body /\ c.latest /\ c.read
    BY <1>5 DEF Arrive, FetchFails
  <2>2. c.body \in List
    BY DEF IInv, TypeInv, Call
  <2>3. TypeInv'
    BY <1>2, <2>1, <2>2 DEF IInv, TypeInv
  <2>4. LeftInv'
    BY <1>1, <2>1 DEF IInv, LeftInv
  <2>5. LatestInv'
    <3>1. CASE shown' = shown
      BY <1>1, <2>1, <3>1 DEF IInv, LatestInv
    <3>2. CASE shown' = c.body /\ c.latest /\ c.read
      <4>1. \A d \in calls' : ~d.latest
        BY <2>1, <3>2 DEF IInv, LatestInv
      <4>2. c.body.version <= version
        BY <3>2 DEF IInv, LatestInv
      <4> QED
        BY <1>1, <3>2, <4>1, <4>2 DEF LatestInv
    <3> QED
      BY <2>1, <3>1, <3>2
  <2> QED
    BY <1>1, <2>3, <2>4, <2>5 DEF IInv
<1> QED
  BY <1>3, <1>4, <1>5 DEF Poll
-----------------------------------------------------------------------------
\* An upload that was not sent yet is sent: a first one, or one after a failure.
\* The rows of the other submissions and of the other tries stay as they are.
LEMMA UploadKeeps ==
  ASSUME IInv, NEW s \in Submissions, NEW m \in 1..MaxTries, mounted,
         post[<<s, m>>] = "unsent",
         \A k \in 1..MaxTries : k < m => post[<<s, k>>] = "failed",
         post' = [post EXCEPT ![<<s, m>>] = "sent"],
         ours' = ours \cup {<<"post", <<s, m>>>>},
         row' \in [Attempts -> {"none", "uploading", "error", "dismissed"}],
         row'[<<s, m>>] = "uploading",
         \A a \in Attempts : a # <<s, m>> =>
           \/ row'[a] = row[a]
           \/ row'[a] = "none" /\ \E k \in 1..MaxTries : a = <<s, k>> /\ m = k + 1,
         submitting' = TRUE,
         UNCHANGED <<catalog, version, calls, shown, error, reloadDue, del, mounted>>
  PROVE  IInv'
<1>1. TypeInv /\ TypeInv'
  BY DEF IInv, TypeInv
<1>2. LatestInv'
  BY <1>1, LatestStays DEF TypeInv
<1>3. LeftInv'
  BY DEF IInv, LeftInv
<1>4. <<s, m>> \in Attempts
  BY DEF Attempts
<1>5. \A a \in Attempts : post'[a] = IF a = <<s, m>> THEN "sent" ELSE post[a]
  BY <1>1, <1>4 DEF TypeInv
<1>6. TriesInv'
  <2>1. ASSUME NEW t \in Submissions, NEW k \in 1..MaxTries, NEW n \in 1..MaxTries,
               k < n, post'[<<t, n>>] # "unsent"
        PROVE  post'[<<t, k>>] = "failed"
    <3>1. <<t, k>> \in Attempts /\ <<t, n>> \in Attempts
      BY DEF Attempts
    <3>2. CASE t = s /\ n = m
      BY <2>1, <3>1, <3>2, <1>5
    <3>3. CASE ~(t = s /\ n = m)
      <4>1. post[<<t, n>>] # "unsent"
        BY <2>1, <3>1, <3>3, <1>5
      <4>2. post[<<t, k>>] = "failed"
        BY <2>1, <4>1 DEF IInv, TriesInv
      <4> QED
        BY <3>1, <4>2, <1>5
    <3> QED
      BY <3>2, <3>3
  <2>2. ASSUME NEW a \in Attempts, row'[a] = "error" PROVE post'[a] = "failed"
    BY <2>2, <1>5 DEF IInv, TriesInv
  <2>3. \A a \in catalog' : post'[a] # "unsent"
    BY <1>1, <1>5 DEF IInv, TriesInv, TypeInv
  <2> QED
    BY <2>1, <2>2, <2>3 DEF TriesInv
<1>7. FailureStays'
  <2> SUFFICES ASSUME NEW t \in Submissions, NEW k \in 1..MaxTries,
                      post'[<<t, k>>] = "failed", <<"post", <<t, k>>>> \in ours'
               PROVE  \/ row'[<<t, k>>] \in {"error", "dismissed"}
                      \/ k < MaxTries /\ post'[<<t, k + 1>>] # "unsent"
    BY DEF FailureStays
  <2>1. <<t, k>> \in Attempts /\ (k < MaxTries => <<t, k + 1>> \in Attempts)
    BY RawDataTabAssumption DEF RawDataTabAssumption, Attempts
  <2>2. <<t, k>> # <<s, m>> /\ post[<<t, k>>] = "failed"
    BY <2>1, <1>5
  <2>3. <<"post", <<t, k>>>> \in ours
    BY <2>2
  <2>4. CASE k < MaxTries /\ post[<<t, k + 1>>] # "unsent"
    BY <2>1, <2>4, <1>5
  <2>5. CASE row[<<t, k>>] \in {"error", "dismissed"} /\ row'[<<t, k>>] = row[<<t, k>>]
    BY <2>5
  <2>6. CASE t = s /\ m = k + 1
    <3>1. k < MaxTries
      BY <2>6, RawDataTabAssumption DEF RawDataTabAssumption
    <3>2. post'[<<t, k + 1>>] = "sent"
      BY <2>1, <2>6, <3>1, <1>5
    <3> QED
      BY <3>1, <3>2
  <2> QED
    BY <2>1, <2>2, <2>3, <2>4, <2>5, <2>6 DEF IInv, FailureStays
<1> QED
  BY <1>1, <1>2, <1>3, <1>6, <1>7 DEF IInv

LEMMA SubmitKeeps ==
  ASSUME IInv, NEW s \in Submissions, Submit(s)
  PROVE  IInv'
<1>1. 1 \in 1..MaxTries
  BY RawDataTabAssumption DEF RawDataTabAssumption
<1>2. <<s, 1>> \in Attempts
  BY <1>1 DEF Attempts
<1>3. row \in [Attempts -> {"none", "uploading", "error", "dismissed"}]
  BY DEF IInv, TypeInv
<1>4. /\ row' \in [Attempts -> {"none", "uploading", "error", "dismissed"}]
      /\ row'[<<s, 1>>] = "uploading"
      /\ \A a \in Attempts : a # <<s, 1>> => row'[a] = row[a]
  BY <1>2, <1>3 DEF Submit
<1>5. \A k \in 1..MaxTries : k < 1 => post[<<s, k>>] = "failed"
  OBVIOUS
<1>6. /\ mounted /\ post[<<s, 1>>] = "unsent"
      /\ post' = [post EXCEPT ![<<s, 1>>] = "sent"]
      /\ ours' = ours \cup {<<"post", <<s, 1>>>>} /\ submitting' = TRUE
      /\ UNCHANGED <<catalog, version, calls, shown, error, reloadDue, del, mounted>>
  BY DEF Submit, Upload, server, display, visit
<1> QED
  BY <1>1, <1>4, <1>5, <1>6, UploadKeeps

\* The row that is retried is of a try that failed, after the others failed.
LEMMA RetryKeeps ==
  ASSUME IInv, NEW s \in Submissions, NEW k \in 1..MaxTries, Retry(s, k)
  PROVE  IInv'
<1>1. k + 1 \in 1..MaxTries
  BY RawDataTabAssumption DEF RawDataTabAssumption, Retry
<1>2. <<s, k>> \in Attempts /\ <<s, k + 1>> \in Attempts /\ <<s, k>> # <<s, k + 1>>
  BY <1>1 DEF Attempts
<1>3. row \in [Attempts -> {"none", "uploading", "error", "dismissed"}]
  BY DEF IInv, TypeInv
<1>4. row' = [row EXCEPT ![<<s, k>>] = "none", ![<<s, k + 1>>] = "uploading"]
  BY DEF Retry
<1>5. /\ row' \in [Attempts -> {"none", "uploading", "error", "dismissed"}]
      /\ row'[<<s, k + 1>>] = "uploading" /\ row'[<<s, k>>] = "none"
      /\ \A a \in Attempts : a # <<s, k>> /\ a # <<s, k + 1>> => row'[a] = row[a]
  BY <1>2, <1>3, <1>4
<1>6. \A a \in Attempts : a # <<s, k + 1>> =>
        \/ row'[a] = row[a]
        \/ row'[a] = "none" /\ \E j \in 1..MaxTries : a = <<s, j>> /\ k + 1 = j + 1
  BY <1>5
<1>7. post[<<s, k>>] = "failed"
  BY <1>2 DEF Retry, IInv, TriesInv
<1>8. \A j \in 1..MaxTries : j < k + 1 => post[<<s, j>>] = "failed"
  <2> SUFFICES ASSUME NEW j \in 1..MaxTries, j < k PROVE post[<<s, j>>] = "failed"
    BY <1>7
  <2> QED
    BY <1>7 DEF IInv, TriesInv
<1>9. /\ mounted /\ post[<<s, k + 1>>] = "unsent"
      /\ post' = [post EXCEPT ![<<s, k + 1>>] = "sent"]
      /\ ours' = ours \cup {<<"post", <<s, k + 1>>>>} /\ submitting' = TRUE
      /\ UNCHANGED <<catalog, version, calls, shown, error, reloadDue, del, mounted>>
  BY DEF Retry, Upload, server, display, visit
<1> DEFINE m == k + 1
<1> HIDE DEF m
<1>10. /\ m \in 1..MaxTries /\ post[<<s, m>>] = "unsent"
       /\ \A j \in 1..MaxTries : j < m => post[<<s, j>>] = "failed"
       /\ post' = [post EXCEPT ![<<s, m>>] = "sent"]
       /\ ours' = ours \cup {<<"post", <<s, m>>>>}
       /\ row'[<<s, m>>] = "uploading"
       /\ \A a \in Attempts : a # <<s, m>> =>
            \/ row'[a] = row[a]
            \/ row'[a] = "none" /\ \E j \in 1..MaxTries : a = <<s, j>> /\ m = j + 1
  BY <1>1, <1>5, <1>6, <1>8, <1>9 DEF m
<1> QED
  BY <1>5, <1>9, <1>10, UploadKeeps

\* An upload under way is created, or ends: when it fails, its row says so if the
\* tab still owns it.
LEMMA EndKeeps ==
  ASSUME IInv, NEW a \in Attempts, NEW stage \in {"created", "done", "failed"},
         post[a] \in {"sent", "created"},
         post' = [post EXCEPT ![a] = stage],
         catalog' = catalog \/ catalog' = catalog \cup {a},
         version' = version \/ version' = version + 1,
         row' = row \/ row' = [row EXCEPT ![a] = IF stage = "failed" THEN "error" ELSE "none"],
         <<"post", a>> \in ours /\ stage = "failed" => row' # row \/ row[a] = "error",
         reloadDue' = reloadDue \/ (reloadDue' = TRUE /\ <<"post", a>> \in ours),
         submitting' \in BOOLEAN,
         UNCHANGED <<calls, shown, error, del, ours, mounted>>
  PROVE  IInv'
<1>1. TypeInv
  BY DEF IInv
<1>2. \A b \in Attempts : post'[b] = IF b = a THEN stage ELSE post[b]
  BY <1>1 DEF TypeInv
<1>3. /\ row' \in [Attempts -> {"none", "uploading", "error", "dismissed"}]
      /\ \A b \in Attempts : b # a => row'[b] = row[b]
      /\ row'[a] = row[a] \/ row'[a] = IF stage = "failed" THEN "error" ELSE "none"
      /\ row' # row => row'[a] = IF stage = "failed" THEN "error" ELSE "none"
  BY <1>1 DEF TypeInv
<1>4. TypeInv'
  <2>1. catalog' \subseteq Attempts /\ version' \in Nat
    BY <1>1 DEF TypeInv
  <2>2. reloadDue' \in BOOLEAN
    BY <1>1 DEF TypeInv
  <2>3. post' \in [Attempts -> {"unsent", "sent", "created", "done", "failed"}]
    BY <1>1 DEF TypeInv
  <2> QED
    BY <1>1, <1>3, <2>1, <2>2, <2>3 DEF TypeInv
<1>5. LatestInv'
  BY <1>1, <1>4, LatestStays DEF TypeInv
<1>6. LeftInv'
  BY DEF IInv, LeftInv
<1>7. TriesInv'
  <2>1. ASSUME NEW s \in Submissions, NEW k \in 1..MaxTries, NEW m \in 1..MaxTries,
               k < m, post'[<<s, m>>] # "unsent"
        PROVE  post'[<<s, k>>] = "failed"
    <3>1. <<s, k>> \in Attempts /\ <<s, m>> \in Attempts
      BY DEF Attempts
    <3>2. post[<<s, m>>] # "unsent"
      BY <2>1, <3>1, <1>2
    <3>3. post[<<s, k>>] = "failed"
      BY <2>1, <3>2 DEF IInv, TriesInv
    <3> QED
      BY <3>1, <3>3, <1>2
  <2>2. ASSUME NEW b \in Attempts, row'[b] = "error" PROVE post'[b] = "failed"
    <3>1. row[b] = "error" => post[b] = "failed"
      BY DEF IInv, TriesInv
    <3> QED
      BY <2>2, <3>1, <1>2, <1>3
  <2>3. \A b \in catalog' : post'[b] # "unsent"
    <3>1. \A b \in catalog : b \in Attempts /\ post[b] # "unsent"
      BY <1>1 DEF IInv, TriesInv, TypeInv
    <3> QED
      BY <3>1, <1>2
  <2> QED
    BY <2>1, <2>2, <2>3 DEF TriesInv
<1>8. FailureStays'
  <2> SUFFICES ASSUME NEW s \in Submissions, NEW k \in 1..MaxTries,
                      post'[<<s, k>>] = "failed", <<"post", <<s, k>>>> \in ours'
               PROVE  \/ row'[<<s, k>>] \in {"error", "dismissed"}
                      \/ k < MaxTries /\ post'[<<s, k + 1>>] # "unsent"
    BY DEF FailureStays
  <2>1. <<s, k>> \in Attempts /\ (k < MaxTries => <<s, k + 1>> \in Attempts)
    BY RawDataTabAssumption DEF RawDataTabAssumption, Attempts
  <2>2. CASE <<s, k>> = a
    BY <2>1, <2>2, <1>2, <1>3
  <2>3. CASE <<s, k>> # a
    <3>1. \/ row[<<s, k>>] \in {"error", "dismissed"}
          \/ k < MaxTries /\ post[<<s, k + 1>>] # "unsent"
      BY <2>1, <2>3, <1>2 DEF IInv, FailureStays
    <3> QED
      BY <2>1, <2>3, <3>1, <1>2, <1>3
  <2> QED
    BY <2>2, <2>3
<1> QED
  BY <1>4, <1>5, <1>6, <1>7, <1>8 DEF IInv

LEMMA UploadsKeep ==
  ASSUME IInv, Uploads
  PROVE  IInv'
<1> USE DEF server, display, visit
<1>1. TypeInv
  BY DEF IInv
<1>2. ASSUME NEW a \in Attempts, Create(a) PROVE IInv'
  <2>1. /\ post[a] \in {"sent", "created"} /\ post' = [post EXCEPT ![a] = "created"]
        /\ catalog' = catalog \cup {a} /\ version' = version + 1
        /\ submitting' \in BOOLEAN /\ reloadDue' = reloadDue
        /\ UNCHANGED <<calls, shown, error, row, del, ours, mounted>>
    BY <1>1, <1>2 DEF Create, TypeInv
  <2> QED
    BY <2>1, EndKeeps
<1>3. ASSUME NEW a \in Attempts, PostSucceeds(a) PROVE IInv'
  <2>1. /\ post[a] \in {"sent", "created"} /\ post' = [post EXCEPT ![a] = "done"]
        /\ UNCHANGED <<catalog, version, calls, shown, error, del, ours, mounted>>
    BY <1>3 DEF PostSucceeds
  <2>2. row' = row \/ row' = [row EXCEPT ![a] = IF "done" = "failed" THEN "error" ELSE "none"]
    BY <1>3 DEF PostSucceeds
  <2>3. submitting' \in BOOLEAN
    BY <1>1, <1>3 DEF PostSucceeds, TypeInv
  <2>4. reloadDue' = reloadDue \/ (reloadDue' = TRUE /\ <<"post", a>> \in ours)
    BY <1>3 DEF PostSucceeds
  <2> QED
    BY <2>1, <2>2, <2>3, <2>4, EndKeeps
<1>4. ASSUME NEW a \in Attempts, PostFails(a) PROVE IInv'
  <2>1. /\ post[a] \in {"sent", "created"} /\ post' = [post EXCEPT ![a] = "failed"]
        /\ UNCHANGED <<catalog, version, calls, shown, error, reloadDue, del, ours, mounted>>
    BY <1>4 DEF PostFails
  <2>2. /\ row' = row \/ row' = [row EXCEPT ![a] = "error"]
        /\ <<"post", a>> \in ours => row' = [row EXCEPT ![a] = "error"]
    BY <1>4 DEF PostFails
  <2>3. submitting' \in BOOLEAN
    BY <1>1, <1>4 DEF PostFails, TypeInv
  <2>4. <<"post", a>> \in ours => row' # row \/ row[a] = "error"
    BY <1>1, <2>2 DEF TypeInv
  <2> QED
    BY <2>1, <2>2, <2>3, <2>4, EndKeeps
<1> QED
  BY <1>2, <1>3, <1>4, SubmitKeeps, RetryKeeps DEF Uploads

LEMMA DeletionsKeep ==
  ASSUME IInv, NEW a \in Attempts,
         Dismiss(a) \/ AskDelete(a) \/ Delete(a) \/ DeleteAnswered(a)
  PROVE  IInv'
<1> USE DEF server, display, visit
<1>1. TypeInv
  BY DEF IInv
<1>2. /\ UNCHANGED <<calls, shown, error, post, submitting, mounted>>
      /\ catalog' \subseteq catalog /\ (version' = version \/ version' = version + 1)
      /\ ours' = ours \/ (mounted /\ ours' = ours \cup {<<"delete", a>>})
      /\ row' = row \/ (row[a] = "error" /\ row' = [row EXCEPT ![a] = "dismissed"])
  BY DEF Dismiss, AskDelete, Delete, DeleteAnswered
<1>3. del' \in [Attempts -> {"none", "sent", "deleted", "done"}]
  BY <1>1 DEF TypeInv, Dismiss, AskDelete, Delete, DeleteAnswered
<1>4. reloadDue' \in BOOLEAN /\ (~mounted => ~reloadDue')
  BY <1>1 DEF IInv, TypeInv, LeftInv, Dismiss, AskDelete, Delete, DeleteAnswered
<1>5. /\ row' \in [Attempts -> {"none", "uploading", "error", "dismissed"}]
      /\ \A b \in Attempts : row'[b] = row[b] \/ (row[b] = "error" /\ row'[b] = "dismissed")
  BY <1>1, <1>2 DEF TypeInv
<1>6. TypeInv'
  BY <1>1, <1>2, <1>3, <1>4, <1>5 DEF TypeInv
<1>7. LatestInv'
  BY <1>1, <1>2, <1>6, LatestStays DEF TypeInv
<1>8. LeftInv'
  BY <1>2, <1>4 DEF IInv, LeftInv
<1>9. TriesInv'
  BY <1>1, <1>2, <1>5 DEF IInv, TriesInv, TypeInv
<1>10. FailureStays'
  <2> SUFFICES ASSUME NEW s \in Submissions, NEW k \in 1..MaxTries,
                      post'[<<s, k>>] = "failed", <<"post", <<s, k>>>> \in ours'
               PROVE  \/ row'[<<s, k>>] \in {"error", "dismissed"}
                      \/ k < MaxTries /\ post'[<<s, k + 1>>] # "unsent"
    BY DEF FailureStays
  <2>1. <<s, k>> \in Attempts
    BY DEF Attempts
  <2>2. <<"post", <<s, k>>>> \in ours
    BY <1>2
  <2>3. \/ row[<<s, k>>] \in {"error", "dismissed"}
        \/ k < MaxTries /\ post[<<s, k + 1>>] # "unsent"
    BY <1>2, <2>2 DEF IInv, FailureStays
  <2> QED
    BY <2>1, <2>3, <1>2, <1>5
<1> QED
  BY <1>6, <1>7, <1>8, <1>9, <1>10 DEF IInv

\* The tab is left with nothing of its own; opened again, it starts with one poll.
LEMMA VisitKeeps ==
  ASSUME IInv, Leave \/ Return
  PROVE  IInv'
<1> USE DEF server, display, requests
<1>1. TypeInv
  BY DEF IInv
<1>2. CASE Leave
  <2>1. Superseded \subseteq Call /\ \A c \in Superseded : ~c.latest
    BY <1>1, SupersededCalls DEF TypeInv
  <2>2. /\ calls' = Superseded /\ shown' = Nothing /\ ~error' /\ ~reloadDue'
        /\ ~mounted' /\ ~submitting' /\ ours' = {}
        /\ row' = [b \in Attempts |-> "none"]
        /\ UNCHANGED <<catalog, version, post, del>>
    BY <1>2 DEF Leave
  <2>3. error' \in BOOLEAN /\ reloadDue' \in BOOLEAN /\ mounted' \in BOOLEAN
        /\ submitting' \in BOOLEAN
    BY <1>2 DEF Leave
  <2>4. TypeInv'
    BY <1>1, <2>1, <2>2, <2>3, AskedIsACall DEF TypeInv
  <2>5. LatestInv' /\ LeftInv'
    BY <1>1, <2>1, <2>2, AskedIsACall DEF LatestInv, LeftInv, TypeInv
  <2>6. TriesInv'
    BY <2>2 DEF IInv, TriesInv, TypeInv
  <2>7. FailureStays'
    BY <2>2 DEF FailureStays
  <2> QED
    BY <2>4, <2>5, <2>6, <2>7 DEF IInv
<1>3. CASE Return
  <2>1. /\ mounted' = TRUE /\ calls' = calls \cup {Asked} /\ ~mounted
        /\ UNCHANGED <<catalog, version, shown, error, reloadDue, post, row, submitting, del,
                       ours>>
    BY <1>3 DEF Return
  <2>2. TypeInv'
    BY <1>1, <2>1, AskedIsACall DEF TypeInv
  <2>3. \A c \in calls' : c.latest => c = Asked
    BY <2>1 DEF IInv, LeftInv
  <2>4. LatestInv' /\ LeftInv'
    BY <2>1, <2>3, AskedIsACall DEF IInv, LatestInv, LeftInv
  <2>5. TriesInv' /\ FailureStays'
    BY <2>1 DEF IInv, TriesInv, FailureStays
  <2> QED
    BY <2>2, <2>4, <2>5 DEF IInv
<1> QED
  BY <1>2, <1>3

LEMMA StutterKeeps == ASSUME IInv, UNCHANGED vars PROVE IInv'
  BY DEF IInv, TypeInv, LatestInv, LeftInv, TriesInv, FailureStays, vars, server, display,
         requests, visit

LEMMA NextIInv == IInv /\ [Next]_vars => IInv'
<1> SUFFICES ASSUME IInv, [Next]_vars PROVE IInv'
  OBVIOUS
<1>1. CASE Deletions
  BY <1>1, DeletionsKeep DEF Deletions
<1> QED
  BY <1>1, PollKeeps, UploadsKeep, VisitKeeps, StutterKeeps DEF Next

LEMMA InitIInv == Init => IInv
<1> SUFFICES ASSUME Init PROVE IInv
  OBVIOUS
<1> USE DEF Init
<1>1. TypeInv
  BY AskedIsACall DEF TypeInv
<1>2. LatestInv /\ LeftInv
  BY AskedIsACall DEF LatestInv, LeftInv
<1>3. \A s \in Submissions : \A k \in 1..MaxTries : post[<<s, k>>] = "unsent"
  BY DEF Attempts
<1>4. TriesInv /\ FailureStays
  BY <1>3 DEF TriesInv, FailureStays, Attempts
<1> QED
  BY <1>1, <1>2, <1>4 DEF IInv

LEMMA IInvariant == Spec => []IInv
  BY InitIInv, NextIInv, PTL DEF Spec
-----------------------------------------------------------------------------
\* Every variable has its type, and one poll in flight at most, the last one
\* usePolling() started, can still reach the screen.
THEOREM TypeCorrect == Spec => []TypeOK
<1>1. IInv => TypeOK
  <2> SUFFICES ASSUME IInv PROVE TypeOK
    OBVIOUS
  <2> DEFINE Latest == {c \in calls : c.latest}
  <2>1. IsFiniteSet(Latest) /\ Cardinality(Latest) <= 1
    <3>1. CASE Latest = {}
      BY <3>1, FS_EmptySet
    <3>2. CASE Latest # {}
      <4>1. PICK c \in Latest : TRUE
        BY <3>2
      <4>2. Latest = {c}
        BY <4>1 DEF IInv, LatestInv
      <4>3. IsFiniteSet({c}) /\ Cardinality({c}) = 1
        BY FS_Singleton
      <4> HIDE DEF Latest
      <4> QED
        BY <4>2, <4>3
    <3> QED
      BY <3>1, <3>2
  <2> QED
    BY <2>1 DEF IInv, TypeInv, TypeOK, Call, List
<1> QED
  BY <1>1, IInvariant, PTL

\* However forms, retries, deletions and visits to the tab overlap, a submission is
\* registered twice only when the answer to the earlier try was lost: handleRetry()
\* is offered for a failed try alone, and a try is made once.
THEOREM OneRegistration == Spec => []RegisteredOnce
<1>1. IInv => RegisteredOnce
  <2> SUFFICES ASSUME IInv, NEW s \in Submissions, NEW k \in 1..MaxTries,
                      NEW m \in 1..MaxTries, k < m, <<s, m>> \in catalog
               PROVE  post[<<s, k>>] = "failed"
    BY DEF RegisteredOnce
  <2>1. post[<<s, m>>] # "unsent"
    BY DEF IInv, TriesInv
  <2> QED
    BY <2>1 DEF IInv, TriesInv
<1> QED
  BY <1>1, IInvariant, PTL

\* A failed upload of the mounted tab keeps its row until the user acts on it.
THEOREM FailuresShown == Spec => []FailureStays
  BY IInvariant, PTL DEF IInv

\* usePolling()'s generation check: the screen never goes back to an older catalog.
THEOREM NeverBack == Spec => NeverBackwards
<1>1. IInv /\ [Next]_vars => [mounted' /\ mounted => shown'.version >= shown.version]_vars
  <2> SUFFICES ASSUME IInv, [Next]_vars, mounted', mounted
               PROVE  shown'.version >= shown.version
    OBVIOUS
  <2>1. shown.version \in Nat
    BY DEF IInv, TypeInv, List
  <2>2. ASSUME NEW c \in calls, Arrive(c) PROVE shown'.version >= shown.version
    BY <2>1, <2>2 DEF Arrive, IInv, LatestInv, TypeInv, Call, List
  <2>3. CASE shown' = shown
    BY <2>1, <2>3
  <2>4. \/ shown' = shown
        \/ \E c \in calls : Arrive(c)
    BY DEF Next, vars, server, display, Poll, Tick, Rerun, Read, FetchFails, Uploads, Submit,
           Create, PostSucceeds, PostFails, Retry, Deletions, Dismiss, AskDelete, Delete,
           DeleteAnswered, Leave, Return
  <2> QED
    BY <2>2, <2>3, <2>4
<1> QED
  BY <1>1, IInvariant, PTL DEF Spec, NeverBackwards
-----------------------------------------------------------------------------
(* The overview: the tags that the cards put in front.                     *)

\* The sorted tags have a first one.
LEMMA FirstIsATag ==
  ASSUME NEW ts, ts \subseteq Nat, ts # {}
  PROVE  First(ts) \in ts
<1>1. \E t \in ts : \A u \in ts : ~(<<u, t>> \in OpToRel(<, Nat))
  BY NatLessThanWellFounded, WFMin
<1>2. PICK t \in ts : \A u \in ts : ~(<<u, t>> \in OpToRel(<, Nat))
  BY <1>1
<1>3. ASSUME NEW u \in ts PROVE t <= u
  <2>1. ~(u < t)
    BY <1>2 DEF OpToRel
  <2> QED
    BY <2>1
<1> QED
  BY <1>3 DEF First

\* What a reading is of, by its fields.
LEMMA PlcTagFacts ==
  ASSUME NEW r \in PlcTags
  PROVE  r.plc \in PLCs /\ r.tag \in TagsOf[r.plc] /\ r.tag \in Nat
         /\ r = [plc |-> r.plc, tag |-> r.tag]
<1>1. PICK p \in PLCs : r \in [plc : {p}, tag : TagsOf[p]]
  BY DEF PlcTags
<1> QED
  BY <1>1, OverviewAssumption DEF OverviewAssumption

\* The tag in front of a card is one there is a reading of: also when the newest
\* alarm is of another tag.
LEMMA PrimaryIsShown ==
  ASSUME NEW s, NEW p, s["readings"] \subseteq PlcTags, TagsShown(s, p) # {}
  PROVE  PrimaryTag(s, p) \in TagsShown(s, p)
<1> DEFINE alarmed == IF AlarmsOf(s, p) = {} THEN {} ELSE {Newest(AlarmsOf(s, p)).tag}
<1>1. TagsShown(s, p) \subseteq Nat
  BY PlcTagFacts DEF TagsShown
<1>2. CASE alarmed \cap TagsShown(s, p) # {}
  <2>1. PICK t \in TagsShown(s, p) : alarmed = {t}
    BY <1>2
  <2>2. PrimaryTag(s, p) = First(alarmed)
    BY <1>2 DEF PrimaryTag
  <2>3. First(alarmed) \in alarmed
    BY <1>1, <2>1, FirstIsATag
  <2> QED
    BY <2>1, <2>2, <2>3
<1>3. CASE ~(alarmed \cap TagsShown(s, p) # {})
  <2>1. PrimaryTag(s, p) = First(TagsShown(s, p))
    BY <1>3 DEF PrimaryTag
  <2> QED
    BY <1>1, <2>1, FirstIsATag
<1> QED
  BY <1>2, <1>3

LEMMA TrackedAreTags ==
  ASSUME NEW s, s["readings"] \subseteq PlcTags
  PROVE  Tracked(s) \subseteq PlcTags
<1> SUFFICES ASSUME NEW p, TagsShown(s, p) # {}
             PROVE  [plc |-> p, tag |-> PrimaryTag(s, p)] \in PlcTags
  BY DEF Tracked
<1>1. PICK r \in s["readings"] : r.plc = p /\ r.tag = PrimaryTag(s, p)
  BY PrimaryIsShown DEF TagsShown
<1> QED
  BY <1>1, PlcTagFacts
-----------------------------------------------------------------------------
LEMMA TableFacts ==
  /\ Table("readings") = PlcTags /\ Table("alarms") = Alarms /\ Table("gateways") = Reports
  /\ \A f \in Feeds : Table(f) \subseteq PlcTags \cup Alarms \cup Reports
BY DEF Table, Feeds

LEMMA AnswerIsOfTheTable ==
  ASSUME AppTypeOK, NEW f \in Feeds
  PROVE  Answer(f) \subseteq Table(f)
<1>1. CASE f = "readings"
  BY <1>1, TableFacts DEF Answer, AppTypeOK
<1>2. CASE f = "alarms"
  BY <1>2, TableFacts DEF Answer, Page, AppTypeOK
<1>3. CASE f = "gateways"
  BY <1>3, TableFacts DEF Answer, AppTypeOK
<1> QED
  BY <1>1, <1>2, <1>3 DEF Feeds

LEMMA AppTypeInit == AppInit => AppTypeOK
<1> SUFFICES ASSUME AppInit PROVE AppTypeOK
  OBVIOUS
<1>1. Tracked(feeds) = {}
  BY DEF AppInit, Tracked, Cards, Feeds
<1>2. call \in [Feeds -> [state : {"none", "asked", "read"}, body : Bodies]]
  BY DEF AppInit, NoCall, Bodies
<1>3. \A f \in Feeds : call[f].body \subseteq Table(f) /\ feeds[f] \subseteq Table(f)
  BY DEF AppInit, NoCall
<1>4. feeds \in [Feeds -> Bodies]
  BY DEF AppInit, Bodies
<1>5. reports \in 0..MaxReports
  BY OverviewAssumption DEF OverviewAssumption, AppInit
<1> QED
  BY <1>1, <1>2, <1>3, <1>4, <1>5 DEF AppInit, AppTypeOK

\* A call that is asked, answered with what is of its table, or over.
LEMMA CallKeeps ==
  ASSUME AppTypeOK, NEW f \in Feeds, NEW b, b \subseteq Table(f),
         NEW st \in {"none", "asked", "read"},
         call' = [call EXCEPT ![f] = [state |-> st, body |-> b]]
  PROVE  /\ call' \in [Feeds -> [state : {"none", "asked", "read"}, body : Bodies]]
         /\ \A g \in Feeds : call'[g].body \subseteq Table(g)
<1>1. call \in [Feeds -> [state : {"none", "asked", "read"}, body : Bodies]]
  BY DEF AppTypeOK
<1>2. b \in Bodies
  BY TableFacts DEF Bodies
<1>3. call' \in [Feeds -> [state : {"none", "asked", "read"}, body : Bodies]]
  BY <1>1, <1>2
<1>4. \A g \in Feeds : call'[g].body = IF g = f THEN b ELSE call[g].body
  BY <1>1
<1> QED
  BY <1>3, <1>4 DEF AppTypeOK

LEMMA AppTypeStep == AppTypeOK /\ [AppNext]_appVars => AppTypeOK'
<1> SUFFICES ASSUME AppTypeOK, [AppNext]_appVars PROVE AppTypeOK'
  OBVIOUS
<1> USE DEF cloudVars, fetchVars
<1>1. ASSUME UNCHANGED <<call, feeds, fetchVars>>,
             rows' \subseteq PlcTags, alarms' \subseteq Alarms,
             status' \subseteq Reports, reports' \in 0..MaxReports
      PROVE  AppTypeOK'
  BY <1>1 DEF AppTypeOK, Table
<1>2. ASSUME NEW r \in PlcTags, ReadingLands(r) PROVE AppTypeOK'
  BY <1>1, <1>2 DEF ReadingLands, AppTypeOK
<1>3. ASSUME NEW a \in Alarms, AlarmLands(a) PROVE AppTypeOK'
  BY <1>1, <1>3 DEF AlarmLands, AppTypeOK
<1>4. ASSUME NEW r \in Reports, ReportLands(r) PROVE AppTypeOK'
  <2>1. reports' \in 0..MaxReports
    BY <1>4, OverviewAssumption DEF OverviewAssumption, ReportLands, AppTypeOK
  <2>2. status' \subseteq Reports
    BY <1>4 DEF ReportLands, AppTypeOK
  <2> QED
    BY <1>1, <1>4, <2>1, <2>2 DEF ReportLands, AppTypeOK
<1>5. ASSUME NEW f \in Feeds, PollFeed(f) \/ ReadFeed(f) \/ FeedFails(f) PROVE AppTypeOK'
  <2>1. /\ UNCHANGED <<cloudVars, feeds, fetchVars>>
        /\ \E st \in {"none", "asked", "read"} : \E b :
             b \subseteq Table(f) /\ call' = [call EXCEPT ![f] = [state |-> st, body |-> b]]
    BY <1>5, AnswerIsOfTheTable DEF PollFeed, ReadFeed, FeedFails, NoCall
  <2>2. /\ call' \in [Feeds -> [state : {"none", "asked", "read"}, body : Bodies]]
        /\ \A g \in Feeds : call'[g].body \subseteq Table(g)
    BY <2>1, CallKeeps
  <2> QED
    BY <2>1, <2>2 DEF AppTypeOK, Table
<1>6. ASSUME NEW f \in Feeds, FeedArrives(f) PROVE AppTypeOK'
  <2>1. /\ UNCHANGED <<rows, alarms, status, reports>>
        /\ call' = [call EXCEPT ![f] = NoCall] /\ feeds' = [feeds EXCEPT ![f] = call[f].body]
    BY <1>6 DEF FeedArrives
  <2>2. /\ call' \in [Feeds -> [state : {"none", "asked", "read"}, body : Bodies]]
        /\ \A g \in Feeds : call'[g].body \subseteq Table(g)
    BY <2>1, CallKeeps DEF NoCall
  <2>3. /\ feeds' \in [Feeds -> Bodies]
        /\ \A g \in Feeds : feeds'[g] \subseteq Table(g)
    <3>1. call[f].body \in Bodies /\ call[f].body \subseteq Table(f)
      BY DEF AppTypeOK
    <3> QED
      BY <2>1, <3>1 DEF AppTypeOK
  <2>4. deps' = Tracked(feeds') /\ history' = history
    BY <1>6 DEF FeedArrives, Effect
  <2>5. deps' \subseteq PlcTags
    <3>1. feeds'["readings"] \subseteq PlcTags
      BY <2>3, TableFacts DEF Feeds
    <3> QED
      BY <2>4, <3>1, TrackedAreTags
  <2>6. jobs' \subseteq [keys : SUBSET PlcTags, live : BOOLEAN]
    <3>1. \A j \in jobs : [j EXCEPT !.live = FALSE] \in [keys : SUBSET PlcTags, live : BOOLEAN]
      BY DEF AppTypeOK
    <3>2. [keys |-> deps', live |-> TRUE] \in [keys : SUBSET PlcTags, live : BOOLEAN]
      BY <2>5
    <3>3. \/ jobs' = jobs
          \/ jobs' = {[j EXCEPT !.live = FALSE] : j \in jobs}
                       \cup {[keys |-> k, live |-> TRUE] : k \in {deps'} \ {{}}}
      BY <1>6 DEF FeedArrives, Effect
    <3>4. CASE jobs' = jobs
      BY <3>4 DEF AppTypeOK
    <3>5. CASE jobs' # jobs
      <4>1. ASSUME NEW i \in jobs'
            PROVE  \/ \E j \in jobs : i = [j EXCEPT !.live = FALSE]
                   \/ i = [keys |-> deps', live |-> TRUE]
        BY <3>3, <3>5
      <4> QED
        BY <3>1, <3>2, <4>1
    <3> QED
      BY <3>4, <3>5
  <2> QED
    BY <2>1, <2>2, <2>3, <2>4, <2>6 DEF AppTypeOK, Table
<1>7. ASSUME NEW j \in jobs, NEW failed, FetchesEnd(j, failed) PROVE AppTypeOK'
  <2>1. UNCHANGED <<cloudVars, call, feeds, deps>> /\ jobs' = jobs \ {j}
    BY <1>7 DEF FetchesEnd
  <2>2. history' \subseteq [key : PlcTags, points : BOOLEAN]
    <3>1. j.keys \subseteq PlcTags
      BY DEF AppTypeOK
    <3>2. \A k \in j.keys : [key |-> k, points |-> k \notin failed]
                              \in [key : PlcTags, points : BOOLEAN]
      BY <3>1
    <3>3. CASE j.live
      <4>1. history' = {[key |-> k, points |-> k \notin failed] : k \in j.keys}
        BY <1>7, <3>3 DEF FetchesEnd
      <4> QED
        BY <3>2, <4>1
    <3>4. CASE ~j.live
      BY <1>7, <3>4 DEF FetchesEnd, AppTypeOK
    <3> QED
      BY <3>3, <3>4
  <2> QED
    BY <2>1, <2>2 DEF AppTypeOK, Table
<1>8. CASE UNCHANGED appVars
  BY <1>1, <1>8 DEF appVars, AppTypeOK
<1> QED
  BY <1>2, <1>3, <1>4, <1>5, <1>6, <1>7, <1>8 DEF AppNext

\* Every variable of the overview keeps its type, a feed shows what its own table
\* had, and the effect has always run for the tags that are in front.
THEOREM AppTypeCorrect == AppSpec => []AppTypeOK
BY AppTypeInit, AppTypeStep, PTL DEF AppSpec
-----------------------------------------------------------------------------
\* A fetch that was not cancelled is for the tags the effect ran for last; when there
\* is none, the sparklines on the screen are.
FetchInv ==
  /\ \A j \in jobs : j = [keys |-> j.keys, live |-> j.live]
  /\ \A j \in jobs : j.live => j.keys = deps
  /\ deps # {} /\ (\A j \in jobs : ~j.live) => {h.key : h \in history} = deps

LEMMA EffectKeeps ==
  ASSUME FetchInv, NEW s, Effect(s)
  PROVE  FetchInv'
<1>1. CASE deps' = deps
  BY <1>1 DEF Effect, FetchInv
<1>2. CASE deps' # deps
  <2> DEFINE Cancelled == {[j EXCEPT !.live = FALSE] : j \in jobs}
             Started   == {[keys |-> k, live |-> TRUE] : k \in {deps'} \ {{}}}
  <2>1. jobs' = Cancelled \cup Started
    BY <1>2 DEF Effect
  <2>2. \A j \in Cancelled : j = [keys |-> j.keys, live |-> FALSE] /\ ~j.live
    <3> SUFFICES ASSUME NEW i \in jobs, NEW j, j = [i EXCEPT !.live = FALSE]
                 PROVE  j = [keys |-> j.keys, live |-> FALSE]
      OBVIOUS
    <3>1. i = [keys |-> i.keys, live |-> i.live]
      BY DEF FetchInv
    <3> QED
      BY <3>1
  <2>3. \A j \in Started : j = [keys |-> deps', live |-> TRUE]
    OBVIOUS
  <2>4. deps' # {} => [keys |-> deps', live |-> TRUE] \in jobs'
    BY <2>1
  <2> HIDE DEF Cancelled, Started
  <2>5. \A j \in jobs' : j = [keys |-> j.keys, live |-> j.live] /\ (j.live => j.keys = deps')
    BY <2>1, <2>2, <2>3
  <2> QED
    BY <2>4, <2>5 DEF FetchInv
<1> QED
  BY <1>1, <1>2

LEMMA FetchesKeep ==
  ASSUME FetchInv, NEW j \in jobs, NEW failed, FetchesEnd(j, failed)
  PROVE  FetchInv'
<1>1. jobs' = jobs \ {j} /\ deps' = deps
  BY DEF FetchesEnd
<1>2. CASE j.live
  <2>1. history' = {[key |-> k, points |-> k \notin failed] : k \in j.keys}
    BY <1>2 DEF FetchesEnd
  <2>2. j.keys = deps
    BY <1>2 DEF FetchInv
  <2>3. ASSUME NEW k \in deps PROVE \E h \in history' : h.key = k
    <3>1. [key |-> k, points |-> k \notin failed] \in history'
      BY <2>1, <2>2
    <3> QED
      BY <3>1
  <2>4. \A h \in history' : h.key \in deps
    BY <2>1, <2>2
  <2>5. {h.key : h \in history'} = deps
    BY <2>3, <2>4
  <2> QED
    BY <1>1, <2>5 DEF FetchInv
<1>3. CASE ~j.live
  BY <1>1, <1>3 DEF FetchesEnd, FetchInv
<1> QED
  BY <1>2, <1>3

LEMMA NextFetchInv == FetchInv /\ [AppNext]_appVars => FetchInv'
<1> SUFFICES ASSUME FetchInv, [AppNext]_appVars PROVE FetchInv'
  OBVIOUS
<1>1. ASSUME UNCHANGED <<deps, jobs, history>> PROVE FetchInv'
  BY <1>1 DEF FetchInv
<1>2. ASSUME NEW f \in Feeds, FeedArrives(f) PROVE FetchInv'
  BY <1>2, EffectKeeps DEF FeedArrives
<1>3. \/ UNCHANGED <<deps, jobs, history>>
      \/ \E f \in Feeds : FeedArrives(f)
      \/ \E j \in jobs : \E failed \in SUBSET j.keys : FetchesEnd(j, failed)
  BY DEF AppNext, appVars, fetchVars, ReadingLands, AlarmLands,
         ReportLands, PollFeed, ReadFeed, FeedFails
<1> QED
  BY <1>1, <1>2, <1>3, FetchesKeep

\* The sparklines on the screen are those of the tags in front once a fetch that was
\* not cancelled has ended: the effect's cleanup cancels those that are out of date,
\* however many are under way and in whatever order they end.
THEOREM SparklinesInFront == AppSpec => []SparklinesFollow
<1>1. AppInit => FetchInv
  BY DEF AppInit, FetchInv
<1>2. FetchInv /\ AppTypeOK => SparklinesFollow
  BY DEF FetchInv, AppTypeOK, SparklinesFollow
<1> QED
  BY <1>1, <1>2, NextFetchInv, AppTypeCorrect, PTL DEF AppSpec
=============================================================================
