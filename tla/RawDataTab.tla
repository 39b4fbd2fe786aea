------------------------------- MODULE RawDataTab -------------------------------
(***************************************************************************)
(* The dashboard's raw-data tab: the rows a user sees are those of the     *)
(* last poll and, ahead of them, an optimistic row for every upload that   *)
(* is under way or has failed.  Polls (usePolling) and uploads cross each  *)
(* other and the catalog's own changes; leaving the tab unmounts it.       *)
(*                                                                         *)
(* An attempt <<s, k>> is the k-th upload of submission s.  The catalog is *)
(* the server's, one row per attempt here; its history is numbered.        *)
(***************************************************************************)
EXTENDS Naturals, FiniteSets

CONSTANTS
  Submissions,
  MaxTries,       \* bound: uploads of one submission
  MaxCalls,       \* bound: polls in flight at a tick
  MaxVisits,      \* bound: times the tab is opened
  FetchMayFail, ConnectionMayBreak,   \* environment: the network
  SameOrigin      \* deployment: the dashboard and the API share an origin

ASSUME RawDataTabAssumption ==
  /\ MaxTries \in Nat \ {0} /\ MaxCalls \in Nat /\ MaxVisits \in Nat
  /\ FetchMayFail \in BOOLEAN /\ ConnectionMayBreak \in BOOLEAN
  /\ SameOrigin \in BOOLEAN

VARIABLES
  catalog, version,  \* the server's rows, and how often they changed
  calls,             \* polls in flight: the newest one is "latest"
  shown, error,      \* the poll on the screen; the latest one failed
  reloadDue,         \* refetch() was called and the effect has not run again
  post,              \* how far each upload is
  row,               \* its optimistic row
  submitting,        \* disables the form's button
  del,               \* how far each deletion is
  ours,              \* uploads and deletions of the mounted tab: the others
                     \* were started before the user left it
  mounted, visits

server   == <<catalog, version>>
display  == <<shown, error>>
requests == <<post, row, submitting, del, ours>>
visit    == <<mounted, visits>>
vars == <<server, calls, display, reloadDue, requests, visit>>

Attempts == Submissions \X (1..MaxTries)
Nothing  == [version |-> 0, list |-> {}]
Asked    == [latest |-> TRUE, read |-> FALSE, body |-> Nothing]

Init ==
  /\ catalog = {} /\ version = 0
  /\ calls = {Asked} /\ shown = Nothing /\ error = FALSE /\ reloadDue = FALSE
  /\ post = [a \in Attempts |-> "unsent"] /\ row = [a \in Attempts |-> "none"]
  /\ submitting = FALSE
  /\ del = [a \in Attempts |-> "none"]
  /\ ours = {}
  /\ mounted = TRUE /\ visits = 1
-----------------------------------------------------------------------------
(* usePolling()                                                            *)

Superseded == {[c EXCEPT !.latest = FALSE] : c \in calls}

Tick ==
  /\ mounted /\ ~reloadDue
  /\ Cardinality(calls) < MaxCalls
  /\ calls' = Superseded \cup {Asked}
  /\ UNCHANGED <<server, display, reloadDue, requests, visit>>

\* The effect of a new reload token: the old one is cancelled.
Rerun ==
  /\ reloadDue
  /\ reloadDue' = FALSE
  /\ calls' = Superseded \cup {Asked}
  /\ UNCHANGED <<server, display, requests, visit>>

\* list_sources() answers.
Read(c) ==
  /\ c \in calls /\ ~c.read
  /\ calls' = (calls \ {c}) \cup
       {[c EXCEPT !.read = TRUE, !.body = [version |-> version, list |-> catalog]]}
  /\ UNCHANGED <<server, display, reloadDue, requests, visit>>

AnyReplyIsShown(c) ==           \* mutant: no generation check
  /\ c \in calls /\ c.read
  /\ calls' = calls \ {c}
  /\ shown' = IF mounted THEN c.body ELSE shown
  /\ error' = (error /\ ~mounted)
  /\ UNCHANGED <<server, reloadDue, requests, visit>>

\* The reply is shown unless a later poll was started or the effect cancelled.
Arrive(c) ==
  /\ c \in calls /\ c.read
  /\ calls' = calls \ {c}
  /\ shown' = IF c.latest THEN c.body ELSE shown
  /\ error' = (error /\ ~c.latest)
  /\ UNCHANGED <<server, reloadDue, requests, visit>>

\* An error keeps the data on the screen, beside a message.
FetchFails(c) ==
  /\ FetchMayFail
  /\ c \in calls
  /\ calls' = calls \ {c}
  /\ error' = (error \/ c.latest)
  /\ UNCHANGED <<server, shown, reloadDue, requests, visit>>

Poll == Tick \/ Rerun \/ \E c \in calls : Read(c) \/ Arrive(c) \/ FetchFails(c)
-----------------------------------------------------------------------------
(* handleCreate() and its retries                                          *)

Upload(a) ==
  /\ post[a] = "unsent"
  /\ post' = [post EXCEPT ![a] = "sent"]
  /\ submitting' = TRUE
  /\ ours' = ours \cup {<<"post", a>>}

\* The form's button.
Submit(s) ==
  /\ mounted /\ ~submitting
  /\ Upload(<<s, 1>>)
  /\ row' = [row EXCEPT ![<<s, 1>>] = "uploading"]
  /\ UNCHANGED <<server, calls, display, reloadDue, del, visit>>

Create(a) ==
  /\ post[a] = "sent"
  /\ catalog' = catalog \cup {a} /\ version' = version + 1
  /\ post' = [post EXCEPT ![a] = "created"]
  /\ UNCHANGED <<calls, display, reloadDue, row, submitting, del, ours, visit>>

RefetchForgotten(a) ==          \* mutant: the list is not asked for again
  /\ post[a] = "created"
  /\ post' = [post EXCEPT ![a] = "done"]
  /\ IF <<"post", a>> \in ours
       THEN row' = [row EXCEPT ![a] = "none"] /\ submitting' = FALSE
       ELSE UNCHANGED <<row, submitting>>
  /\ reloadDue' = reloadDue
  /\ UNCHANGED <<server, calls, display, del, ours, visit>>

\* 201.  On a tab that was left the calls of the handler change nothing.
PostSucceeds(a) ==
  /\ post[a] = "created"
  /\ post' = [post EXCEPT ![a] = "done"]
  /\ IF <<"post", a>> \in ours
       THEN row' = [row EXCEPT ![a] = "none"] /\ submitting' = FALSE /\ reloadDue' = TRUE
       ELSE UNCHANGED <<row, submitting, reloadDue>>
  /\ UNCHANGED <<server, calls, display, del, ours, visit>>

RowGoesWithTheUpload(a) ==      \* mutant: a failed upload takes its row along
  /\ post[a] = "sent" \/ (ConnectionMayBreak /\ post[a] = "created")
  /\ post' = [post EXCEPT ![a] = "failed"]
  /\ IF <<"post", a>> \in ours
       THEN row' = [row EXCEPT ![a] = "none"] /\ submitting' = FALSE
       ELSE UNCHANGED <<row, submitting>>
  /\ UNCHANGED <<server, calls, display, reloadDue, del, ours, visit>>

\* Refused by the server, or never there, or its answer is lost.
PostFails(a) ==
  /\ post[a] = "sent" \/ (ConnectionMayBreak /\ post[a] = "created")
  /\ post' = [post EXCEPT ![a] = "failed"]
  /\ IF <<"post", a>> \in ours
       THEN row' = [row EXCEPT ![a] = "error"] /\ submitting' = FALSE
       ELSE UNCHANGED <<row, submitting>>
  /\ UNCHANGED <<server, calls, display, reloadDue, del, ours, visit>>

RetryAnyRow(s, k) ==            \* mutant: a row under way has the button as well
  /\ mounted
  /\ row[<<s, k>>] \in {"uploading", "error"}
  /\ k < MaxTries
  /\ Upload(<<s, k + 1>>)
  /\ row' = [row EXCEPT ![<<s, k>>] = "none", ![<<s, k + 1>>] = "uploading"]
  /\ UNCHANGED <<server, calls, display, reloadDue, del, visit>>

\* handleRetry(): the button of an error row, whatever else is under way.
Retry(s, k) ==
  /\ mounted
  /\ row[<<s, k>>] = "error"
  /\ k < MaxTries
  /\ Upload(<<s, k + 1>>)
  /\ row' = [row EXCEPT ![<<s, k>>] = "none", ![<<s, k + 1>>] = "uploading"]
  /\ UNCHANGED <<server, calls, display, reloadDue, del, visit>>

Uploads ==
  \/ \E s \in Submissions : Submit(s) \/ \E k \in 1..MaxTries : Retry(s, k)
  \/ \E a \in Attempts : Create(a) \/ PostSucceeds(a) \/ PostFails(a)
-----------------------------------------------------------------------------
(* handleDelete(), and handleDismissError() of an error row                *)

Dismiss(a) ==
  /\ mounted
  /\ row[a] = "error"
  /\ row' = [row EXCEPT ![a] = "dismissed"]  \* gone, and by the user's choice
  /\ UNCHANGED <<server, calls, display, reloadDue, post, submitting, del, ours, visit>>

AskDelete(a) ==
  /\ mounted
  /\ a \in shown.list /\ del[a] = "none"
  /\ del' = [del EXCEPT ![a] = "sent"]
  /\ ours' = ours \cup {<<"delete", a>>}
  /\ UNCHANGED <<server, calls, display, reloadDue, post, row, submitting, visit>>

\* delete_source().  From another origin the browser asks first, and the API
\* allows that origin GET only (a POST of a form is not asked about).
Delete(a) ==
  /\ SameOrigin
  /\ del[a] = "sent"
  /\ catalog' = catalog \ {a} /\ version' = version + 1
  /\ del' = [del EXCEPT ![a] = "deleted"]
  /\ UNCHANGED <<calls, display, reloadDue, post, row, submitting, ours, visit>>

\* Answered or failed, the list is asked for again.
DeleteAnswered(a) ==
  /\ \/ del[a] = "deleted"
     \/ del[a] = "sent" /\ (ConnectionMayBreak \/ ~SameOrigin)
  /\ del' = [del EXCEPT ![a] = "done"]
  /\ reloadDue' = (reloadDue \/ <<"delete", a>> \in ours)
  /\ UNCHANGED <<server, calls, display, post, row, submitting, ours, visit>>

Deletions ==
  \E a \in Attempts : Dismiss(a) \/ AskDelete(a) \/ Delete(a) \/ DeleteAnswered(a)
-----------------------------------------------------------------------------
\* Another tab is chosen: React unmounts this one, with its state.
Leave ==
  /\ mounted /\ visits < MaxVisits
  /\ mounted' = FALSE
  /\ calls' = Superseded /\ shown' = Nothing /\ error' = FALSE /\ reloadDue' = FALSE
  /\ row' = [a \in Attempts |-> "none"] /\ submitting' = FALSE
  /\ ours' = {}
  /\ UNCHANGED <<server, post, del, visits>>

Return ==
  /\ ~mounted
  /\ mounted' = TRUE /\ visits' = visits + 1
  /\ calls' = calls \cup {Asked}
  /\ UNCHANGED <<server, display, reloadDue, requests>>

Next == Poll \/ Uploads \/ Deletions \/ Leave \/ Return

Spec == Init /\ [][Next]_vars

\* React runs the effect, the API handles requests, every poll is answered and its answer handled.  The
\* timer is given no fairness: the refetch after an upload must do without it.
FairSpec ==
  /\ Spec
  /\ WF_vars(Rerun)
  /\ WF_vars(\E c \in calls : Read(c)) /\ WF_vars(\E c \in calls : Arrive(c))
  /\ \A a \in Attempts : WF_vars(Delete(a))
-----------------------------------------------------------------------------
\* Every variable has its type, and at most one poll in flight is the latest.
TypeOK ==
  /\ catalog \subseteq Attempts /\ version \in Nat
  /\ \A c \in calls : /\ c.latest \in BOOLEAN /\ c.read \in BOOLEAN
                      /\ c.body.list \subseteq Attempts
  /\ Cardinality({c \in calls : c.latest}) <= 1
  /\ shown.list \subseteq Attempts
  /\ post \in [Attempts -> {"unsent", "sent", "created", "done", "failed"}]
  /\ row \in [Attempts -> {"none", "uploading", "error", "dismissed"}]
  /\ del \in [Attempts -> {"none", "sent", "deleted", "done"}]
  /\ mounted \in BOOLEAN /\ error \in BOOLEAN /\ submitting \in BOOLEAN /\ reloadDue \in BOOLEAN

\* The list never flickers back to an earlier state of the catalog.
NeverBackwards == [][mounted' /\ mounted => shown'.version >= shown.version]_vars

\* A submission is registered a second time only by a retry after the answer to
\* the earlier try was lost: no overlap of forms, retries and visits does it.
RegisteredOnce ==
  \A s \in Submissions : \A k, m \in 1..MaxTries :
    k < m /\ <<s, k>> \in catalog /\ <<s, m>> \in catalog => post[<<s, k>>] = "failed"

\* A failed upload of the mounted tab is on the screen until the user retries or
\* dismisses it.
FailureStays ==
  \A s \in Submissions : \A k \in 1..MaxTries :
    post[<<s, k>>] = "failed" /\ <<"post", <<s, k>>>> \in ours =>
      \/ row[<<s, k>>] \in {"error", "dismissed"}
      \/ k < MaxTries /\ post[<<s, k + 1>>] # "unsent"

\* What the mounted tab uploaded appears in the list, unless it is deleted, the
\* user leaves or a message says the list could not be had.
ListedHoweverSlow ==
  \A a \in Attempts :
    (post[a] = "done" /\ <<"post", a>> \in ours /\ a \in catalog) ~>
      (a \in shown.list \/ a \notin catalog \/ ~mounted \/ error)

\* The refetch alone makes sure of that, as soon as the server answers within an
\* interval, so that the timer supersedes no poll that is still to be answered.
UploadIsListed ==
  <>[][Tick => \A c \in calls : ~c.latest]_vars => ListedHoweverSlow
-----------------------------------------------------------------------------
(* Statements of the design documents that the code does not keep, and     *)
(* neither does it keep ListedHoweverSlow.                                 *)

\* Any failed upload is on the screen, also one of a tab that was left.
FailureIsSeen ==
  \A s \in Submissions : \A k \in 1..MaxTries :
    mounted /\ post[<<s, k>>] = "failed" =>
      \/ row[<<s, k>>] \in {"error", "dismissed"}
      \/ k < MaxTries /\ post[<<s, k + 1>>] # "unsent"

\* The form's button is disabled while an upload is under way.
ButtonOff ==
  submitting \/ \A a \in Attempts : <<"post", a>> \in ours => post[a] \notin {"sent", "created"}

\* A source the user deletes leaves the catalog, from another origin as well.
DeletedIsGone == \A a \in Attempts : del[a] = "sent" ~> a \notin catalog
=============================================================================
