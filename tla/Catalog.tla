-------------------------------- MODULE Catalog --------------------------------
(***************************************************************************)
(* What the raw-data catalog promises to those who upload, delete and      *)
(* download, whatever runs at the same time and wherever the process dies. *)
(*                                                                         *)
(* A row that is listed has its file, until a user deletes it: nothing     *)
(* else unlists it, and it never comes back.  An upload is answered 201    *)
(* when all of its rows have been listed, 400 when none has; one that is   *)
(* answered 500 may leave rows behind, and these alone may lack a file.    *)
(* Of all the deletions of a row one is told so.                           *)
(***************************************************************************)

CONSTANTS
  Creates, Deletes, Downloads,
  RowsFrom,      \* the rows of each create
  WithFile       \* the rows that have a file

VARIABLES
  listed,        \* the rows of the catalog
  gone,          \* rows that were deleted from it
  held,          \* the files
  created,       \* the answer to each create, or "none"
  target, deleted,  \* the row each deletion is for, and its answer
  wanted, sent      \* the row each download asks for, and its answer

askedVars == <<target, wanted>>
cvars == <<listed, gone, held, created, deleted, sent, askedVars>>

CInit ==
  /\ listed = {} /\ gone = {}
  /\ created = [c \in Creates |-> "none"]
  /\ deleted = [d \in Deletes |-> "none"]
  /\ sent = [w \in Downloads |-> "none"]

\* The rows of uploads that were answered 500.
Broken == UNION {RowsFrom[c] : c \in {c \in Creates : created[c] = "500"}}

\* The rows whose file is promised.
Promised == (listed \cap WithFile) \ Broken

\* Files come and go, but for those of the rows that are listed.
FilesKept == Promised' \subseteq held'

\* A create that is not answered yet lists rows of its own, or is answered, or both.
Upload(c) ==
  /\ created[c] = "none"
  /\ listed \subseteq listed' /\ listed' \ listed \subseteq RowsFrom[c] \ gone
  /\ \E answer \in {"none", "201", "400", "500"} : created' = [created EXCEPT ![c] = answer]
  /\ created'[c] = "201" => RowsFrom[c] \subseteq listed' \cup gone
  /\ created'[c] = "400" => RowsFrom[c] \cap (listed' \cup gone) = {}
  /\ FilesKept
  /\ UNCHANGED <<gone, deleted, sent, askedVars>>

Unlist(d) ==
  /\ deleted[d] = "none"
  /\ target[d] \in listed
  /\ listed' = listed \ {target[d]} /\ gone' = gone \cup {target[d]}
  /\ FilesKept
  /\ UNCHANGED <<created, deleted, sent, askedVars>>

AnswerDelete(d) ==
  /\ deleted[d] = "none"
  /\ \/ /\ deleted' = [deleted EXCEPT ![d] = "204"]
        /\ target[d] \in gone
        /\ \A e \in Deletes : target[e] = target[d] => deleted[e] # "204"
     \/ /\ deleted' = [deleted EXCEPT ![d] = "404"]
        /\ target[d] \notin listed
  /\ FilesKept
  /\ UNCHANGED <<listed, gone, created, sent, askedVars>>

\* The file of a row that is or was listed; nothing, if there is none to have; or an
\* error, if the row was deleted meanwhile or its upload was answered so.
AnswerDownload(w) ==
  /\ sent[w] = "none"
  /\ \/ /\ sent' = [sent EXCEPT ![w] = "200"]
        /\ wanted[w] \in (listed \cup gone) \cap held
     \/ /\ sent' = [sent EXCEPT ![w] = "404"]
        /\ wanted[w] \notin Promised
     \/ /\ sent' = [sent EXCEPT ![w] = "500"]
        /\ wanted[w] \in (gone \cup Broken) \cap WithFile
  /\ UNCHANGED <<listed, gone, held, created, deleted, askedVars>>

FilesChange ==
  /\ FilesKept
  /\ UNCHANGED <<listed, gone, created, deleted, sent, askedVars>>

CNext ==
  \/ FilesChange
  \/ \E w \in Downloads : AnswerDownload(w)
  \/ \E d \in Deletes : Unlist(d) \/ AnswerDelete(d)
  \/ \E c \in Creates : Upload(c)

CSpec == CInit /\ [][CNext]_cvars
=============================================================================
