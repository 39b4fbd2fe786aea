--------------------------------- MODULE RawData ---------------------------------
(***************************************************************************)
(* The raw-data catalog: rows of raw_data_sources and the files they name  *)
(* under the storage root.  No transaction spans the two, nor the rows of  *)
(* one upload: requests work on them statement by statement and file by    *)
(* file, other requests run in between, and the process may die.           *)
(*                                                                         *)
(* A file is <<c, n>>, the n-th of create request c; its row has the same  *)
(* name.  A source without a file has the row <<c, 0>>.                    *)
(***************************************************************************)
EXTENDS Naturals

CONSTANTS
  Creates,          \* POST requests
  TypeOf,           \* the source type of each
  FileCount,        \* how many files it carries
  Deletes, Downloads,
  DiskMayFail,      \* environment: saving or removing a file may fail with a system error
  MayCrash

ASSUME RawDataAssumption ==
  /\ TypeOf \in [Creates -> {"excel", "word", "scanned_pdf", "equipment_layout", "db_sql"}]
  /\ FileCount \in [Creates -> Nat]
  /\ DiskMayFail \in BOOLEAN /\ MayCrash \in BOOLEAN

VARIABLES
  rows,      \* the catalog
  files,     \* the files under the storage root
  pc,        \* how far each create is, or how it was answered
  saved,     \* files it has saved and would clean up
  inserted,  \* rows it has inserted
  deleting,  \* the row each delete works on
  delPc, loading, loadPc,
  removed,   \* history: rows that were deleted
  leaked     \* history: files that a disk error left behind

createVars == <<pc, saved, inserted>>
deleteVars == <<deleting, delPc, removed>>
loadVars   == <<loading, loadPc>>
vars == <<rows, files, leaked, createVars, deleteVars, loadVars>>

HasFile(r) == r[2] > 0
FilesOf(c) == {<<c, n>> : n \in 1..FileCount[c]}

\* The rows for the files fs: one each, but layouts and queries are one source.
RowsFor(c, fs) ==
  CASE TypeOf[c] = "db_sql" -> {<<c, 0>>}
    [] TypeOf[c] = "equipment_layout" -> {<<c, IF fs = {} THEN 0 ELSE 1>>}
    [] OTHER -> fs

RowsOf(c)  == RowsFor(c, FilesOf(c))
AllRows    == UNION {RowsOf(c) : c \in Creates}
AllFiles   == UNION {FilesOf(c) : c \in Creates}

Init ==
  /\ rows = {} /\ files = {} /\ removed = {} /\ leaked = {}
  /\ pc = [c \in Creates |-> "new"]
  /\ saved = [c \in Creates |-> {}] /\ inserted = [c \in Creates |-> {}]
  /\ deleting \in [Deletes -> AllRows] /\ delPc = [d \in Deletes |-> "new"]
  /\ loading \in [Downloads -> AllRows] /\ loadPc = [w \in Downloads |-> "new"]

Goto(c, place) == pc' = [pc EXCEPT ![c] = place]

\* delete_on_disk() of each: a file that cannot be removed stays, without an error.
CleanUp(fs) ==
  \E stuck \in SUBSET (fs \cap files) :
    /\ stuck # {} => DiskMayFail
    /\ files' = files \ (fs \ stuck)
    /\ leaked' = leaked \cup stuck
-----------------------------------------------------------------------------
(* create_sources(): first every file, then every row, each in turn.       *)

\* The first of the files, then of the rows, that is not done yet.
IsNext(r, all, done) == r \in all \ done /\ \A s \in all \ done : r[2] <= s[2]

LayoutsOfManyFiles(c) ==        \* mutant: "equipment_layout": (0, None)
  CASE TypeOf[c] = "db_sql" -> FileCount[c] = 0
    [] TypeOf[c] = "equipment_layout" -> TRUE
    [] OTHER -> FileCount[c] >= 1

\* FILE_COUNT_RANGE_BY_TYPE.
CountAllowed(c) ==
  CASE TypeOf[c] = "db_sql" -> FileCount[c] = 0
    [] TypeOf[c] = "equipment_layout" -> FileCount[c] <= 1
    [] OTHER -> FileCount[c] >= 1

\* 400 before anything is saved: the number of files, or a field that the type needs.
Invalid(c) ==
  /\ pc[c] = "new"
  /\ ~CountAllowed(c) \/ TypeOf[c] \in {"equipment_layout", "db_sql"}
  /\ Goto(c, "rejected")
  /\ UNCHANGED <<leaked, rows, files, saved, inserted, deleteVars, loadVars>>

Start(c) ==
  /\ pc[c] = "new"
  /\ CountAllowed(c)
  /\ Goto(c, IF FileCount[c] = 0 THEN "inserting" ELSE "saving")
  /\ UNCHANGED <<leaked, rows, files, saved, inserted, deleteVars, loadVars>>

SaveFile(c, f) ==
  /\ pc[c] = "saving"
  /\ IsNext(f, FilesOf(c), saved[c])
  /\ files' = files \cup {f}
  /\ saved' = [saved EXCEPT ![c] = @ \cup {f}]
  /\ Goto(c, IF saved'[c] = FilesOf(c) THEN "inserting" ELSE "saving")
  /\ UNCHANGED <<leaked, rows, inserted, deleteVars, loadVars>>

KeepsTheOthers(c) ==            \* mutant: only the rejected file is left out
  /\ pc[c] = "saving"
  /\ Goto(c, IF saved[c] = {} THEN "rejected" ELSE "inserting")
  /\ UNCHANGED <<leaked, rows, files, saved, inserted, deleteVars, loadVars>>

\* Wrong extension or too large: 400, and the files saved so far are deleted.
SaveRejected(c) ==
  /\ pc[c] = "saving"
  /\ CleanUp(saved[c])
  /\ Goto(c, "rejected")
  /\ UNCHANGED <<rows, saved, inserted, deleteVars, loadVars>>

\* Any other exception, a full disk for one: 500, nothing is cleaned up.
SaveFails(c, f) ==
  /\ DiskMayFail
  /\ pc[c] = "saving"
  /\ IsNext(f, FilesOf(c), saved[c])
  /\ files' \in {files, files \cup {f}}
  /\ leaked' = leaked \cup saved[c] \cup {f}
  /\ Goto(c, "failed")
  /\ UNCHANGED <<rows, saved, inserted, deleteVars, loadVars>>

\* _insert_rows()
ToInsert(c) == RowsFor(c, saved[c])

InsertRow(c, r) ==
  /\ pc[c] = "inserting"
  /\ IsNext(r, ToInsert(c), inserted[c])
  /\ rows' = rows \cup {r}
  /\ inserted' = [inserted EXCEPT ![c] = @ \cup {r}]
  /\ Goto(c, IF inserted'[c] = ToInsert(c) THEN "created" ELSE "inserting")
  /\ UNCHANGED <<leaked, files, saved, deleteVars, loadVars>>

NoCleanup(c) ==                 \* mutant: the 500 propagates at once
  /\ pc[c] = "inserting"
  /\ Goto(c, "failed")
  /\ UNCHANGED <<leaked, rows, files, saved, inserted, deleteVars, loadVars>>

\* No connection, or an INSERT fails, whichever of them: 500, and all of the request's
\* files are deleted, but no row that an earlier INSERT has committed.
InsertFails(c) ==
  /\ pc[c] = "inserting"
  /\ CleanUp(saved[c])
  /\ Goto(c, "failed")
  /\ UNCHANGED <<rows, saved, inserted, deleteVars, loadVars>>

Create(c) ==
  \/ Invalid(c) \/ Start(c) \/ SaveRejected(c) \/ InsertFails(c)
  \/ \E f \in FilesOf(c) : SaveFile(c, f) \/ SaveFails(c, f)
  \/ \E r \in RowsOf(c) : InsertRow(c, r)
-----------------------------------------------------------------------------
(* delete_source(): the row goes first, its file once the connection is    *)
(* back in the pool.                                                       *)

DeleteFileFirst(d) ==           \* mutant: the file goes first
  /\ delPc[d] = "new"
  /\ deleting[d] \in rows
  /\ files' = files \ {deleting[d]}
  /\ delPc' = [delPc EXCEPT ![d] = "removing"]
  /\ UNCHANGED <<leaked, rows, createVars, deleting, removed, loadVars>>

RemoveAgain(d) ==              \* mutant: it does not matter whether a row was deleted
  /\ delPc[d] = "new"
  /\ rows' = rows \ {deleting[d]} /\ removed' = removed \cup ({deleting[d]} \cap rows)
  /\ delPc' = [delPc EXCEPT ![d] = "removing"]
  /\ UNCHANGED <<leaked, files, createVars, deleting, loadVars>>

DeleteRow(d) ==
  /\ delPc[d] = "new"
  /\ deleting[d] \in rows
  /\ rows' = rows \ {deleting[d]} /\ removed' = removed \cup {deleting[d]}
  /\ delPc' = [delPc EXCEPT ![d] = "removing"]
  /\ UNCHANGED <<leaked, files, createVars, deleting, loadVars>>

DeleteNothing(d) ==
  /\ delPc[d] = "new"
  /\ deleting[d] \notin rows
  /\ delPc' = [delPc EXCEPT ![d] = "404"]
  /\ UNCHANGED <<leaked, rows, files, createVars, deleting, removed, loadVars>>

RemoveFile(d) ==
  /\ delPc[d] = "removing"
  /\ CleanUp({deleting[d]})
  /\ delPc' = [delPc EXCEPT ![d] = "204"]
  /\ UNCHANGED <<rows, createVars, deleting, removed, loadVars>>

Delete(d) == DeleteRow(d) \/ DeleteNothing(d) \/ RemoveFile(d)
-----------------------------------------------------------------------------
(* download_source(): the row, then is_file(), then the response opens it. *)

FindRow(w) ==
  /\ loadPc[w] = "new"
  /\ loadPc' = [loadPc EXCEPT ![w] =
                  IF loading[w] \in rows /\ HasFile(loading[w]) THEN "found" ELSE "404"]
  /\ UNCHANGED <<leaked, rows, files, createVars, deleteVars, loading>>

CheckFile(w) ==
  /\ loadPc[w] = "found"
  /\ loadPc' = [loadPc EXCEPT ![w] = IF loading[w] \in files THEN "sending" ELSE "404"]
  /\ UNCHANGED <<leaked, rows, files, createVars, deleteVars, loading>>

SendFile(w) ==
  /\ loadPc[w] = "sending"
  /\ loadPc' = [loadPc EXCEPT ![w] = IF loading[w] \in files THEN "200" ELSE "500"]
  /\ UNCHANGED <<leaked, rows, files, createVars, deleteVars, loading>>

Download(w) == FindRow(w) \/ CheckFile(w) \/ SendFile(w)
-----------------------------------------------------------------------------
Saving(c) == {f \in FilesOf(c) : pc[c] = "saving" /\ IsNext(f, FilesOf(c), saved[c])}

\* The process dies: what each request was doing is forgotten, and part of a file
\* it was saving may stay.
Crash ==
  /\ MayCrash
  /\ \E parts \in SUBSET UNION {Saving(c) : c \in Creates} : files' = files \cup parts
  /\ pc' = [c \in Creates |-> IF pc[c] \in {"saving", "inserting"} THEN "dead" ELSE pc[c]]
  /\ delPc' = [d \in Deletes |-> IF delPc[d] = "removing" THEN "dead" ELSE delPc[d]]
  /\ loadPc' = [w \in Downloads |->
                  IF loadPc[w] \in {"found", "sending"} THEN "dead" ELSE loadPc[w]]
  /\ UNCHANGED <<rows, leaked, saved, inserted, deleting, removed, loading>>

Next ==
  \/ \E c \in Creates : Create(c)
  \/ \E d \in Deletes : Delete(d)
  \/ \E w \in Downloads : Download(w)
  \/ Crash

Spec == Init /\ [][Next]_vars
-----------------------------------------------------------------------------
\* Every variable has its type, and no row is inserted before every file of its
\* request is saved.
TypeOK ==
  /\ rows \subseteq AllRows /\ files \subseteq AllFiles
  /\ removed \subseteq AllRows /\ leaked \subseteq AllFiles
  /\ pc \in [Creates -> {"new", "saving", "inserting", "created", "rejected", "failed", "dead"}]
  /\ delPc \in [Deletes -> {"new", "removing", "204", "404", "dead"}]
  /\ loadPc \in [Downloads -> {"new", "found", "sending", "200", "404", "500", "dead"}]
  /\ deleting \in [Deletes -> AllRows] /\ loading \in [Downloads -> AllRows]
  /\ \A c \in Creates : /\ saved[c] \subseteq FilesOf(c) /\ inserted[c] \subseteq RowsOf(c)
                        /\ inserted[c] # {} => saved[c] = FilesOf(c)

\* A file without a row belongs to a request that is still at work on it, unless
\* that request died or a disk error kept it from removing the file.
NoOrphans ==
  \A f \in files \ (rows \cup leaked) :
    \/ pc[f[1]] \in {"saving", "inserting", "dead"}
    \/ \E d \in Deletes : deleting[d] = f /\ delPc[d] \in {"removing", "dead"}

\* What an INSERT that fails can do at most: a row without its file, and rows of an
\* upload that has not all of them, are of a request that was answered 500; one that
\* was answered 201 has all its rows but those deleted since, one answered 400 none.
OnlyFailuresDamage ==
  /\ \A r \in rows : HasFile(r) /\ r \notin files => pc[r[1]] = "failed"
  /\ \A c \in Creates :
       /\ pc[c] = "created" => RowsOf(c) \subseteq rows \cup removed
       /\ pc[c] = "rejected" => RowsOf(c) \cap (rows \cup removed) = {}

\* The answers that have been given.
Created(place) ==
  CASE place = "created" -> "201"
    [] place = "rejected" -> "400"
    [] place = "failed" -> "500"
    [] OTHER -> "none"
Answered(place) == IF place \in {"200", "204", "404", "500"} THEN place ELSE "none"

RowsFrom == [c \in Creates |-> RowsOf(c)]
WithFile == {r \in AllRows : HasFile(r)}

\* Table, files and requests together implement Catalog.
C == INSTANCE Catalog WITH
       listed <- rows, gone <- removed, held <- files,
       created <- [c \in Creates |-> Created(pc[c])],
       target <- deleting, deleted <- [d \in Deletes |-> Answered(delPc[d])],
       wanted <- loading, sent <- [w \in Downloads |-> Answered(loadPc[w])]
CatalogSpec == C!CSpec
-----------------------------------------------------------------------------
(* Statements of the design document and of comments that the code does    *)
(* not keep: an INSERT that fails leaves the rows before it, and takes     *)
(* their files away.                                                       *)

\* The catalog promises no file that is not there.
RowsHaveFiles == \A r \in rows : HasFile(r) => r \in files

\* A create is all or nothing: answered 201, every row is in the catalog but for
\* those deleted since; answered 400 or 500, none of them is.
AllOrNothing ==
  \A c \in Creates :
    /\ pc[c] = "created" => RowsOf(c) \subseteq rows \cup removed
    /\ pc[c] \in {"rejected", "failed"} => RowsOf(c) \cap rows = {}

\* A download never fails with a server error because the file is missing.
MissingFileIs404 == \A w \in Downloads : loadPc[w] # "500"
=============================================================================
