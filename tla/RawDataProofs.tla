----------------------------- MODULE RawDataProofs -----------------------------
(***************************************************************************)
(* Proofs about RawData, for any requests, file counts, failures and       *)
(* crashes.                                                                *)
(***************************************************************************)
EXTENDS RawData, TLAPS

-----------------------------------------------------------------------------
(* Rows and files are named by their request, so no two requests share any.*)

LEMMA FileFacts ==
  ASSUME NEW c \in Creates, NEW f \in FilesOf(c)
  PROVE  f[1] = c /\ HasFile(f) /\ f \in AllFiles
BY RawDataAssumption DEF FilesOf, HasFile, AllFiles

LEMMA AllFilesFacts ==
  ASSUME NEW f \in AllFiles
  PROVE  f[1] \in Creates /\ f \in FilesOf(f[1])
<1>1. PICK c \in Creates : f \in FilesOf(c)
  BY DEF AllFiles
<1> QED
  BY <1>1, FileFacts

LEMMA RowFacts ==
  ASSUME NEW c \in Creates, NEW r \in RowsOf(c)
  PROVE  r[1] = c /\ r \in AllRows /\ (HasFile(r) => r \in FilesOf(c))
<1>1. r \in AllRows
  BY DEF AllRows
<1>2. FileCount[c] \in Nat
  BY RawDataAssumption
<1>3. CASE TypeOf[c] = "db_sql"
  BY <1>1, <1>3 DEF RowsOf, RowsFor, HasFile
<1>4. CASE TypeOf[c] = "equipment_layout"
  <2>1. r = <<c, IF FilesOf(c) = {} THEN 0 ELSE 1>>
    BY <1>4 DEF RowsOf, RowsFor
  <2>2. CASE FilesOf(c) = {}
    BY <1>1, <2>1, <2>2 DEF HasFile
  <2>3. CASE FilesOf(c) # {}
    <3>1. 1 \in 1..FileCount[c]
      BY <1>2, <2>3 DEF FilesOf
    <3> QED
      BY <1>1, <2>1, <2>3, <3>1 DEF FilesOf
  <2> QED
    BY <2>2, <2>3
<1>5. CASE TypeOf[c] \notin {"db_sql", "equipment_layout"}
  BY <1>1, <1>5, FileFacts DEF RowsOf, RowsFor
<1> QED
  BY <1>3, <1>4, <1>5

LEMMA AllRowsFacts ==
  ASSUME NEW r \in AllRows
  PROVE  r[1] \in Creates /\ r \in RowsOf(r[1])
<1>1. PICK c \in Creates : r \in RowsOf(c)
  BY DEF AllRows
<1> QED
  BY <1>1, RowFacts

\* A request that is let through gets a row for each of its files.
LEMMA AllowedFilesHaveRows ==
  ASSUME NEW c \in Creates, CountAllowed(c)
  PROVE  FilesOf(c) \subseteq RowsOf(c)
<1>1. FileCount[c] \in Nat
  BY RawDataAssumption
<1>2. CASE TypeOf[c] = "db_sql"
  BY <1>1, <1>2 DEF CountAllowed, FilesOf
<1>3. CASE TypeOf[c] = "equipment_layout"
  <2>1. FileCount[c] <= 1
    BY <1>3 DEF CountAllowed
  <2>2. FilesOf(c) \subseteq {<<c, 1>>}
    BY <1>1, <2>1 DEF FilesOf
  <2> QED
    BY <1>3, <2>2 DEF RowsOf, RowsFor
<1>4. CASE TypeOf[c] \notin {"db_sql", "equipment_layout"}
  BY <1>4 DEF RowsOf, RowsFor
<1> QED
  BY <1>2, <1>3, <1>4
-----------------------------------------------------------------------------
(* The inductive invariant.                                                *)

\* What a request has saved and inserted, by how far it is.
Progress(c) ==
  /\ saved[c] \subseteq FilesOf(c) /\ inserted[c] \subseteq RowsOf(c)
  /\ inserted[c] # {} => saved[c] = FilesOf(c)
  /\ pc[c] \notin {"new", "rejected"} => CountAllowed(c)
  /\ pc[c] = "new" => saved[c] = {}
  /\ pc[c] \in {"new", "saving"} => inserted[c] = {}
  /\ pc[c] \in {"inserting", "created"} => saved[c] = FilesOf(c)
  /\ pc[c] = "created" => inserted[c] = RowsOf(c)

\* A request's rows are in the catalog or were deleted from it.
Accounted(c) ==
  /\ (rows \cup removed) \cap RowsOf(c) \subseteq inserted[c]
  /\ inserted[c] \subseteq rows \cup removed

\* While a request is at work its files on disk are the ones it has saved, but for
\* those whose row was deleted meanwhile.
OnDisk(c) ==
  /\ pc[c] \in {"new", "saving", "inserting"} => files \cap FilesOf(c) \subseteq saved[c]
  /\ pc[c] \in {"saving", "inserting"} => saved[c] \subseteq files \cup removed

CreateInv(c) == Progress(c) /\ Accounted(c) /\ OnDisk(c)

BeingDeleted(f) == \E d \in Deletes : deleting[d] = f /\ delPc[d] \in {"removing", "dead"}

RemovedInv ==
  /\ rows \cap removed = {}
  /\ \A d \in Deletes : delPc[d] = "removing" => deleting[d] \in removed
  /\ \A f \in removed \cap files : f \in leaked \/ BeingDeleted(f)

TypeInv ==
  /\ rows \subseteq AllRows /\ files \subseteq AllFiles
  /\ removed \subseteq AllRows /\ leaked \subseteq AllFiles
  /\ pc \in [Creates -> {"new", "saving", "inserting", "created", "rejected", "failed", "dead"}]
  /\ delPc \in [Deletes -> {"new", "removing", "204", "404", "dead"}]
  /\ loadPc \in [Downloads -> {"new", "found", "sending", "200", "404", "500", "dead"}]
  /\ deleting \in [Deletes -> AllRows] /\ loading \in [Downloads -> AllRows]
  /\ saved \in [Creates -> SUBSET AllFiles] /\ inserted \in [Creates -> SUBSET AllRows]

IInv ==
  /\ TypeInv
  /\ \A c \in Creates : CreateInv(c)
  /\ RemovedInv
  /\ NoOrphans

LEMMA InitIInv == Init => IInv
<1> SUFFICES ASSUME Init PROVE IInv
  OBVIOUS
<1>1. TypeInv
  BY DEF Init, TypeInv
<1>2. ASSUME NEW c \in Creates PROVE CreateInv(c)
  BY DEF Init, CreateInv, Progress, Accounted, OnDisk
<1>3. RemovedInv /\ NoOrphans
  BY DEF Init, RemovedInv, NoOrphans
<1> QED
  BY <1>1, <1>2, <1>3 DEF IInv

LEMMA InvTypes == IInv => TypeOK
BY DEF IInv, TypeInv, TypeOK, CreateInv, Progress

LEMMA RemovedIsInserted ==
  ASSUME IInv, NEW r \in removed
  PROVE  r[1] \in Creates /\ r \in RowsOf(r[1]) /\ r \in inserted[r[1]]
BY AllRowsFacts DEF IInv, TypeInv, CreateInv, Accounted

\* A file that is not saved yet is not one whose row was deleted.
LEMMA UnsavedIsNew ==
  ASSUME IInv, NEW c \in Creates, NEW f \in FilesOf(c), f \notin saved[c]
  PROVE  f \notin removed
<1> SUFFICES ASSUME f \in removed PROVE FALSE
  OBVIOUS
<1>1. f[1] = c
  BY FileFacts
<1>2. inserted[c] # {}
  BY <1>1, RemovedIsInserted
<1> QED
  BY <1>2 DEF IInv, CreateInv, Progress
-----------------------------------------------------------------------------
(* Steps of a create.                                                      *)

\* A request keeps what it has when only other requests' rows and files change.
LEMMA OthersKeep ==
  ASSUME NEW b \in Creates, CreateInv(b),
         pc'[b] = pc[b], saved'[b] = saved[b], inserted'[b] = inserted[b],
         removed' = removed,
         \A r \in RowsOf(b) : r \in rows' <=> r \in rows,
         \A f \in FilesOf(b) : f \in files' <=> f \in files
  PROVE  CreateInv(b)'
BY DEF CreateInv, Progress, Accounted, OnDisk

\* What is left to show of a step of create c that goes to x: what it does to its
\* own files, and that a file it leaves behind when it ends is accounted for.
LEMMA CreateKeeps ==
  ASSUME IInv, TypeInv', NEW c \in Creates, NEW x, pc' = [pc EXCEPT ![c] = x],
         UNCHANGED deleteVars,
         \A b \in Creates \ {c} : saved'[b] = saved[b] /\ inserted'[b] = inserted[b],
         rows \subseteq rows', rows' \ rows \subseteq RowsOf(c) \ inserted[c],
         files' \ files \subseteq FilesOf(c) \ saved[c], files \ files' \subseteq FilesOf(c),
         leaked \subseteq leaked',
         CreateInv(c)',
         x \in {"created", "rejected", "failed"} =>
           \A f \in FilesOf(c) \cap files' : f \in rows' \cup leaked' \/ BeingDeleted(f)
  PROVE  IInv'
<1>1. \A b \in Creates \ {c} : CreateInv(b)'
  <2> SUFFICES ASSUME NEW b \in Creates, b # c PROVE CreateInv(b)'
    OBVIOUS
  <2>1. pc'[b] = pc[b]
    BY DEF IInv, TypeInv
  <2>2. \A r \in RowsOf(b) : r \in rows' <=> r \in rows
    BY RowFacts
  <2>3. \A f \in FilesOf(b) : f \in files' <=> f \in files
    BY FileFacts
  <2> QED
    BY <2>1, <2>2, <2>3, OthersKeep DEF IInv, deleteVars
<1>2. RemovedInv'
  <2>1. \A r \in removed : r \notin rows' \ rows
    BY RemovedIsInserted, RowFacts
  <2>2. \A f \in removed : f \notin files' \ files
    BY UnsavedIsNew
  <2> QED
    BY <2>1, <2>2 DEF IInv, RemovedInv, BeingDeleted, deleteVars
<1>3. NoOrphans'
  <2> SUFFICES ASSUME NEW f \in files', f \notin rows', f \notin leaked',
                      pc'[f[1]] \notin {"saving", "inserting", "dead"}
               PROVE  BeingDeleted(f)
    BY DEF NoOrphans, BeingDeleted, deleteVars
  <2>1. f[1] \in Creates /\ f \in FilesOf(f[1])
    BY AllFilesFacts DEF TypeInv
  <2>2. CASE f[1] = c
    <3>1. x \in {"created", "rejected", "failed"} \/ x = "new"
      BY <2>1, <2>2 DEF IInv, TypeInv
    <3>2. CASE x = "new"
      <4>1. pc'[c] = "new"
        BY <3>2 DEF IInv, TypeInv
      <4> QED
        BY <2>1, <2>2, <4>1 DEF CreateInv, OnDisk, Progress
    <3> QED
      BY <2>1, <2>2, <3>1, <3>2
  <2>3. CASE f[1] # c
    <3>1. pc'[f[1]] = pc[f[1]] /\ f \in files /\ f \notin rows /\ f \notin leaked
      BY <2>1, <2>3, FileFacts DEF IInv, TypeInv
    <3> QED
      BY <3>1 DEF IInv, NoOrphans, BeingDeleted
  <2> QED
    BY <2>2, <2>3
<1> QED
  BY <1>1, <1>2, <1>3 DEF IInv

\* The files that a clean-up leaves are those a disk error kept.
LEMMA CleanUpFacts ==
  ASSUME NEW fs, CleanUp(fs)
  PROVE  /\ files' \subseteq files /\ files \ files' \subseteq fs
         /\ leaked \subseteq leaked' /\ fs \cap files' \subseteq leaked'
         /\ leaked' \subseteq leaked \cup files
BY DEF CleanUp

LEMMA CreateTypes ==
  ASSUME IInv, NEW c \in Creates, Create(c)
  PROVE  TypeInv'
<1> USE DEF Goto, deleteVars, loadVars
<1>1. ASSUME NEW fs \in SUBSET AllFiles, CleanUp(fs)
      PROVE  files' \subseteq AllFiles /\ leaked' \subseteq AllFiles
  BY <1>1, CleanUpFacts DEF IInv, TypeInv
<1>2. CASE Invalid(c) \/ Start(c)
  BY <1>2 DEF Invalid, Start, IInv, TypeInv
<1>3. CASE SaveRejected(c) \/ InsertFails(c)
  <2>1. saved[c] \in SUBSET AllFiles
    BY DEF IInv, TypeInv
  <2>2. files' \subseteq AllFiles /\ leaked' \subseteq AllFiles
    BY <1>1, <1>3, <2>1 DEF SaveRejected, InsertFails
  <2> QED
    BY <1>3, <2>2 DEF SaveRejected, InsertFails, IInv, TypeInv
<1>4. ASSUME NEW f \in FilesOf(c), SaveFile(c, f) \/ SaveFails(c, f) PROVE TypeInv'
  <2>1. f \in AllFiles
    BY FileFacts
  <2> QED
    BY <1>4, <2>1 DEF SaveFile, SaveFails, IInv, TypeInv
<1>5. ASSUME NEW r \in RowsOf(c), InsertRow(c, r) PROVE TypeInv'
  <2>1. r \in AllRows
    BY RowFacts
  <2> QED
    BY <1>5, <2>1 DEF InsertRow, IInv, TypeInv
<1> QED
  BY <1>2, <1>3, <1>4, <1>5 DEF Create

LEMMA CreateStep ==
  ASSUME IInv, NEW c \in Creates, Create(c)
  PROVE  IInv'
<1>1. TypeInv'
  BY CreateTypes
<1>2. CreateInv(c) /\ pc \in [Creates -> {"new", "saving", "inserting", "created", "rejected", "failed", "dead"}]
  BY DEF IInv, TypeInv
<1> USE DEF Goto
<1>3. CASE Invalid(c)
  <2>1. pc'[c] = "rejected" /\ pc[c] = "new" /\ saved[c] = {}
    BY <1>2, <1>3 DEF Invalid, CreateInv, Progress
  <2>2. CreateInv(c)'
    BY <1>2, <1>3, <2>1
    DEF Invalid, deleteVars, CreateInv, Progress, Accounted, OnDisk
  <2>3. FilesOf(c) \cap files' = {}
    BY <1>2, <1>3, <2>1 DEF Invalid, CreateInv, OnDisk
  <2> QED
    BY <1>1, <1>3, <2>2, <2>3, CreateKeeps DEF Invalid
<1>4. CASE Start(c)
  <2> DEFINE x == IF FileCount[c] = 0 THEN "inserting" ELSE "saving"
  <2>1. pc'[c] = x /\ pc[c] = "new" /\ CountAllowed(c)
    BY <1>2, <1>4 DEF Start
  <2>2. FileCount[c] = 0 => FilesOf(c) = {}
    BY DEF FilesOf
  <2>3. CreateInv(c)'
    BY <1>2, <1>4, <2>1, <2>2 DEF Start, deleteVars, CreateInv, Progress, Accounted, OnDisk
  <2>4. x \notin {"created", "rejected", "failed"}
    OBVIOUS
  <2> QED
    BY <1>1, <1>4, <2>3, <2>4, CreateKeeps DEF Start
<1>5. ASSUME NEW f \in FilesOf(c), SaveFile(c, f) PROVE IInv'
  <2> DEFINE x == IF saved'[c] = FilesOf(c) THEN "inserting" ELSE "saving"
  <2>1. pc' = [pc EXCEPT ![c] = x] /\ pc'[c] = x /\ pc[c] = "saving"
    BY <1>2, <1>5 DEF SaveFile
  <2>2. saved'[c] = saved[c] \cup {f} /\ f \notin saved[c]
    BY <1>5 DEF SaveFile, IsNext, IInv, TypeInv
  <2>3. CreateInv(c)'
    BY <1>2, <1>5, <2>1, <2>2
    DEF SaveFile, deleteVars, CreateInv, Progress, Accounted, OnDisk
  <2>4. x \notin {"created", "rejected", "failed"}
    OBVIOUS
  <2>5. \A b \in Creates \ {c} : saved'[b] = saved[b] /\ inserted'[b] = inserted[b]
    BY <1>5 DEF SaveFile, IInv, TypeInv
  <2>6. files' \ files \subseteq FilesOf(c) \ saved[c] /\ files \ files' = {}
    BY <1>5, <2>2 DEF SaveFile
  <2>7. UNCHANGED deleteVars /\ rows' = rows /\ leaked' = leaked
    BY <1>5 DEF SaveFile
  <2> HIDE DEF x
  <2> QED
    BY <1>1, <2>1, <2>3, <2>4, <2>5, <2>6, <2>7, CreateKeeps
<1>6. ASSUME NEW f \in FilesOf(c), SaveFails(c, f) PROVE IInv'
  <2>1. pc'[c] = "failed" /\ pc[c] = "saving" /\ f \notin saved[c]
    BY <1>2, <1>6 DEF SaveFails, IsNext
  <2>2. CreateInv(c)'
    BY <1>2, <1>6, <2>1
    DEF SaveFails, deleteVars, CreateInv, Progress, Accounted, OnDisk
  <2>3. \A g \in FilesOf(c) \cap files' : g \in leaked'
    BY <1>2, <1>6, <2>1 DEF SaveFails, CreateInv, OnDisk
  <2> QED
    BY <1>1, <1>6, <2>1, <2>2, <2>3, CreateKeeps DEF SaveFails
<1>7. CASE SaveRejected(c) \/ InsertFails(c)
  <2>1. PICK x \in {"rejected", "failed"} : pc' = [pc EXCEPT ![c] = x]
    BY <1>7 DEF SaveRejected, InsertFails
  <2>2. pc'[c] = x /\ pc[c] \in {"saving", "inserting"}
    BY <1>2, <1>7, <2>1 DEF SaveRejected, InsertFails
  <2>3. CleanUp(saved[c]) /\ saved[c] \subseteq FilesOf(c)
    BY <1>2, <1>7 DEF SaveRejected, InsertFails, CreateInv, Progress
  <2>4. /\ files' \subseteq files /\ files \ files' \subseteq FilesOf(c)
        /\ leaked \subseteq leaked' /\ saved[c] \cap files' \subseteq leaked'
    BY <2>3, CleanUpFacts
  <2>5. /\ UNCHANGED deleteVars /\ rows' = rows
        /\ saved' = saved /\ inserted' = inserted
    BY <1>7 DEF SaveRejected, InsertFails
  <2>6. CreateInv(c)'
    BY <1>2, <2>1, <2>2, <2>5 DEF deleteVars, CreateInv, Progress, Accounted, OnDisk
  <2>7. FilesOf(c) \cap files' \subseteq leaked'
    BY <1>2, <2>2, <2>4 DEF CreateInv, OnDisk
  <2> QED
    BY <1>1, <2>1, <2>4, <2>5, <2>6, <2>7, CreateKeeps
<1>8. ASSUME NEW r \in RowsOf(c), InsertRow(c, r) PROVE IInv'
  <2> DEFINE x == IF inserted'[c] = ToInsert(c) THEN "created" ELSE "inserting"
  <2>1. pc' = [pc EXCEPT ![c] = x] /\ pc'[c] = x /\ pc[c] = "inserting"
    BY <1>2, <1>8 DEF InsertRow
  <2>2. saved[c] = FilesOf(c) /\ ToInsert(c) = RowsOf(c) /\ CountAllowed(c)
    BY <1>2, <2>1 DEF CreateInv, Progress, ToInsert, RowsOf
  <2>3. inserted'[c] = inserted[c] \cup {r} /\ r \notin inserted[c]
    BY <1>8 DEF InsertRow, IsNext, IInv, TypeInv
  <2>4. rows' = rows \cup {r} /\ files' = files /\ leaked' = leaked /\ saved' = saved
    BY <1>8 DEF InsertRow
  <2>5. UNCHANGED deleteVars
    BY <1>8 DEF InsertRow
  <2>6. \A b \in Creates \ {c} : saved'[b] = saved[b] /\ inserted'[b] = inserted[b]
    BY <1>8 DEF InsertRow, IInv, TypeInv
  <2>7. CreateInv(c)'
    BY <1>2, <2>1, <2>2, <2>3, <2>4, <2>5
    DEF deleteVars, CreateInv, Progress, Accounted, OnDisk
  <2>8. ASSUME x = "created", NEW f \in FilesOf(c) \cap files'
        PROVE  f \in rows' \cup leaked' \/ BeingDeleted(f)
    <3>1. f \in inserted'[c]
      BY <2>2, <2>8, AllowedFilesHaveRows
    <3>2. f \in rows' \/ f \in removed
      BY <1>2, <2>3, <2>4, <3>1 DEF CreateInv, Accounted
    <3> QED
      BY <2>4, <2>8, <3>2 DEF IInv, RemovedInv
  <2>9. x \notin {"rejected", "failed"}
    OBVIOUS
  <2> HIDE DEF x
  <2> QED
    BY <1>1, <2>1, <2>3, <2>4, <2>5, <2>6, <2>7, <2>8, <2>9, CreateKeeps
<1> QED
  BY <1>3, <1>4, <1>5, <1>6, <1>7, <1>8 DEF Create
-----------------------------------------------------------------------------
(* Steps of a delete and a download, and the death of the process.         *)

LEMMA DeleteRowStep ==
  ASSUME IInv, NEW d \in Deletes, DeleteRow(d)
  PROVE  IInv'
<1>1. TypeInv'
  BY DEF IInv, TypeInv, DeleteRow, createVars, loadVars
<1>2. /\ delPc' = [delPc EXCEPT ![d] = "removing"] /\ delPc[d] = "new" /\ deleting' = deleting
      /\ deleting[d] \in rows /\ rows' = rows \ {deleting[d]}
      /\ removed' = removed \cup {deleting[d]}
      /\ UNCHANGED <<leaked, files, pc, saved, inserted>>
  BY DEF DeleteRow, createVars
<1>3. delPc'[d] = "removing" /\ \A e \in Deletes : e # d => delPc'[e] = delPc[e]
  BY <1>2 DEF IInv, TypeInv
<1>4. ASSUME NEW c \in Creates PROVE CreateInv(c)'
  BY <1>2 DEF IInv, CreateInv, Progress, Accounted, OnDisk
<1>5. \A f : BeingDeleted(f) => BeingDeleted(f)'
  BY <1>2, <1>3 DEF BeingDeleted
<1>6. BeingDeleted(deleting[d])'
  BY <1>2, <1>3 DEF BeingDeleted
<1>7. RemovedInv'
  BY <1>2, <1>3, <1>5, <1>6 DEF IInv, RemovedInv
<1>8. NoOrphans'
  BY <1>2, <1>5, <1>6 DEF IInv, NoOrphans, BeingDeleted
<1> QED
  BY <1>1, <1>4, <1>7, <1>8 DEF IInv

LEMMA RemoveFileStep ==
  ASSUME IInv, NEW d \in Deletes, RemoveFile(d)
  PROVE  IInv'
<1>1. /\ delPc' = [delPc EXCEPT ![d] = "204"] /\ delPc[d] = "removing"
      /\ UNCHANGED <<deleting, removed, rows, pc, saved, inserted>>
  BY DEF RemoveFile, createVars
<1>2. deleting[d] \in removed
  BY <1>1 DEF IInv, RemovedInv
<1>3. /\ files' \subseteq files /\ files \ files' \subseteq {deleting[d]}
      /\ leaked \subseteq leaked' /\ {deleting[d]} \cap files' \subseteq leaked'
      /\ leaked' \subseteq leaked \cup files
  BY CleanUpFacts DEF RemoveFile
<1>4. TypeInv'
  BY <1>1, <1>3 DEF IInv, TypeInv, RemoveFile, loadVars
<1>5. ASSUME NEW c \in Creates PROVE CreateInv(c)'
  BY <1>1, <1>2, <1>3 DEF IInv, CreateInv, Progress, Accounted, OnDisk
<1>6. \A f : BeingDeleted(f) => BeingDeleted(f)' \/ f = deleting[d]
  BY <1>1 DEF BeingDeleted, IInv, TypeInv
<1>7. \A e \in Deletes : delPc'[e] = "removing" => delPc[e] = "removing"
  BY <1>1 DEF IInv, TypeInv
<1>8. RemovedInv'
  BY <1>1, <1>3, <1>6, <1>7 DEF IInv, RemovedInv
<1>9. NoOrphans'
  BY <1>1, <1>3, <1>6 DEF IInv, NoOrphans, BeingDeleted
<1> QED
  BY <1>4, <1>5, <1>8, <1>9 DEF IInv

\* A step that changes only the answers of deletes and downloads.
LEMMA AnswerStep ==
  ASSUME IInv, TypeInv', UNCHANGED <<rows, files, leaked, removed, createVars, deleting>>,
         \A d \in Deletes : delPc'[d] = delPc[d] \/ (delPc[d] = "new" /\ delPc'[d] = "404")
  PROVE  IInv'
<1>1. ASSUME NEW c \in Creates PROVE CreateInv(c)'
  BY DEF createVars, IInv, CreateInv, Progress, Accounted, OnDisk
<1>2. \A f : BeingDeleted(f)' <=> BeingDeleted(f)
  BY DEF BeingDeleted
<1>3. RemovedInv'
  BY <1>2 DEF IInv, RemovedInv
<1>4. NoOrphans'
  BY <1>2 DEF IInv, NoOrphans, BeingDeleted, createVars
<1> QED
  BY <1>1, <1>3, <1>4 DEF IInv

LEMMA CrashStep ==
  ASSUME IInv, Crash
  PROVE  IInv'
<1>1. /\ UNCHANGED <<rows, leaked, saved, inserted, deleting, removed>>
      /\ pc' = [c \in Creates |-> IF pc[c] \in {"saving", "inserting"} THEN "dead" ELSE pc[c]]
      /\ delPc' = [d \in Deletes |-> IF delPc[d] = "removing" THEN "dead" ELSE delPc[d]]
  BY DEF Crash
<1>2. PICK parts \in SUBSET UNION {Saving(c) : c \in Creates} : files' = files \cup parts
  BY DEF Crash
<1>3. ASSUME NEW f \in parts
      PROVE  f[1] \in Creates /\ f \in FilesOf(f[1]) \ saved[f[1]] /\ pc[f[1]] = "saving"
  <2>1. PICK c \in Creates : f \in Saving(c)
    BY <1>3
  <2> QED
    BY <2>1, FileFacts DEF Saving, IsNext
<1>4. parts \subseteq AllFiles
  BY <1>3, FileFacts
<1>5. TypeInv'
  BY <1>1, <1>2, <1>4 DEF IInv, TypeInv, Crash
<1>6. ASSUME NEW c \in Creates PROVE CreateInv(c)'
  <2>1. pc'[c] = IF pc[c] \in {"saving", "inserting"} THEN "dead" ELSE pc[c]
    BY <1>1
  <2>2. pc[c] = "new" => FilesOf(c) \cap parts = {}
    BY <1>3, FileFacts
  <2> QED
    BY <1>1, <1>2, <2>1, <2>2 DEF IInv, CreateInv, Progress, Accounted, OnDisk
<1>7. \A f : BeingDeleted(f) => BeingDeleted(f)'
  BY <1>1 DEF BeingDeleted
<1>8. \A f \in parts : f \notin removed
  BY <1>3, UnsavedIsNew
<1>9. RemovedInv'
  BY <1>1, <1>2, <1>7, <1>8 DEF IInv, RemovedInv
<1>10. NoOrphans'
  <2> SUFFICES ASSUME NEW f \in files', f \notin rows \cup leaked
               PROVE  pc'[f[1]] \in {"saving", "inserting", "dead"} \/ BeingDeleted(f)'
    BY <1>1 DEF NoOrphans, BeingDeleted
  <2>1. f[1] \in Creates
    BY <1>5, AllFilesFacts DEF TypeInv
  <2>2. CASE f \in parts
    BY <1>1, <1>3, <2>1, <2>2
  <2>3. CASE f \in files
    BY <1>1, <1>7, <2>1, <2>3 DEF IInv, NoOrphans, BeingDeleted
  <2> QED
    BY <1>2, <2>2, <2>3
<1> QED
  BY <1>5, <1>6, <1>9, <1>10 DEF IInv

LEMMA StepKeeps == IInv /\ [Next]_vars => IInv'
<1> SUFFICES ASSUME IInv, [Next]_vars PROVE IInv'
  OBVIOUS
<1>1. ASSUME NEW d \in Deletes, DeleteNothing(d) PROVE IInv'
  <2>1. TypeInv'
    BY <1>1 DEF DeleteNothing, IInv, TypeInv, createVars, loadVars
  <2>2. \A e \in Deletes : delPc'[e] = delPc[e] \/ (delPc[e] = "new" /\ delPc'[e] = "404")
    BY <1>1 DEF DeleteNothing, IInv, TypeInv
  <2> QED
    BY <1>1, <2>1, <2>2, AnswerStep DEF DeleteNothing
<1>2. ASSUME NEW w \in Downloads, Download(w) PROVE IInv'
  <2>1. UNCHANGED <<rows, files, leaked, createVars, deleteVars, loading>>
    BY <1>2 DEF Download, FindRow, CheckFile, SendFile
  <2>2. loadPc' \in [Downloads -> {"new", "found", "sending", "200", "404", "500", "dead"}]
    BY <1>2 DEF Download, FindRow, CheckFile, SendFile, IInv, TypeInv
  <2>3. TypeInv'
    BY <2>1, <2>2 DEF IInv, TypeInv, createVars, deleteVars
  <2> QED
    BY <2>1, <2>3, AnswerStep DEF deleteVars
<1>3. CASE UNCHANGED vars
  <2>1. TypeInv'
    BY <1>3 DEF vars, createVars, deleteVars, loadVars, IInv, TypeInv
  <2> QED
    BY <1>3, <2>1, AnswerStep DEF vars, deleteVars
<1> QED
  BY <1>1, <1>2, <1>3, CreateStep, DeleteRowStep, RemoveFileStep, CrashStep DEF Next, Delete

LEMMA Invariant == Spec => []IInv
<1>1. IInv /\ [Next]_vars => IInv'
  BY StepKeeps
<1> QED
  BY InitIInv, <1>1, PTL DEF Spec

\* Every variable keeps its type, and no row is inserted before every file of its
\* request is saved.
THEOREM TypeCorrect == Spec => []TypeOK
BY Invariant, InvTypes, PTL

\* A file without a row belongs to a request that is still at work on it, or has
\* died, or is one a disk error kept: for any requests, failing inserts included.
THEOREM NoOrphanFiles == Spec => []NoOrphans
<1>1. IInv => NoOrphans
  BY DEF IInv
<1> QED
  BY Invariant, <1>1, PTL
-----------------------------------------------------------------------------
(* What an INSERT that fails can do.                                       *)

DamageInv ==
  /\ IInv
  /\ \A c \in Creates : pc[c] = "rejected" => inserted[c] = {}
  /\ \A r \in rows : HasFile(r) => r \in files \/ pc[r[1]] = "failed"

\* Only these steps take files away; what a rejected request and a deletion take has
\* no row.
LEMMA FileIsTakenByFailure ==
  ASSUME DamageInv, [Next]_vars, NEW r \in rows \cap files, r \notin files', r \in rows'
  PROVE  pc'[r[1]] = "failed"
<1>1. ASSUME NEW c \in Creates, SaveRejected(c) PROVE FALSE
  <2>1. inserted[c] = {} /\ saved[c] \subseteq FilesOf(c) /\ r \in saved[c]
    BY <1>1, CleanUpFacts DEF SaveRejected, DamageInv, IInv, CreateInv, Progress
  <2>2. r[1] = c
    BY <2>1, FileFacts
  <2>3. r \in RowsOf(c)
    BY <2>2, AllRowsFacts DEF DamageInv, IInv, TypeInv
  <2> QED
    BY <1>1, <2>1, <2>3 DEF DamageInv, IInv, CreateInv, Accounted
<1>2. ASSUME NEW c \in Creates, InsertFails(c) PROVE pc'[r[1]] = "failed"
  <2>1. saved[c] \subseteq FilesOf(c) /\ r \in saved[c]
    BY <1>2, CleanUpFacts DEF InsertFails, DamageInv, IInv, CreateInv, Progress
  <2>2. r[1] = c
    BY <2>1, FileFacts
  <2> QED
    BY <1>2, <2>2 DEF InsertFails, Goto, DamageInv, IInv, TypeInv
<1>3. ASSUME NEW d \in Deletes, RemoveFile(d) PROVE FALSE
  <2>1. r = deleting[d]
    BY <1>3, CleanUpFacts DEF RemoveFile
  <2> QED
    BY <1>3, <2>1 DEF RemoveFile, DamageInv, IInv, RemovedInv
<1> QED
  BY <1>1, <1>2, <1>3
  DEF Next, vars, Create, Delete, Download, Invalid, Start, SaveFile, SaveFails, InsertRow,
      DeleteRow, DeleteNothing, FindRow, CheckFile, SendFile, Crash

LEMMA FailedStaysFailed ==
  ASSUME IInv, [Next]_vars, NEW c \in Creates, pc[c] = "failed"
  PROVE  pc'[c] = "failed"
<1>1. ASSUME NEW b \in Creates, Create(b) PROVE pc'[c] = "failed"
  BY <1>1
  DEF Create, Invalid, Start, SaveRejected, InsertFails, SaveFile, SaveFails, InsertRow,
      Goto, IInv, TypeInv
<1>2. CASE Crash
  BY <1>2 DEF Crash
<1>3. CASE UNCHANGED createVars
  BY <1>3 DEF createVars
<1> QED
  BY <1>1, <1>2, <1>3
  DEF Next, vars, Delete, DeleteRow, DeleteNothing, RemoveFile, Download, FindRow, CheckFile,
      SendFile

\* A request is rejected before it has inserted a row.
LEMMA RejectedInsertsNothing ==
  ASSUME DamageInv, [Next]_vars, NEW c \in Creates, pc'[c] = "rejected"
  PROVE  inserted'[c] = {}
<1>1. CASE pc'[c] = pc[c] /\ inserted'[c] = inserted[c]
  BY <1>1 DEF DamageInv
<1>2. ASSUME NEW b \in Creates, Create(b), b # c PROVE pc'[c] = pc[c] /\ inserted'[c] = inserted[c]
  BY <1>2
  DEF Create, Invalid, Start, SaveRejected, InsertFails, SaveFile, SaveFails, InsertRow,
      Goto, DamageInv, IInv, TypeInv
<1>3. CASE Create(c)
  <2>1. pc[c] \in {"new", "saving"} => inserted[c] = {}
    BY DEF DamageInv, IInv, CreateInv, Progress
  <2> QED
    BY <1>3, <2>1
    DEF Create, Invalid, Start, SaveRejected, InsertFails, SaveFile, SaveFails, InsertRow,
        Goto, DamageInv, IInv, TypeInv
<1>4. CASE Crash
  BY <1>4 DEF Crash, DamageInv, IInv, TypeInv
<1>5. CASE UNCHANGED createVars
  BY <1>1, <1>5 DEF createVars
<1> QED
  BY <1>1, <1>2, <1>3, <1>4, <1>5
  DEF Next, vars, Delete, DeleteRow, DeleteNothing, RemoveFile, Download, FindRow, CheckFile,
      SendFile

\* A row that is inserted has its file on disk.
LEMMA InsertedHasFile ==
  ASSUME IInv, NEW c \in Creates, NEW r \in RowsOf(c), InsertRow(c, r), HasFile(r)
  PROVE  r \in files'
<1>1. pc[c] = "inserting" /\ r \notin inserted[c] /\ files' = files
  BY DEF InsertRow, IsNext
<1>2. saved[c] = FilesOf(c) /\ saved[c] \subseteq files \cup removed
  BY <1>1 DEF IInv, CreateInv, Progress, OnDisk
<1>3. r \in FilesOf(c) /\ r[1] = c
  BY RowFacts
<1> QED
  BY <1>1, <1>2, <1>3, RemovedIsInserted

LEMMA DamageStep ==
  ASSUME DamageInv, [Next]_vars
  PROVE  DamageInv'
<1>1. IInv'
  BY StepKeeps DEF DamageInv
<1>2. ASSUME NEW r \in rows', HasFile(r) PROVE r \in files' \/ pc'[r[1]] = "failed"
  <2>1. CASE r \in rows
    <3>1. r[1] \in Creates
      BY <2>1, AllRowsFacts DEF DamageInv, IInv, TypeInv
    <3> QED
      BY <1>2, <2>1, <3>1, FileIsTakenByFailure, FailedStaysFailed DEF DamageInv
  <2>2. CASE r \notin rows
    <3>1. PICK c \in Creates : \E s \in RowsOf(c) : InsertRow(c, s)
      BY <1>2, <2>2
      DEF Next, vars, Create, Delete, Download, Invalid, Start, SaveRejected, InsertFails,
          SaveFile, SaveFails, DeleteRow, DeleteNothing, RemoveFile, FindRow, CheckFile,
          SendFile, Crash
    <3>2. r \in RowsOf(c) /\ InsertRow(c, r)
      BY <1>2, <2>2, <3>1 DEF InsertRow
    <3> QED
      BY <1>2, <3>2, InsertedHasFile DEF DamageInv
  <2> QED
    BY <2>1, <2>2
<1> QED
  BY <1>1, <1>2, RejectedInsertsNothing DEF DamageInv, HasFile

LEMMA DamageInvariant == Spec => []DamageInv
<1>1. Init => DamageInv
  BY InitIInv DEF Init, DamageInv
<1>2. DamageInv /\ [Next]_vars => DamageInv'
  BY DamageStep
<1> QED
  BY <1>1, <1>2, PTL DEF Spec

\* Whichever INSERTs fail, what a failure leaves behind is of a request that was
\* answered 500: no 201 lacks a row, no 400 has one, and no row of theirs lacks its file.
THEOREM DamageIsReported == Spec => []OnlyFailuresDamage
<1>1. DamageInv => OnlyFailuresDamage
  BY DEF DamageInv, IInv, CreateInv, Progress, Accounted, OnlyFailuresDamage
<1> QED
  BY DamageInvariant, <1>1, PTL
-----------------------------------------------------------------------------
(* The catalog's promise.                                                  *)

RowTaken(d) == delPc[d] \in {"removing", "204", "dead"}

\* A row is taken by one deletion; a download that found its row looks for a file of
\* a row that is or was in the catalog.
RequestsInv ==
  /\ \A d \in Deletes : RowTaken(d) => deleting[d] \in removed
  /\ \A d, e \in Deletes : RowTaken(d) /\ RowTaken(e) /\ deleting[d] = deleting[e] => d = e
  /\ \A w \in Downloads : loadPc[w] \in {"found", "sending"} =>
       HasFile(loading[w]) /\ loading[w] \in rows \cup removed

LEMMA RequestsStep ==
  ASSUME IInv, RequestsInv, [Next]_vars
  PROVE  RequestsInv'
<1> USE DEF RequestsInv, RowTaken
<1>1. CASE /\ UNCHANGED <<delPc, deleting, loadPc, loading>>
           /\ rows \subseteq rows' /\ removed' = removed
  BY <1>1
<1>2. ASSUME NEW d \in Deletes, DeleteRow(d) PROVE RequestsInv'
  <2>1. /\ deleting' = deleting /\ loadPc' = loadPc /\ loading' = loading
        /\ deleting[d] \in rows /\ rows \cap removed = {}
        /\ rows \cup removed = rows' \cup removed'
        /\ removed' = removed \cup {deleting[d]}
    BY <1>2 DEF DeleteRow, loadVars, IInv, RemovedInv
  <2>2. \A e \in Deletes : e # d => delPc'[e] = delPc[e]
    BY <1>2 DEF DeleteRow
  <2>3. \A e \in Deletes : e # d /\ RowTaken(e) => deleting[e] # deleting[d]
    BY <2>1
  <2> QED
    BY <2>1, <2>2, <2>3
<1>3. ASSUME NEW d \in Deletes, DeleteNothing(d) PROVE RequestsInv'
  <2>1. \A e \in Deletes : delPc'[e] = IF e = d THEN "404" ELSE delPc[e]
    BY <1>3 DEF DeleteNothing, IInv, TypeInv
  <2> QED
    BY <1>3, <2>1 DEF DeleteNothing, loadVars
<1>4. ASSUME NEW d \in Deletes, RemoveFile(d) PROVE RequestsInv'
  <2>1. /\ delPc[d] = "removing"
        /\ \A e \in Deletes : delPc'[e] = IF e = d THEN "204" ELSE delPc[e]
    BY <1>4 DEF RemoveFile, IInv, TypeInv
  <2> QED
    BY <1>4, <2>1 DEF RemoveFile, loadVars
<1>5. ASSUME NEW w \in Downloads, Download(w) PROVE RequestsInv'
  <2>1. UNCHANGED <<rows, removed, deleting, delPc, loading>>
    BY <1>5 DEF Download, FindRow, CheckFile, SendFile, deleteVars
  <2>2. \A v \in Downloads \ {w} : loadPc'[v] = loadPc[v]
    BY <1>5 DEF Download, FindRow, CheckFile, SendFile, IInv, TypeInv
  <2>3. loadPc'[w] \in {"found", "sending"} =>
          \/ loadPc[w] = "found"
          \/ loading[w] \in rows /\ HasFile(loading[w])
    BY <1>5 DEF Download, FindRow, CheckFile, SendFile, IInv, TypeInv
  <2> QED
    BY <2>1, <2>2, <2>3
<1>6. CASE Crash
  <2>1. /\ \A d \in Deletes : delPc'[d] = IF delPc[d] = "removing" THEN "dead" ELSE delPc[d]
        /\ \A w \in Downloads : loadPc'[w] \in {"found", "sending"} => loadPc'[w] = loadPc[w]
    BY <1>6 DEF Crash
  <2> QED
    BY <1>6, <2>1 DEF Crash
<1>7. ASSUME NEW c \in Creates, Create(c) PROVE RequestsInv'
  BY <1>1, <1>7
  DEF Create, Invalid, Start, SaveRejected, InsertFails, SaveFile, SaveFails, InsertRow,
      deleteVars, loadVars
<1> QED
  BY <1>1, <1>2, <1>3, <1>4, <1>5, <1>6, <1>7 DEF Next, vars, Delete, deleteVars, loadVars

\* The rows that are Broken to the catalog's users are those of failed requests.
LEMMA FailedIsBroken ==
  ASSUME NEW r \in AllRows, pc[r[1]] = "failed"
  PROVE  r \in C!Broken
<1>1. r[1] \in Creates /\ r \in RowsFrom[r[1]]
  BY AllRowsFacts DEF RowsFrom
<1>2. Created(pc[r[1]]) = "500"
  BY DEF Created
<1> QED
  BY <1>1, <1>2 DEF C!Broken

LEMMA FilesAreKept ==
  ASSUME DamageInv'
  PROVE  C!FilesKept
<1> SUFFICES ASSUME NEW r \in C!Promised' PROVE r \in files'
  BY DEF C!FilesKept
<1>1. r \in rows' /\ HasFile(r) /\ r \in AllRows /\ r \notin C!Broken'
  BY DEF C!Promised, WithFile
<1>2. r[1] \in Creates /\ r \in RowsFrom[r[1]]
  BY <1>1, AllRowsFacts DEF RowsFrom
<1>3. CASE pc'[r[1]] = "failed"
  <2>1. Created(pc'[r[1]]) = "500"
    BY <1>3 DEF Created
  <2> QED
    BY <1>1, <1>2, <2>1 DEF C!Broken
<1> QED
  BY <1>1, <1>3 DEF DamageInv

\* A step that gives no answer and changes neither rows nor what was deleted.
LEMMA QuietStep ==
  ASSUME DamageInv', UNCHANGED <<rows, removed, deleting, loading>>,
         \A c \in Creates : Created(pc'[c]) = Created(pc[c]),
         \A d \in Deletes : Answered(delPc'[d]) = Answered(delPc[d]),
         \A w \in Downloads : Answered(loadPc'[w]) = Answered(loadPc[w])
  PROVE  C!FilesChange
BY FilesAreKept DEF C!FilesChange, C!askedVars

\* Each step of a create lists rows of its own, or answers, or neither.
LEMMA CreateSimulates ==
  ASSUME DamageInv, DamageInv', NEW c \in Creates, Create(c)
  PROVE  C!Upload(c)
<1>1. /\ pc[c] \in {"new", "saving", "inserting"}
      /\ UNCHANGED <<delPc, deleting, removed, loading, loadPc>>
  BY DEF Create, Invalid, Start, SaveRejected, InsertFails, SaveFile, SaveFails, InsertRow,
         deleteVars, loadVars
<1>2. \A b \in Creates \ {c} : pc'[b] = pc[b]
  BY DEF Create, Invalid, Start, SaveRejected, InsertFails, SaveFile, SaveFails, InsertRow,
         Goto, DamageInv, IInv, TypeInv
<1>3. rows' = rows \/ \E r \in RowsOf(c) \ inserted[c] : rows' = rows \cup {r}
  BY DEF Create, Invalid, Start, SaveRejected, InsertFails, SaveFile, SaveFails, InsertRow,
         IsNext, ToInsert
<1>4. rows \subseteq rows' /\ rows' \ rows \subseteq RowsFrom[c] \ removed
  BY <1>3 DEF RowsFrom, DamageInv, IInv, CreateInv, Accounted
<1>5. pc'[c] = "created" => RowsFrom[c] \subseteq rows' \cup removed'
  BY DEF RowsFrom, DamageInv, IInv, CreateInv, Progress, Accounted
<1>6. pc'[c] = "rejected" => RowsFrom[c] \cap (rows' \cup removed') = {}
  BY DEF RowsFrom, DamageInv, IInv, CreateInv, Accounted
<1> DEFINE before == [b \in Creates |-> Created(pc[b])]
           after  == [b \in Creates |-> Created(pc'[b])]
<1>7. before[c] = "none"
  BY <1>1 DEF Created
<1>8. after[c] \in {"none", "201", "400", "500"} /\ after = [before EXCEPT ![c] = after[c]]
  BY <1>2 DEF Created
<1>9. /\ after[c] = "201" => pc'[c] = "created"
      /\ after[c] = "400" => pc'[c] = "rejected"
  BY DEF Created
<1>10. C!FilesKept
  BY FilesAreKept DEF DamageInv
<1>11. UNCHANGED <<removed, [d \in Deletes |-> Answered(delPc[d])],
                   [w \in Downloads |-> Answered(loadPc[w])], deleting, loading>>
  BY <1>1
<1> HIDE DEF before, after
<1>12. /\ before[c] = "none"
       /\ \E answer \in {"none", "201", "400", "500"} : after = [before EXCEPT ![c] = answer]
       /\ after[c] = "201" => RowsFrom[c] \subseteq rows' \cup removed
       /\ after[c] = "400" => RowsFrom[c] \cap (rows' \cup removed) = {}
  BY <1>1, <1>5, <1>6, <1>7, <1>8, <1>9
<1> QED
  BY <1>4, <1>10, <1>11, <1>12 DEF C!Upload, C!askedVars, before, after

LEMMA DeleteSimulates ==
  ASSUME DamageInv, DamageInv', RequestsInv, NEW d \in Deletes, Delete(d)
  PROVE  C!Unlist(d) \/ C!AnswerDelete(d)
<1>1. C!FilesKept
  BY FilesAreKept DEF DamageInv
<1>2. UNCHANGED <<pc, loadPc, deleting, loading>>
  BY DEF Delete, DeleteRow, DeleteNothing, RemoveFile, createVars, loadVars
<1> DEFINE before == [e \in Deletes |-> Answered(delPc[e])]
           after  == [e \in Deletes |-> Answered(delPc'[e])]
<1>3. before[d] = "none"
  BY DEF Delete, DeleteRow, DeleteNothing, RemoveFile, Answered
<1>4. \A e \in Deletes \ {d} : delPc'[e] = delPc[e]
  BY DEF Delete, DeleteRow, DeleteNothing, RemoveFile, DamageInv, IInv, TypeInv
<1>5. after = [before EXCEPT ![d] = Answered(delPc'[d])]
  BY <1>4
<1>6. CASE DeleteRow(d)
  <2>1. delPc'[d] = "removing"
    BY <1>6 DEF DeleteRow, DamageInv, IInv, TypeInv
  <2>2. after = before
    BY <1>3, <1>5, <2>1 DEF Answered
  <2> HIDE DEF before, after
  <2>3. C!Unlist(d)
    BY <1>1, <1>2, <1>3, <1>6, <2>2 DEF DeleteRow, C!Unlist, C!askedVars, before, after
  <2> QED
    BY <2>3
<1>7. CASE DeleteNothing(d)
  <2>1. delPc'[d] = "404"
    BY <1>7 DEF DeleteNothing, DamageInv, IInv, TypeInv
  <2>2. after = [before EXCEPT ![d] = "404"]
    BY <1>5, <2>1 DEF Answered
  <2>3. deleting[d] \notin rows /\ UNCHANGED <<rows, removed>>
    BY <1>7 DEF DeleteNothing
  <2> HIDE DEF before, after
  <2>4. C!AnswerDelete(d)
    BY <1>1, <1>2, <1>3, <2>2, <2>3 DEF C!AnswerDelete, C!askedVars, before, after
  <2> QED
    BY <2>4
<1>8. CASE RemoveFile(d)
  <2>1. delPc[d] = "removing" /\ delPc'[d] = "204" /\ UNCHANGED <<rows, removed>>
    BY <1>8 DEF RemoveFile, DamageInv, IInv, TypeInv
  <2>2. after = [before EXCEPT ![d] = "204"]
    BY <1>5, <2>1 DEF Answered
  <2>3. deleting[d] \in removed
    BY <2>1 DEF RequestsInv, RowTaken
  <2>4. \A e \in Deletes : deleting[e] = deleting[d] => before[e] # "204"
    BY <2>1 DEF RequestsInv, RowTaken, Answered
  <2> HIDE DEF before, after
  <2>5. C!AnswerDelete(d)
    BY <1>1, <1>2, <1>3, <2>1, <2>2, <2>3, <2>4 DEF C!AnswerDelete, C!askedVars, before, after
  <2> QED
    BY <2>5
<1> QED
  BY <1>6, <1>7, <1>8 DEF Delete

LEMMA DownloadSimulates ==
  ASSUME DamageInv, RequestsInv, NEW w \in Downloads, Download(w)
  PROVE  C!AnswerDownload(w) \/ UNCHANGED C!cvars
<1>1. UNCHANGED <<rows, removed, files, pc, delPc, deleting, loading>>
  BY DEF Download, FindRow, CheckFile, SendFile, createVars, deleteVars
<1> DEFINE before == [v \in Downloads |-> Answered(loadPc[v])]
           after  == [v \in Downloads |-> Answered(loadPc'[v])]
<1>2. before[w] = "none"
  BY DEF Download, FindRow, CheckFile, SendFile, Answered
<1>3. after = [before EXCEPT ![w] = Answered(loadPc'[w])]
  BY DEF Download, FindRow, CheckFile, SendFile, DamageInv, IInv, TypeInv
<1>4. loading[w] \in AllRows
  BY DEF DamageInv, IInv, TypeInv
<1>5. loading[w] \in rows /\ HasFile(loading[w]) => loading[w] \in files \cup C!Broken
  BY <1>4, FailedIsBroken DEF DamageInv
<1>6. \/ loadPc'[w] \in {"found", "sending"}
      \/ loadPc'[w] = "200" /\ loading[w] \in (rows \cup removed) \cap files
      \/ loadPc'[w] = "404" /\ loading[w] \notin C!Promised
      \/ loadPc'[w] = "500" /\ loading[w] \in (removed \cup C!Broken) \cap WithFile
  <2>1. CASE FindRow(w)
    BY <2>1 DEF FindRow, C!Promised, WithFile, DamageInv, IInv, TypeInv
  <2>2. CASE CheckFile(w)
    BY <1>5, <2>2 DEF CheckFile, C!Promised, WithFile, DamageInv, IInv, TypeInv
  <2>3. CASE SendFile(w)
    <3>1. HasFile(loading[w]) /\ loading[w] \in rows \cup removed
      BY <2>3 DEF SendFile, RequestsInv
    <3> QED
      BY <1>4, <1>5, <2>3, <3>1 DEF SendFile, WithFile, DamageInv, IInv, TypeInv
  <2> QED
    BY <2>1, <2>2, <2>3 DEF Download
<1>7. CASE loadPc'[w] \in {"found", "sending"}
  <2>1. after = before
    BY <1>2, <1>3, <1>7 DEF Answered
  <2> QED
    BY <1>1, <2>1 DEF C!cvars, C!askedVars
<1>8. CASE loadPc'[w] \notin {"found", "sending"}
  <2>1. Answered(loadPc'[w]) = loadPc'[w]
    BY <1>6, <1>8 DEF Answered
  <2>2. after = [before EXCEPT ![w] = loadPc'[w]]
    BY <1>3, <2>1
  <2> HIDE DEF before, after
  <2>3. C!AnswerDownload(w)
    BY <1>1, <1>2, <1>6, <1>8, <2>2 DEF C!AnswerDownload, C!askedVars, before, after
  <2> QED
    BY <2>3
<1> QED
  BY <1>7, <1>8

LEMMA CrashSimulates ==
  ASSUME DamageInv', Crash
  PROVE  C!FilesChange
<1>1. \A c \in Creates : Created(pc'[c]) = Created(pc[c])
  BY DEF Crash, Created
<1>2. \A d \in Deletes : Answered(delPc'[d]) = Answered(delPc[d])
  BY DEF Crash, Answered
<1>3. \A w \in Downloads : Answered(loadPc'[w]) = Answered(loadPc[w])
  BY DEF Crash, Answered
<1> QED
  BY <1>1, <1>2, <1>3, QuietStep DEF Crash, DamageInv

\* Table, files and requests implement Catalog: what is listed can be downloaded
\* until a user deletes it, every answer is true when it is given, and a crash only
\* leaves requests without one.  Whichever INSERTs fail, only rows of an upload that
\* was answered 500 may lack their file.
THEOREM ImplementsCatalog == Spec => CatalogSpec
<1>1. Init => C!CInit /\ RequestsInv
  BY DEF Init, C!CInit, Created, Answered, RequestsInv, RowTaken
<1>2. DamageInv /\ RequestsInv /\ [Next]_vars => RequestsInv'
  BY RequestsStep DEF DamageInv
<1>3. DamageInv /\ DamageInv' /\ RequestsInv /\ [Next]_vars => [C!CNext]_C!cvars
  <2> SUFFICES ASSUME DamageInv, DamageInv', RequestsInv, [Next]_vars
               PROVE  C!CNext \/ UNCHANGED C!cvars
    OBVIOUS
  <2>1. CASE UNCHANGED vars
    BY <2>1 DEF vars, createVars, deleteVars, loadVars, C!cvars, C!askedVars
  <2> QED
    BY <2>1, CreateSimulates, DeleteSimulates, DownloadSimulates, CrashSimulates
    DEF Next, C!CNext
<1> QED
  BY <1>1, <1>2, <1>3, DamageInvariant, PTL DEF Spec, CatalogSpec, C!CSpec
=============================================================================
