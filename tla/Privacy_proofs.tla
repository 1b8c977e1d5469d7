---------------------------- MODULE Privacy_proofs ----------------------------
(***************************************************************************)
(* What Privacy promises of household deletions and of documents, proved   *)
(* for any number of clients, workers, documents, exports and deletion     *)
(* requests, and for any number of deliveries.                             *)
(*                                                                         *)
(* The invariant has six parts.  Typed is about rows and processes,        *)
(* Requested about deletion requests, Kept about documents while the       *)
(* household exists, Backed about those a client can still read, Promised  *)
(* about those there when the deletion was confirmed, and Artifacts about  *)
(* the files of completed exports.                                         *)
(***************************************************************************)
EXTENDS Privacy, TLAPS

Ids == Docs \cup Exports \cup Deletions
Selections ==
    [row : Ids, key : Keys,
     status : {"completed", "pending", "deleted", "failed", "expired", "delete_pending"}]

(* A process does what its part of the code does, to a row of its kind. *)
TaskTyped(p) ==
    /\ task[p] \in Tasks
    /\ task[p].does \in {"upload", "delete"} => p \in Clients /\ task[p].of \in Docs
    /\ task[p].does = "export" => task[p].of \in Exports
    /\ At(p, "export", "stored") => task[p].keys # {} /\ task[p].keys \subseteq Nat
    /\ task[p].does = "purge" => task[p].of \in Deletions

(* The cleanup works on rows of the table it selected from. *)
SweepTyped ==
    /\ sweep \in [phase : 0..5, rows : SUBSET Selections, hand : SUBSET Selections]
    /\ \A r \in sweep.rows \cup sweep.hand :
          /\ r.row \in Docs => r.key = r.row
          /\ r.row \notin Docs => r.key \in Nat
          /\ r.row \in Deletions => sweep.phase = 2
          /\ r.row \in Docs => sweep.phase \in {3, 5}
          /\ r.row \in Exports => sweep.phase \in {1, 4}

(* The variables but those of processes and the cleanup. *)
RowsTyped ==
    /\ alive \in BOOLEAN
    /\ consent \in [Purposes -> {"none", "granted", "withdrawn"}]
    /\ recorded \subseteq ConsentRequests
    /\ doc \in [Docs -> DocRows]
    /\ export \in [Exports -> ExportRows]
    /\ deletion \in [Deletions -> DeletionRows]
    /\ objects \subseteq Keys
    /\ uploads \in Nat
    /\ promised \subseteq Docs

Typed ==
    /\ RowsTyped
    /\ task \in [Processes -> Tasks]
    /\ \A p \in Processes : TaskTyped(p)
    /\ SweepTyped

(* There is one request at most, apart from those that lapsed, only a      *)
(* confirmed one is carried out, and the cleanup deletes requests that can *)
(* no longer be confirmed.                                                 *)
Current(h) == Unresolved(h) \/ Confirmed(h)
Requested ==
    /\ \A h, g \in Deletions : Current(h) /\ Current(g) => h = g
    /\ \A h \in Deletions : deletion[h].status = "completed" => ~alive
    /\ ~alive => Doomed
    /\ \A p \in Processes : task[p].does = "purge" => Confirmed(task[p].of)
    /\ \A r \in sweep.rows :
          r.row \in Deletions =>
             /\ deletion[r.row].status \in {"pending", "removed"}
             /\ deletion[r.row].status = "pending" => deletion[r.row].age = 2

(* A document nobody uploads any more, and one nobody lists any more. *)
Settled(d) == doc[d].status \notin {"absent", "pending"}
Withdrawn(d) == doc[d].status \in {"failed", "delete_pending", "deleted", "removed"}

(* One upload at a time writes a document, and what is reported gone has   *)
(* no object and gets none.                                                *)
Kept ==
    alive =>
      /\ \A d \in Docs : doc[d].status \in {"absent", "deleted", "removed"} => d \notin objects
      /\ \A p, q \in Clients :
            task[p].does = "upload" /\ task[q].does = "upload" /\ task[p].of = task[q].of => p = q
      /\ \A p \in Clients : task[p].does = "upload" =>
            doc[task[p].of].status = IF task[p].at = "insert" THEN "absent" ELSE "pending"
      /\ \A p \in Clients : task[p].does = "delete" =>
            /\ Settled(task[p].of)
            /\ task[p].at = "stored" => task[p].of \notin objects
      /\ \A r \in sweep.rows \cup sweep.hand : r.row \in Docs =>
            /\ Settled(r.row)
            /\ sweep.phase = 3 \/ r \in sweep.hand => r.row \notin objects

(* An object is deleted only after its document is no longer listed. *)
Backed ==
    ~Doomed =>
      /\ \A d \in Docs : Listed(d) => d \in objects
      /\ \A p \in Clients : At(p, "upload", "stored") => task[p].of \in objects
      /\ \A p \in Clients : task[p].does = "delete" /\ task[p].at # "claim" => Withdrawn(task[p].of)
      /\ \A r \in sweep.rows \cup sweep.hand : r.row \in Docs => Withdrawn(r.row)

(* Nobody uploads a promised document, and a worker on its way to delete   *)
(* the rows has what is left of their objects in hand.                     *)
Promised ==
    /\ \A d \in promised : Settled(d)
    /\ \A p \in Clients : task[p].does = "upload" => task[p].of \notin promised
    /\ \A p \in Processes :
          task[p].does = "purge" /\ task[p].at \in {"list_exports", "remove"}
             => promised \cap objects \subseteq task[p].keys
    /\ DeletionTakesTheDocuments

Custody == Typed /\ Requested /\ Kept /\ Backed /\ Promised

-----------------------------------------------------------------------------
(* Types *)

LEMMA PhaseNames ==
    ASSUME SweepTyped
    PROVE  /\ Phase = "artifacts" <=> sweep.phase = 1
           /\ Phase = "requests" <=> sweep.phase = 2
           /\ Phase = "tombstones" <=> sweep.phase = 3
           /\ Phase = "exports" <=> sweep.phase = 4
           /\ Phase = "orphans" <=> sweep.phase = 5
<1>1. sweep.phase \in 0..5
  BY DEF SweepTyped
<1>2. /\ SweepPhases[1] = "artifacts" /\ SweepPhases[2] = "requests" /\ SweepPhases[3] = "tombstones"
      /\ SweepPhases[4] = "exports" /\ SweepPhases[5] = "orphans"
  BY DEF SweepPhases
<1> QED
  BY <1>1, <1>2 DEF Phase

LEMMA InitTyped == Init => Typed
<1> SUFFICES ASSUME Init PROVE Typed
  OBVIOUS
<1> USE DEF Init
<1>1. Idle \in Tasks
  BY DEF Idle, Tasks
<1>2. task \in [Processes -> Tasks] /\ \A p \in Processes : TaskTyped(p)
  BY <1>1 DEF Idle, TaskTyped, At
<1>3. SweepTyped
  BY DEF SweepTyped, NoSweep
<1>4. \A r \in Earlier : r.action \in {"granted", "withdrawn"}
  BY EarlierAreRequests, ConsentRequestsAreTyped
<1>5. consent \in [Purposes -> {"none", "granted", "withdrawn"}]
  BY <1>4
<1>6. doc \in [Docs -> DocRows]
  BY DEF DocRows
<1>7. export \in [Exports -> ExportRows] /\ deletion \in [Deletions -> DeletionRows]
  BY DEF ExportRows, DeletionRows
<1> QED
  BY <1>2, <1>3, <1>5, <1>6, <1>7, EarlierAreRequests DEF Typed, RowsTyped

(* A process takes one typed step. *)
LEMMA TaskSteps ==
    ASSUME Typed, NEW p \in Processes, NEW t \in Tasks, Do(p, t),
           t.does \in {"upload", "delete"} => p \in Clients /\ t.of \in Docs,
           t.does = "export" => t.of \in Exports,
           t.does = "export" /\ t.at = "stored" => t.keys # {} /\ t.keys \subseteq Nat,
           t.does = "purge" => t.of \in Deletions
    PROVE  /\ task' \in [Processes -> Tasks]
           /\ \A q \in Processes : TaskTyped(q)'
BY DEF Typed, TaskTyped, At, Do

(* What an update by id makes of a row. *)
LEMMA ClaimedTyped ==
    /\ \A row \in ExportRows : Claimed(row) \in ExportRows
    /\ \A row \in DeletionRows : Claimed(row) \in DeletionRows
<1>1. ASSUME NEW row \in ExportRows PROVE Claimed(row) \in ExportRows
  <2>1. row.attempts + 1 \in Nat
    BY DEF ExportRows
  <2> QED
    BY <2>1 DEF Claimed, ExportRows
<1>2. ASSUME NEW row \in DeletionRows PROVE Claimed(row) \in DeletionRows
  <2>1. row.attempts + 1 \in Nat
    BY DEF DeletionRows
  <2> QED
    BY <2>1 DEF Claimed, DeletionRows
<1> QED
  BY <1>1, <1>2

LEMMA SettledExport ==
    ASSUME NEW row \in ExportRows, NEW key \in Nat
    PROVE  /\ [row EXCEPT !.status = "completed", !.age = 0, !.key = key] \in ExportRows
           /\ [row EXCEPT !.status = "failed", !.age = 0] \in ExportRows
           /\ [row EXCEPT !.status = "expired", !.key = 0] \in ExportRows
<1>1. 0 \in 0..2
  OBVIOUS
<1> QED
  BY <1>1 DEF ExportRows

LEMMA MarkedDocument ==
    ASSUME NEW row \in DocRows, NEW status \in {"pending", "available", "failed", "delete_pending", "deleted", "removed"}
    PROVE  /\ SetStatus(row, status) \in DocRows
           /\ Updated(row, [row EXCEPT !.status = "deleted", !.retention = "running"]) \in DocRows
BY DEF SetStatus, Updated, DocRows

LEMMA ClientTyped ==
    ASSUME Typed, NEW c \in Clients, Client(c)
    PROVE  Typed'
<1> USE DEF Typed
<1>0. RowsTyped /\ SweepTyped /\ TaskTyped(c) /\ task[c] \in Tasks /\ c \in Processes
  BY DEF Processes
<1>1. ASSUME NEW d \in Docs, BeginUpload(c, d) \/ BeginDelete(c, d) PROVE Typed'
  <2> DEFINE new == IF BeginUpload(c, d) THEN [Idle EXCEPT !.does = "upload", !.of = d, !.at = "insert"]
                                         ELSE [Idle EXCEPT !.does = "delete", !.of = d, !.at = "claim"]
  <2>0. new \in Tasks /\ new.does \in {"upload", "delete"} /\ new.of = d
    BY DEF Idle, Tasks
  <2>1. PICK t \in Tasks : Do(c, t) /\ t.does \in {"upload", "delete"} /\ t.of = d
    BY <1>1, <2>0 DEF BeginUpload, BeginDelete
  <2>2. /\ task' \in [Processes -> Tasks]
        /\ \A q \in Processes : TaskTyped(q)'
    BY <1>0, <2>1, TaskSteps
  <2> QED
    BY <1>0, <1>1, <2>2 DEF BeginUpload, BeginDelete, RowsTyped, SweepTyped
<1>2. CASE InsertDocument(c) \/ StoreDocument(c) \/ StoreDocumentFails(c) \/ MarkDeletePending(c) \/ RemoveDocument(c)
  <2>1. PICK t \in Tasks : Do(c, t) /\ t.does = task[c].does /\ t.of = task[c].of /\ t.does \in {"upload", "delete"}
    BY <1>0, <1>2 DEF InsertDocument, StoreDocument, StoreDocumentFails, MarkDeletePending, RemoveDocument, At, Tasks
  <2>2. /\ task' \in [Processes -> Tasks]
        /\ \A q \in Processes : TaskTyped(q)'
    BY <1>0, <2>1, TaskSteps DEF TaskTyped
  <2>3. task[c].of \in Docs
    BY <1>0, <2>1 DEF TaskTyped
  <2>4. RowsTyped'
    <3>1. CASE InsertDocument(c) \/ MarkDeletePending(c)
      BY <1>0, <3>1 DEF InsertDocument, MarkDeletePending, SetStatus, Updated, RowsTyped, DocRows
    <3>2. CASE StoreDocument(c) \/ StoreDocumentFails(c) \/ RemoveDocument(c)
      BY <1>0, <2>3, <3>2 DEF StoreDocument, StoreDocumentFails, RemoveDocument, PossiblyStored, Stored, Dropped, Keys, RowsTyped
    <3> QED
      BY <1>2, <3>1, <3>2
  <2> QED
    BY <1>0, <1>2, <2>2, <2>4
       DEF InsertDocument, StoreDocument, StoreDocumentFails, MarkDeletePending, RemoveDocument, SweepTyped
<1>3. CASE MarkDocument(c) \/ MarkDeleted(c)
  <2>1. Do(c, Idle) /\ Idle \in Tasks
    BY <1>3 DEF MarkDocument, MarkDeleted, Idle, Tasks
  <2>2. /\ task' \in [Processes -> Tasks]
        /\ \A q \in Processes : TaskTyped(q)'
    BY <1>0, <2>1, TaskSteps DEF Idle
  <2>3. RowsTyped'
    <3>0. doc \in [Docs -> DocRows]
      BY <1>0 DEF RowsTyped
    <3>1. CASE MarkDocument(c)
      <4>1. doc' \in [Docs -> DocRows]
        BY <3>0, <3>1, MarkedDocument DEF MarkDocument
      <4> QED
        BY <1>0, <3>1, <4>1 DEF MarkDocument, RowsTyped
    <3>2. CASE MarkDeleted(c)
      <4>1. doc' \in [Docs -> DocRows]
        BY <3>0, <3>2, MarkedDocument DEF MarkDeleted
      <4> QED
        BY <1>0, <3>2, <4>1 DEF MarkDeleted, RowsTyped
    <3> QED
      BY <1>3, <3>1, <3>2
  <2> QED
    BY <1>0, <1>3, <2>2, <2>3 DEF MarkDocument, MarkDeleted, SweepTyped
<1> QED
  BY <1>1, <1>2, <1>3 DEF Client

LEMMA WorkerTyped ==
    ASSUME Typed, NEW w \in Workers, Worker(w)
    PROVE  Typed'
<1> USE DEF Typed
<1>0. RowsTyped /\ SweepTyped /\ TaskTyped(w) /\ task[w] \in Tasks /\ w \in Processes
  BY DEF Processes
<1>1. ASSUME NEW e \in Exports, DeliverExport(w, e) PROVE Typed'
  <2>1. PICK t \in Tasks : Do(w, t) /\ t.does = "export" /\ t.of = e /\ t.at = "claim"
    <3> DEFINE new == [Idle EXCEPT !.does = "export", !.of = e, !.at = "claim"]
    <3>1. new \in Tasks /\ new.does = "export" /\ new.of = e /\ new.at = "claim"
      BY DEF Idle, Tasks
    <3> QED
      BY <1>1, <3>1 DEF DeliverExport
  <2>2. /\ task' \in [Processes -> Tasks]
        /\ \A q \in Processes : TaskTyped(q)'
    BY <1>0, <2>1, TaskSteps
  <2> QED
    BY <1>0, <1>1, <2>2 DEF DeliverExport, RowsTyped, SweepTyped
<1>2. ASSUME NEW h \in Deletions, DeliverDeletion(w, h) PROVE Typed'
  <2>1. PICK t \in Tasks : Do(w, t) /\ t.does = "purge" /\ t.of = h
    <3> DEFINE new == [Idle EXCEPT !.does = "purge", !.of = h, !.at = "claim"]
    <3>1. new \in Tasks /\ new.does = "purge" /\ new.of = h /\ new.at = "claim"
      BY DEF Idle, Tasks
    <3> QED
      BY <1>2, <3>1 DEF DeliverDeletion
  <2>2. /\ task' \in [Processes -> Tasks]
        /\ \A q \in Processes : TaskTyped(q)'
    BY <1>0, <2>1, TaskSteps
  <2> QED
    BY <1>0, <1>2, <2>2 DEF DeliverDeletion, RowsTyped, SweepTyped
<1>3. CASE ClaimExport(w) \/ StoreArtifact(w) \/ StoreArtifactFails(w)
  <2>1. PICK t \in Tasks :
          Do(w, t) /\ t.does = "export" /\ t.of = task[w].of /\ (t.at = "stored" => t.keys = {uploads + 1})
    <3>1. uploads + 1 \in Nat
      BY <1>0 DEF RowsTyped
    <3>2. /\ [task[w] EXCEPT !.at = "store"] \in Tasks
          /\ [task[w] EXCEPT !.at = "refused"] \in Tasks
          /\ [task[w] EXCEPT !.at = "stored", !.keys = {uploads + 1}] \in Tasks
      BY <1>0, <3>1 DEF Tasks, Keys
    <3>3. CASE ClaimExport(w)
      BY <1>0, <3>2, <3>3 DEF ClaimExport, At, Tasks
    <3>4. CASE StoreArtifact(w)
      BY <1>0, <3>2, <3>4 DEF StoreArtifact, ArtifactKey, At, Tasks
    <3>5. CASE StoreArtifactFails(w)
      BY <1>0, <3>2, <3>5 DEF StoreArtifactFails, At, Tasks
    <3> QED
      BY <1>3, <3>3, <3>4, <3>5
  <2>2. task[w].of \in Exports /\ uploads + 1 \in Nat
    BY <1>0, <1>3 DEF ClaimExport, StoreArtifact, StoreArtifactFails, At, TaskTyped, RowsTyped
  <2>3. /\ task' \in [Processes -> Tasks]
        /\ \A q \in Processes : TaskTyped(q)'
    BY <1>0, <2>1, <2>2, TaskSteps
  <2>4. RowsTyped'
    <3>1. CASE ClaimExport(w)
      BY <1>0, <2>2, <3>1, ClaimedTyped DEF ClaimExport, Updated, RowsTyped
    <3>2. CASE StoreArtifact(w) \/ StoreArtifactFails(w)
      BY <1>0, <2>2, <3>2 DEF StoreArtifact, StoreArtifactFails, ArtifactKey, PossiblyStored, Stored, Keys, RowsTyped
    <3> QED
      BY <1>3, <3>1, <3>2
  <2> QED
    BY <1>0, <1>3, <2>3, <2>4 DEF ClaimExport, StoreArtifact, StoreArtifactFails, SweepTyped
<1>4. CASE CompleteExport(w) \/ FailExport(w)
  <2>1. Do(w, Idle) /\ Idle \in Tasks
    BY <1>4 DEF CompleteExport, FailExport, Idle, Tasks
  <2>2. /\ task' \in [Processes -> Tasks]
        /\ \A q \in Processes : TaskTyped(q)'
    BY <1>0, <2>1, TaskSteps DEF Idle
  <2>3. RowsTyped'
    <3>1. CASE CompleteExport(w)
      <4>1. (CHOOSE k \in task[w].keys : TRUE) \in Nat
        BY <1>0, <3>1 DEF CompleteExport, TaskTyped
      <4> QED
        BY <1>0, <3>1, <4>1, SettledExport DEF CompleteExport, Updated, RowsTyped
    <3>2. CASE FailExport(w)
      BY <1>0, <3>2, SettledExport DEF FailExport, Updated, RowsTyped
    <3> QED
      BY <1>4, <3>1, <3>2
  <2> QED
    BY <1>0, <1>4, <2>2, <2>3 DEF CompleteExport, FailExport, SweepTyped
<1>5. CASE ClaimDeletion(w) \/ ListDocuments(w) \/ ListExports(w) \/ RemoveObject(w) \/ RemoveObjectFails(w)
  <2>1. {export[e].key : e \in {x \in Exports : export[x].key # 0}} \subseteq Keys
    BY <1>0 DEF RowsTyped, ExportRows, Keys
  <2>2. PICK t \in Tasks : Do(w, t) /\ t.does = "purge" /\ t.of = task[w].of
    <3>0. ASSUME NEW at \in {"list_documents", "list_exports", "remove", "refused"}, NEW keys \in SUBSET Keys
          PROVE  /\ [task[w] EXCEPT !.at = at] \in Tasks
                 /\ [task[w] EXCEPT !.at = at, !.keys = keys] \in Tasks
                 /\ [task[w] EXCEPT !.at = at].does = task[w].does
                 /\ [task[w] EXCEPT !.at = at].of = task[w].of
                 /\ [task[w] EXCEPT !.at = at, !.keys = keys].does = task[w].does
                 /\ [task[w] EXCEPT !.at = at, !.keys = keys].of = task[w].of
      BY <1>0 DEF Tasks
    <3>1. CASE ClaimDeletion(w)
      BY <3>0, <3>1 DEF ClaimDeletion, At
    <3>2. CASE RemoveObjectFails(w)
      BY <3>0, <3>2 DEF RemoveObjectFails, At
    <3>3. CASE ListDocuments(w)
      <4> DEFINE all == {d \in Docs : Exists(doc[d])}
      <4> DEFINE new == [task[w] EXCEPT !.at = "list_exports", !.keys = all]
      <4>1. all \in SUBSET Keys
        BY DEF Keys
      <4>2. Do(w, new) /\ task[w].does = "purge"
        BY <3>3 DEF ListDocuments, At
      <4> HIDE DEF all
      <4>3. new \in Tasks /\ new.does = task[w].does /\ new.of = task[w].of
        BY <3>0, <4>1
      <4> HIDE DEF new
      <4> QED
        BY <4>2, <4>3
    <3>4. CASE ListExports(w)
      <4> DEFINE all == task[w].keys \cup {export[e].key : e \in {x \in Exports : export[x].key # 0}}
      <4> DEFINE new == [task[w] EXCEPT !.at = "remove", !.keys = all]
      <4>1. all \in SUBSET Keys
        BY <1>0, <2>1 DEF Tasks
      <4>2. Do(w, new) /\ task[w].does = "purge"
        BY <1>0, <3>4 DEF ListExports, At, Tasks
      <4> HIDE DEF all
      <4>3. new \in Tasks /\ new.does = task[w].does /\ new.of = task[w].of
        BY <3>0, <4>1
      <4> HIDE DEF new
      <4> QED
        BY <4>2, <4>3
    <3>5. CASE RemoveObject(w)
      <4>1. PICK k \in task[w].keys : Do(w, [task[w] EXCEPT !.keys = @ \ {k}])
        BY <3>5 DEF RemoveObject
      <4> QED
        BY <1>0, <3>5, <4>1 DEF RemoveObject, At, Tasks
    <3> QED
      BY <1>5, <3>1, <3>2, <3>3, <3>4, <3>5
  <2>3. /\ task' \in [Processes -> Tasks]
        /\ \A q \in Processes : TaskTyped(q)'
    <3>1. task[w].of \in Deletions
      BY <1>0, <1>5 DEF ClaimDeletion, ListDocuments, ListExports, RemoveObject, RemoveObjectFails, At, TaskTyped
    <3> QED
      BY <1>0, <2>2, <3>1, TaskSteps
  <2>4. RowsTyped'
    <3>1. CASE ClaimDeletion(w)
      BY <1>0, <3>1, ClaimedTyped DEF ClaimDeletion, RowsTyped
    <3>2. CASE ListDocuments(w) \/ ListExports(w) \/ RemoveObject(w) \/ RemoveObjectFails(w)
      BY <1>0, <3>2 DEF ListDocuments, ListExports, RemoveObject, RemoveObjectFails, Dropped, RowsTyped
    <3> QED
      BY <1>5, <3>1, <3>2
  <2> QED
    BY <1>0, <1>5, <2>3, <2>4 DEF ClaimDeletion, ListDocuments, ListExports, RemoveObject, RemoveObjectFails, SweepTyped
<1>6. CASE FailDeletion(w) \/ PurgeHousehold(w)
  <2>1. Do(w, Idle) /\ Idle \in Tasks
    BY <1>6 DEF FailDeletion, PurgeHousehold, Idle, Tasks
  <2>2. /\ task' \in [Processes -> Tasks]
        /\ \A q \in Processes : TaskTyped(q)'
    BY <1>0, <2>1, TaskSteps DEF Idle
  <2>3. RowsTyped'
    <3>1. CASE FailDeletion(w)
      BY <1>0, <3>1 DEF FailDeletion, RowsTyped, DeletionRows
    <3>2. CASE PurgeHousehold(w)
      <4>1. Removed(doc) \in [Docs -> DocRows] /\ Removed(export) \in [Exports -> ExportRows]
        BY SMTT(30), <1>0 DEF Removed, SetStatus, Updated, RowsTyped, DocRows, ExportRows
      <4>2. \A e \in Exports : [Removed(export)[e] EXCEPT !.key = 0] \in ExportRows
        BY <4>1 DEF ExportRows
      <4>3. deletion' \in [Deletions -> DeletionRows]
        BY <1>0, <3>2 DEF PurgeHousehold, RowsTyped, DeletionRows
      <4> QED
        BY <1>0, <3>2, <4>1, <4>2, <4>3 DEF PurgeHousehold, RowsTyped
    <3> QED
      BY <1>6, <3>1, <3>2
  <2> QED
    BY <1>0, <1>6, <2>2, <2>3 DEF FailDeletion, PurgeHousehold, SweepTyped
<1> QED
  BY <1>1, <1>2, <1>3, <1>4, <1>5, <1>6 DEF Worker

(* What a sweep selects. *)
LEMMA SelectionTyped ==
    ASSUME RowsTyped, NEW p \in 1..5, NEW r \in Select(SweepPhases[p])
    PROVE  /\ r \in Selections
           /\ r.row \in Docs => r.key = r.row /\ p \in {3, 5}
           /\ r.row \notin Docs => r.key \in Nat
           /\ r.row \in Deletions => p = 2 /\ r.row \in DueRequests
           /\ r.row \in Exports => p \in {1, 4}
           /\ r.row \in Docs => r.row \in DueTombstones \cup DueOrphans
           /\ r.row \in Docs /\ p = 3 => r.row \in DueTombstones
<1> USE DEF RowsTyped
<1>1. CASE p = 1
  <2>1. r \in {[row |-> e, key |-> export[e].key, status |-> "completed"] : e \in DueArtifacts}
    BY <1>1 DEF Select, SweepPhases
  <2>2. PICK e \in Exports : r = [row |-> e, key |-> export[e].key, status |-> "completed"]
    BY <2>1 DEF DueArtifacts
  <2>3. export[e].key \in Nat
    BY DEF ExportRows
  <2> QED
    BY <1>1, <2>2, <2>3, RowIdsAreDistinct DEF Selections, Keys, Ids
<1>2. CASE p = 2
  <2>1. r \in {[row |-> h, key |-> 0, status |-> "pending"] : h \in DueRequests}
    BY <1>2 DEF Select, SweepPhases
  <2>2. PICK h \in DueRequests : r = [row |-> h, key |-> 0, status |-> "pending"]
    BY <2>1
  <2>3. h \in Deletions
    BY DEF DueRequests
  <2> QED
    BY <1>2, <2>2, <2>3, RowIdsAreDistinct DEF Selections, Keys, Ids
<1>3. CASE p = 3
  <2>1. r \in {[row |-> d, key |-> d, status |-> "deleted"] : d \in DueTombstones}
    BY <1>3 DEF Select, SweepPhases
  <2>2. PICK d \in DueTombstones : r = [row |-> d, key |-> d, status |-> "deleted"]
    BY <2>1
  <2>3. d \in Docs
    BY DEF DueTombstones
  <2> QED
    BY <1>3, <2>2, <2>3, RowIdsAreDistinct DEF Selections, Keys, Ids
<1>4. CASE p = 4
  <2>1. r \in {[row |-> e, key |-> 0, status |-> export[e].status] : e \in DueExports}
    BY <1>4 DEF Select, SweepPhases
  <2>2. PICK e \in DueExports : r = [row |-> e, key |-> 0, status |-> export[e].status]
    BY <2>1
  <2>3. e \in Exports /\ export[e].status \in {"failed", "expired"}
    BY DEF DueExports
  <2> QED
    BY <1>4, <2>2, <2>3, RowIdsAreDistinct DEF Selections, Keys, Ids
<1>5. CASE p = 5
  <2>1. r \in {[row |-> d, key |-> d, status |-> doc[d].status] : d \in DueOrphans}
    BY <1>5 DEF Select, SweepPhases
  <2>2. PICK d \in DueOrphans : r = [row |-> d, key |-> d, status |-> doc[d].status]
    BY <2>1
  <2>3. d \in Docs /\ doc[d].status \in {"failed", "delete_pending"}
    BY DEF DueOrphans
  <2> QED
    BY <1>5, <2>2, <2>3, RowIdsAreDistinct DEF Selections, Keys, Ids
<1> QED
  BY <1>1, <1>2, <1>3, <1>4, <1>5

LEMMA CleanupTyped ==
    ASSUME Typed, Cleanup
    PROVE  Typed'
<1> USE DEF Typed
<1>0. RowsTyped /\ SweepTyped
  OBVIOUS
<1>1. CASE SelectRows
  <2>1. PICK p \in sweep.phase + 1..5 : sweep' = [phase |-> p, rows |-> Select(SweepPhases[p]), hand |-> {}]
    <3>1. Len(SweepPhases) = 5
      BY DEF SweepPhases
    <3> QED
      BY <1>1, <3>1 DEF SelectRows
  <2>2. p \in 1..5
    BY <1>0 DEF SweepTyped
  <2>3. SweepTyped'
    BY <1>0, <2>1, <2>2, SelectionTyped DEF SweepTyped
  <2> QED
    BY <1>0, <1>1, <2>3 DEF SelectRows, RowsTyped, TaskTyped, At
<1>2. CASE SweepObject
  <2>1. PICK r \in sweep.rows :
          /\ Dropped(r.key)
          /\ sweep' = [sweep EXCEPT !.rows = @ \ {r}, !.hand = {r} \ [row : Docs, key : Keys, status : {"failed"}]]
    BY <1>2 DEF SweepObject
  <2>2. SweepTyped'
    BY <1>0, <2>1 DEF SweepTyped
  <2>3. RowsTyped'
    BY <1>0, <1>2, <2>1 DEF SweepObject, Dropped, RowsTyped
  <2> QED
    BY <1>2, <2>2, <2>3 DEF SweepObject, TaskTyped, At
<1>3. CASE SweepObjectFails
  <2>1. PICK r \in sweep.rows : sweep' = [sweep EXCEPT !.rows = @ \ {r}]
    BY <1>3 DEF SweepObjectFails
  <2>2. SweepTyped'
    BY <1>0, <2>1 DEF SweepTyped
  <2> QED
    BY <1>0, <1>3, <2>2 DEF SweepObjectFails, RowsTyped, TaskTyped, At
<1>4. CASE ExpireExport
  <2>1. PICK r \in sweep.hand :
          export' = [export EXCEPT ![r.row] = Updated(@, [@ EXCEPT !.status = "expired", !.key = 0])]
    BY <1>4 DEF ExpireExport
  <2>2. export' \in [Exports -> ExportRows]
    BY <1>0, <2>1, SettledExport DEF Updated, RowsTyped
  <2>3. SweepTyped'
    BY <1>0, <1>4 DEF ExpireExport, SweepTyped
  <2> QED
    BY <1>0, <1>4, <2>2, <2>3 DEF ExpireExport, RowsTyped, TaskTyped, At
<1>5. CASE FinishDocument
  <2>1. PICK r \in sweep.hand : doc' = [doc EXCEPT ![r.row] = SetStatus(@, "deleted")]
    BY <1>5 DEF FinishDocument
  <2>2. doc' \in [Docs -> DocRows]
    BY <1>0, <2>1, MarkedDocument DEF RowsTyped
  <2>3. SweepTyped'
    BY <1>0, <1>5 DEF FinishDocument, SweepTyped
  <2> QED
    BY <1>0, <1>5, <2>2, <2>3 DEF FinishDocument, RowsTyped, TaskTyped, At
<1>6. CASE DeleteRows
  <2> DEFINE ids == {r.row : r \in sweep.rows}
  <2>1. deletion' \in [Deletions -> DeletionRows]
    <3>1. deletion' = [h \in Deletions |-> IF h \in ids THEN [deletion[h] EXCEPT !.status = "removed"] ELSE deletion[h]]
      BY <1>6 DEF DeleteRows
    <3>2. \A h \in Deletions : [deletion[h] EXCEPT !.status = "removed"] \in DeletionRows
      BY <1>0 DEF RowsTyped, DeletionRows
    <3> HIDE DEF ids
    <3> QED
      BY <1>0, <3>1, <3>2 DEF RowsTyped
  <2>2. doc' \in [Docs -> DocRows]
    <3>1. doc' = [d \in Docs |-> IF d \in ids THEN SetStatus(doc[d], "removed") ELSE doc[d]]
      BY <1>6 DEF DeleteRows
    <3> HIDE DEF ids
    <3> QED
      BY <1>0, <3>1, MarkedDocument DEF RowsTyped
  <2>3. export' \in [Exports -> ExportRows]
    <3>1. export' = [e \in Exports |-> IF e \in ids THEN [SetStatus(export[e], "removed") EXCEPT !.key = 0] ELSE export[e]]
      BY <1>6 DEF DeleteRows
    <3>2. \A e \in Exports : SetStatus(export[e], "removed") \in ExportRows
      BY <1>0 DEF RowsTyped, ExportRows, SetStatus, Updated
    <3>3. \A row \in ExportRows : [row EXCEPT !.key = 0] \in ExportRows
      BY DEF ExportRows
    <3> HIDE DEF ids
    <3> QED
      BY <1>0, <3>1, <3>2, <3>3 DEF RowsTyped
  <2>4. SweepTyped'
    BY <1>0, <1>6 DEF DeleteRows, SweepTyped
  <2> QED
    BY <1>0, <1>6, <2>1, <2>2, <2>3, <2>4 DEF DeleteRows, RowsTyped, TaskTyped, At
<1> QED
  BY <1>1, <1>2, <1>3, <1>4, <1>5, <1>6 DEF Cleanup

(* The household's own requests. *)
Request ==
    \/ \E r \in ConsentRequests : RecordConsent(r)
    \/ \E e \in Exports : CreateExport(e)
    \/ \E h \in Deletions : CreateDeletion(h) \/ ConfirmDeletion(h)

Aging ==
    \/ \E d \in Docs : DocumentAges(d)
    \/ \E e \in Exports : ExportAges(e)
    \/ \E h \in Deletions : DeletionAges(h)

LEMMA RequestTyped ==
    ASSUME Typed, Request
    PROVE  Typed'
<1> USE DEF Typed
<1>0. RowsTyped /\ SweepTyped
  OBVIOUS
<1>1. ASSUME NEW r \in ConsentRequests, RecordConsent(r) PROVE Typed'
  <2>1. r.purpose \in Purposes /\ r.action \in {"granted", "withdrawn"}
    BY ConsentRequestsAreTyped
  <2>2. RowsTyped'
    BY <1>0, <1>1, <2>1 DEF RecordConsent, RowsTyped
  <2> QED
    BY <1>0, <1>1, <2>2 DEF RecordConsent, SweepTyped, TaskTyped, At
<1>2. ASSUME NEW e \in Exports, CreateExport(e) PROVE Typed'
  <2>1. export' \in [Exports -> ExportRows]
    BY <1>0, <1>2 DEF CreateExport, RowsTyped, ExportRows
  <2> QED
    BY <1>0, <1>2, <2>1 DEF CreateExport, RowsTyped, SweepTyped, TaskTyped, At
<1>3. ASSUME NEW h \in Deletions, CreateDeletion(h) PROVE Typed'
  <2>1. deletion' \in [Deletions -> DeletionRows]
    BY <1>0, <1>3 DEF CreateDeletion, RowsTyped, DeletionRows
  <2> QED
    BY <1>0, <1>3, <2>1 DEF CreateDeletion, RowsTyped, SweepTyped, TaskTyped, At
<1>4. ASSUME NEW h \in Deletions, ConfirmDeletion(h) PROVE Typed'
  <2>1. 0 \in 0..2
    OBVIOUS
  <2>2. deletion' \in [Deletions -> DeletionRows]
    <3>1. [deletion EXCEPT ![h].status = "queued"] \in [Deletions -> DeletionRows]
      BY <1>0 DEF RowsTyped, DeletionRows
    <3> DEFINE d == [deletion EXCEPT ![h].status = "queued"]
    <3>2. deletion' = [d EXCEPT ![h].age = 0]
      BY <1>4 DEF ConfirmDeletion
    <3> HIDE DEF d
    <3> QED
      BY <2>1, <3>1, <3>2 DEF d, DeletionRows
  <2> QED
    BY <1>0, <1>4, <2>2 DEF ConfirmDeletion, RowsTyped, SweepTyped, TaskTyped, At
<1> QED
  BY <1>1, <1>2, <1>3, <1>4 DEF Request

LEMMA AgingTyped ==
    ASSUME Typed, Aging
    PROVE  Typed'
<1> USE DEF Typed
<1>0. RowsTyped /\ SweepTyped
  OBVIOUS
<1>1. ASSUME NEW d \in Docs, DocumentAges(d) PROVE Typed'
  <2>0. /\ [doc[d] EXCEPT !.old = TRUE] \in DocRows
        /\ [doc[d] EXCEPT !.retention = "over"] \in DocRows
    BY <1>0 DEF RowsTyped, DocRows
  <2>1. doc' \in [Docs -> DocRows]
    BY <1>0, <1>1, <2>0 DEF DocumentAges, RowsTyped
  <2> QED
    BY <1>0, <1>1, <2>1 DEF DocumentAges, RowsTyped, SweepTyped, TaskTyped, At
<1>2. ASSUME NEW e \in Exports, ExportAges(e) PROVE Typed'
  <2>1. export[e].age + 1 \in 0..2
    BY <1>0, <1>2 DEF ExportAges, RowsTyped, ExportRows
  <2>2. export' \in [Exports -> ExportRows]
    BY <1>0, <1>2, <2>1 DEF ExportAges, RowsTyped, ExportRows
  <2> QED
    BY <1>0, <1>2, <2>2 DEF ExportAges, RowsTyped, SweepTyped, TaskTyped, At
<1>3. ASSUME NEW h \in Deletions, DeletionAges(h) PROVE Typed'
  <2>1. deletion[h].age + 1 \in 0..2
    BY <1>0, <1>3 DEF DeletionAges, RowsTyped, DeletionRows
  <2>2. deletion' \in [Deletions -> DeletionRows]
    BY <1>0, <1>3, <2>1 DEF DeletionAges, RowsTyped, DeletionRows
  <2> QED
    BY <1>0, <1>3, <2>2 DEF DeletionAges, RowsTyped, SweepTyped, TaskTyped, At
<1> QED
  BY <1>1, <1>2, <1>3 DEF Aging

LEMMA FaultTyped ==
    ASSUME Typed, (\E p \in Processes : Crash(p)) \/ EndSweep \/ UNCHANGED vars
    PROVE  Typed'
<1> USE DEF Typed
<1>0. RowsTyped /\ SweepTyped
  OBVIOUS
<1>1. ASSUME NEW p \in Processes, Crash(p) PROVE Typed'
  <2>1. Idle \in Tasks
    BY DEF Idle, Tasks
  <2>2. /\ task' \in [Processes -> Tasks]
        /\ \A q \in Processes : TaskTyped(q)'
    BY <1>0, <1>1, <2>1, TaskSteps DEF Crash, Idle
  <2> QED
    BY <1>0, <1>1, <2>2 DEF Crash, RowsTyped, SweepTyped
<1>2. CASE EndSweep
  BY <1>0, <1>2 DEF EndSweep, NoSweep, RowsTyped, SweepTyped, TaskTyped, At
<1>3. CASE UNCHANGED vars
  BY <1>0, <1>3 DEF vars, RowsTyped, SweepTyped, TaskTyped, At
<1> QED
  BY <1>1, <1>2, <1>3

LEMMA NextParts ==
    [Next]_vars <=>
       \/ Request
       \/ \E c \in Clients : Client(c)
       \/ \E w \in Workers : Worker(w)
       \/ Cleanup
       \/ (\E p \in Processes : Crash(p)) \/ EndSweep \/ UNCHANGED vars
       \/ Aging
BY DEF Next, Request, Aging

LEMMA NextTyped == Typed /\ [Next]_vars => Typed'
BY NextParts, RequestTyped, ClientTyped, WorkerTyped, CleanupTyped, FaultTyped, AgingTyped

(* Every row is one the code can write and every process is at a step of   *)
(* the code, whatever fails and however often.                             *)
THEOREM PrivacyIsTyped == Spec => []TypeOK
<1>1. Typed => TypeOK
  BY DEF Typed, RowsTyped, SweepTyped, TaskTyped, TypeOK, SweepPhases
<1> QED
  BY InitTyped, NextTyped, <1>1, PTL DEF Spec

-----------------------------------------------------------------------------
(* Deletion requests *)

Stands == \A h \in Deletions : Confirmed(h) => Confirmed(h)'

LEMMA RequestsUntouched ==
    ASSUME Typed, Requested, UNCHANGED <<alive, deletion>>, sweep'.rows \subseteq sweep.rows,
           \A p \in Processes : task'[p].does = "purge" =>
              \/ task[p].does = "purge" /\ task'[p].of = task[p].of
              \/ Confirmed(task'[p].of)
    PROVE  Requested' /\ Stands
<1> USE DEF Confirmed, Unresolved, Current
<1>1. Doomed => Doomed'
  BY DEF Doomed
<1>2. \A p \in Processes : task'[p].does = "purge" => Confirmed(task[p].of)'
  BY DEF Requested
<1> QED
  BY <1>1, <1>2 DEF Requested, Stands

LEMMA RequestRequested ==
    ASSUME Typed, Requested, Request
    PROVE  Requested' /\ Stands
<1> USE DEF Confirmed, Unresolved, Current
<1>0. deletion \in [Deletions -> DeletionRows]
  BY DEF Typed, RowsTyped
<1>1. CASE \E r \in ConsentRequests : RecordConsent(r)
  BY <1>1, RequestsUntouched DEF RecordConsent
<1>2. CASE \E e \in Exports : CreateExport(e)
  BY <1>2, RequestsUntouched DEF CreateExport
<1>3. ASSUME NEW h \in Deletions, CreateDeletion(h) PROVE Requested' /\ Stands
  <2>1. /\ alive /\ alive' /\ UNCHANGED <<task, sweep>>
        /\ deletion[h].status = "absent" /\ deletion'[h].status = "pending"
        /\ \A g \in Deletions \ {h} : deletion'[g] = deletion[g]
    BY <1>0, <1>3 DEF CreateDeletion, DeletionRows
  <2>2. \A g \in Deletions : ~Current(g)
    BY <1>3, <2>1 DEF Requested, CreateDeletion
  <2>3. \A p \in Processes : task[p].does # "purge"
    BY <2>2 DEF Requested, Typed, TaskTyped
  <2>4. \A r \in sweep.rows : r.row \in Deletions => r.row # h
    BY <2>1 DEF Requested
  <2> QED
    BY <2>1, <2>2, <2>3, <2>4 DEF Requested, Stands
<1>4. ASSUME NEW h \in Deletions, ConfirmDeletion(h) PROVE Requested' /\ Stands
  <2>1. /\ alive /\ alive' /\ UNCHANGED <<task, sweep>>
        /\ deletion[h].status = "pending" /\ deletion[h].age = 0 /\ deletion'[h].status = "queued"
        /\ \A g \in Deletions \ {h} : deletion'[g] = deletion[g]
    BY <1>0, <1>4 DEF ConfirmDeletion, DeletionRows
  <2>2. \A p \in Processes : task[p].does = "purge" => task[p].of \in Deletions
    BY DEF Typed, TaskTyped
  <2>3. \A r \in sweep.rows : r.row \in Deletions => r.row # h
    BY <2>1 DEF Requested
  <2> QED
    BY <2>1, <2>2, <2>3 DEF Requested, Stands
<1> QED
  BY <1>1, <1>2, <1>3, <1>4 DEF Request

LEMMA ClientRequested ==
    ASSUME Typed, Requested, NEW c \in Clients, Client(c)
    PROVE  Requested' /\ Stands
<1>0. task \in [Processes -> Tasks] /\ c \in Processes /\ Idle.does = "nothing"
  BY DEF Typed, Processes, Idle
<1>1. UNCHANGED <<alive, deletion, sweep>>
  BY DEF Client, BeginUpload, BeginDelete, InsertDocument, StoreDocument, StoreDocumentFails, MarkDocument,
         MarkDeletePending, RemoveDocument, MarkDeleted
<1>2. task'[c].does # "purge" /\ \A p \in Processes \ {c} : task'[p] = task[p]
  <2>1. ASSUME NEW d \in Docs, BeginUpload(c, d) \/ BeginDelete(c, d)
        PROVE  task'[c].does # "purge" /\ \A p \in Processes \ {c} : task'[p] = task[p]
    BY <1>0, <2>1 DEF BeginUpload, BeginDelete, Idle, Do
  <2>2. CASE InsertDocument(c) \/ StoreDocument(c) \/ StoreDocumentFails(c) \/ MarkDeletePending(c) \/ RemoveDocument(c)
    BY <1>0, <2>2 DEF InsertDocument, StoreDocument, StoreDocumentFails, MarkDeletePending, RemoveDocument, At, Tasks, Do
  <2>3. CASE MarkDocument(c) \/ MarkDeleted(c)
    BY <1>0, <2>3 DEF MarkDocument, MarkDeleted, Do
  <2> QED
    BY <2>1, <2>2, <2>3 DEF Client
<1>3. \A p \in Processes : task'[p].does = "purge" => task[p].does = "purge" /\ task'[p].of = task[p].of
  BY <1>2
<1> QED
  BY <1>1, <1>3, RequestsUntouched

LEMMA WorkerRequested ==
    ASSUME Typed, Requested, NEW w \in Workers, Worker(w)
    PROVE  Requested' /\ Stands
<1>0. task \in [Processes -> Tasks] /\ w \in Processes /\ task[w] \in Tasks /\ Idle.does = "nothing"
  BY DEF Typed, Processes, Idle
<1>01. deletion \in [Deletions -> DeletionRows]
  BY DEF Typed, RowsTyped
<1>1. CASE \/ \E e \in Exports : DeliverExport(w, e)
           \/ ClaimExport(w) \/ StoreArtifact(w) \/ StoreArtifactFails(w) \/ CompleteExport(w) \/ FailExport(w)
  <2>1. UNCHANGED <<alive, deletion, sweep>>
    BY <1>1 DEF DeliverExport, ClaimExport, StoreArtifact, StoreArtifactFails, CompleteExport, FailExport
  <2>2. task'[w].does # "purge" /\ \A p \in Processes \ {w} : task'[p] = task[p]
    <3>1. CASE \E e \in Exports : DeliverExport(w, e)
      BY <1>0, <3>1 DEF DeliverExport, Idle, Do
    <3>2. CASE ClaimExport(w) \/ StoreArtifact(w) \/ StoreArtifactFails(w)
      BY ZenonT(30), <1>0, <3>2 DEF ClaimExport, StoreArtifact, StoreArtifactFails, At, Tasks, Do
    <3>3. CASE CompleteExport(w) \/ FailExport(w)
      BY <1>0, <3>3 DEF CompleteExport, FailExport, Do
    <3> QED
      BY <1>1, <3>1, <3>2, <3>3
  <2>3. \A p \in Processes : task'[p].does = "purge" => task[p].does = "purge" /\ task'[p].of = task[p].of
    BY <2>2
  <2> QED
    BY <2>1, <2>3, RequestsUntouched
<1>2. ASSUME NEW h \in Deletions, DeliverDeletion(w, h) PROVE Requested' /\ Stands
  <2>1. UNCHANGED <<alive, deletion, sweep>> /\ Confirmed(h)
    BY <1>2 DEF DeliverDeletion, Confirmed
  <2>2. task'[w].of = h /\ \A p \in Processes \ {w} : task'[p] = task[p]
    BY <1>0, <1>2 DEF DeliverDeletion, Idle, Do
  <2>3. \A p \in Processes :
           task'[p].does = "purge" => (task[p].does = "purge" /\ task'[p].of = task[p].of) \/ Confirmed(task'[p].of)
    BY <2>1, <2>2
  <2> QED
    BY <2>1, <2>3, RequestsUntouched
<1>3. CASE ListDocuments(w) \/ ListExports(w) \/ RemoveObject(w) \/ RemoveObjectFails(w)
  <2>1. UNCHANGED <<alive, deletion, sweep>> /\ task[w].does = "purge"
    BY <1>3 DEF ListDocuments, ListExports, RemoveObject, RemoveObjectFails, At
  <2>2. task'[w].of = task[w].of /\ \A p \in Processes \ {w} : task'[p] = task[p]
    BY ZenonT(30), <1>0, <1>3 DEF ListDocuments, ListExports, RemoveObject, RemoveObjectFails, Tasks, Do
  <2>3. \A p \in Processes : task'[p].does = "purge" => task[p].does = "purge" /\ task'[p].of = task[p].of
    BY <2>1, <2>2
  <2> QED
    BY <2>1, <2>3, RequestsUntouched
<1>4. CASE ClaimDeletion(w) \/ FailDeletion(w) \/ PurgeHousehold(w)
  <2>1. PICK h \in Deletions : h = task[w].of /\ Confirmed(h) /\ task[w].does = "purge"
    BY <1>0, <1>4 DEF ClaimDeletion, FailDeletion, PurgeHousehold, At, Typed, TaskTyped, Requested
  <2>2. /\ deletion'[h].status \in {"running", "failed", "completed"}
        /\ deletion'[h].status = "completed" => ~alive'
        /\ \A g \in Deletions \ {h} : deletion'[g] = deletion[g]
        /\ ~alive => ~alive'
    <3>1. CASE ClaimDeletion(w)
      BY <1>01, <2>1, <3>1 DEF ClaimDeletion, Claimed, DeletionRows
    <3>2. CASE FailDeletion(w)
      BY <1>01, <2>1, <3>2 DEF FailDeletion, DeletionRows
    <3>3. CASE PurgeHousehold(w)
      BY <1>01, <2>1, <3>3 DEF PurgeHousehold, DeletionRows
    <3> QED
      BY <1>4, <3>1, <3>2, <3>3
  <2>3. sweep' = sweep
    BY <1>4 DEF ClaimDeletion, FailDeletion, PurgeHousehold
  <2>4. \A p \in Processes : task'[p].does = "purge" => task[p].does = "purge" /\ task'[p].of = task[p].of
    <3>1. (task'[w].does = "purge" => task'[w].of = h) /\ \A p \in Processes \ {w} : task'[p] = task[p]
      BY <1>0, <1>4, <2>1 DEF ClaimDeletion, FailDeletion, PurgeHousehold, Tasks, Do
    <3> QED
      BY <1>0, <2>1, <3>1
  <2>5. \A g \in Deletions : (Confirmed(g)' <=> Confirmed(g)) /\ (Current(g)' <=> Current(g))
    BY <2>1, <2>2 DEF Confirmed, Unresolved, Current
  <2>6. Confirmed(h)'
    BY <2>2 DEF Confirmed
  <2>7. \A p \in Processes : task'[p].does = "purge" => Confirmed(task[p].of)'
    <3>1. \A p \in Processes : task[p].does = "purge" => task[p].of \in Deletions /\ Confirmed(task[p].of)
      BY DEF Requested, Typed, TaskTyped
    <3> QED
      BY <2>4, <2>5, <3>1
  <2>8. \A r \in sweep.rows : r.row \in Deletions => r.row # h
    BY <2>1 DEF Requested, Confirmed
  <2>9. \A g \in Deletions : deletion'[g].status = "completed" => ~alive'
    BY <2>2 DEF Requested
  <2>10. ~alive' => Doomed'
    BY <2>1, <2>6 DEF Doomed
  <2> QED
    BY <2>1, <2>2, <2>3, <2>5, <2>7, <2>8, <2>9, <2>10 DEF Requested, Stands
<1> QED
  BY <1>1, <1>2, <1>3, <1>4 DEF Worker

LEMMA CleanupRequested ==
    ASSUME Typed, Requested, Cleanup
    PROVE  Requested' /\ Stands
<1>0. deletion \in [Deletions -> DeletionRows] /\ RowsTyped /\ SweepTyped
  BY DEF Typed, RowsTyped
<1>1. CASE SelectRows
  <2>1. PICK p \in sweep.phase + 1..5 : sweep' = [phase |-> p, rows |-> Select(SweepPhases[p]), hand |-> {}]
    <3>1. Len(SweepPhases) = 5
      BY DEF SweepPhases
    <3> QED
      BY <1>1, <3>1 DEF SelectRows
  <2>2. p \in 1..5
    BY <1>0 DEF SweepTyped
  <2>3. UNCHANGED <<alive, deletion, task>>
    BY <1>1 DEF SelectRows
  <2>4. \A r \in sweep'.rows : r.row \in Deletions => r.row \in DueRequests
    BY <1>0, <2>1, <2>2, SelectionTyped
  <2>5. Doomed => Doomed'
    BY <2>3 DEF Doomed, Confirmed
  <2> QED
    BY <2>3, <2>4, <2>5 DEF Requested, Stands, Confirmed, Current, Unresolved, DueRequests
<1>2. CASE SweepObject \/ SweepObjectFails \/ ExpireExport \/ FinishDocument
  <2>1. sweep'.rows \subseteq sweep.rows
    BY <1>0, <1>2 DEF SweepObject, SweepObjectFails, ExpireExport, FinishDocument, SweepTyped
  <2> QED
    BY <1>2, <2>1, RequestsUntouched DEF SweepObject, SweepObjectFails, ExpireExport, FinishDocument
<1>3. CASE DeleteRows
  <2> DEFINE ids == {r.row : r \in sweep.rows}
  <2>1. deletion' = [h \in Deletions |-> IF h \in ids THEN [deletion[h] EXCEPT !.status = "removed"] ELSE deletion[h]]
    BY <1>3 DEF DeleteRows
  <2>2. \A h \in ids : h \in Deletions => ~Confirmed(h)
    BY DEF Requested, Confirmed
  <2>3. UNCHANGED <<alive, task>> /\ sweep'.rows = {}
    BY <1>0, <1>3 DEF DeleteRows, SweepTyped
  <2> HIDE DEF ids
  <2>4. \A h \in Deletions : IF h \in ids THEN deletion'[h].status = "removed" ELSE deletion'[h] = deletion[h]
    BY <1>0, <2>1 DEF DeletionRows
  <2>5. \A h \in Deletions : (Confirmed(h)' <=> Confirmed(h)) /\ (Current(h)' => Current(h))
    BY <2>2, <2>4 DEF Confirmed, Current, Unresolved
  <2>6. Doomed => Doomed'
    BY <2>5 DEF Doomed
  <2>7. \A p \in Processes : task'[p].does = "purge" => Confirmed(task[p].of)'
    <3>1. \A p \in Processes : task[p].does = "purge" => task[p].of \in Deletions /\ Confirmed(task[p].of)
      BY DEF Requested, Typed, TaskTyped
    <3> QED
      BY <2>3, <2>5, <3>1
  <2>8. \A h \in Deletions : deletion'[h].status = "completed" => ~alive'
    BY <2>3, <2>4 DEF Requested
  <2> QED
    BY <2>3, <2>5, <2>6, <2>7, <2>8 DEF Requested, Stands
<1> QED
  BY <1>1, <1>2, <1>3 DEF Cleanup

LEMMA AgingRequested ==
    ASSUME Typed, Requested, Aging
    PROVE  Requested' /\ Stands
<1>1. ASSUME NEW h \in Deletions, DeletionAges(h) PROVE Requested' /\ Stands
  <2>0. deletion \in [Deletions -> DeletionRows]
    BY DEF Typed, RowsTyped
  <2>1. /\ UNCHANGED <<alive, task, sweep>>
        /\ deletion[h].status = "pending" /\ deletion[h].age # 2
        /\ \A g \in Deletions : deletion'[g].status = deletion[g].status
        /\ \A g \in Deletions \ {h} : deletion'[g] = deletion[g]
    BY <1>1, <2>0 DEF DeletionAges, DeletionRows
  <2>2. \A g \in Deletions : (Confirmed(g)' <=> Confirmed(g)) /\ (Current(g)' <=> Current(g))
    BY <2>1 DEF Confirmed, Current, Unresolved
  <2>3. \A r \in sweep.rows : r.row \in Deletions => r.row # h
    BY <2>1 DEF Requested
  <2>4. Doomed => Doomed'
    BY <2>2 DEF Doomed
  <2>5. \A p \in Processes : task'[p].does = "purge" => Confirmed(task[p].of)'
    <3>1. \A p \in Processes : task[p].does = "purge" => task[p].of \in Deletions /\ Confirmed(task[p].of)
      BY DEF Requested, Typed, TaskTyped
    <3> QED
      BY <2>1, <2>2, <3>1
  <2> QED
    BY <2>1, <2>2, <2>3, <2>4, <2>5 DEF Requested, Stands
<1>2. CASE (\E d \in Docs : DocumentAges(d)) \/ (\E e \in Exports : ExportAges(e))
  BY <1>2, RequestsUntouched DEF DocumentAges, ExportAges
<1> QED
  BY <1>1, <1>2 DEF Aging

LEMMA FaultRequested ==
    ASSUME Typed, Requested, (\E p \in Processes : Crash(p)) \/ EndSweep \/ UNCHANGED vars
    PROVE  Requested' /\ Stands
<1>1. ASSUME NEW p \in Processes, Crash(p) PROVE Requested' /\ Stands
  <2>1. \A q \in Processes : task'[q].does = "purge" => task[q].does = "purge" /\ task'[q].of = task[q].of
    BY <1>1 DEF Crash, Do, Idle, Typed
  <2> QED
    BY <1>1, <2>1, RequestsUntouched DEF Crash
<1>2. CASE EndSweep
  BY <1>2, RequestsUntouched DEF EndSweep, NoSweep
<1>3. CASE UNCHANGED vars
  BY <1>3, RequestsUntouched DEF vars
<1> QED
  BY <1>1, <1>2, <1>3

LEMMA InitRequested == Init => Requested
<1> SUFFICES ASSUME Init PROVE Requested
  OBVIOUS
<1>1. \A h \in Deletions : deletion[h].status \in {"absent", "removed"}
  BY DEF Init
<1> QED
  BY <1>1 DEF Init, Requested, Current, Confirmed, Unresolved, Idle, NoSweep

LEMMA NextRequested == Typed /\ Requested /\ [Next]_vars => Requested' /\ Stands
BY NextParts, RequestRequested, ClientRequested, WorkerRequested, CleanupRequested, FaultRequested, AgingRequested

(* A confirmed household deletion is never taken back, however the cleanup *)
(* and the confirmation interleave.                                        *)
THEOREM ConfirmationIsFinal == Spec => ConfirmedDeletionsStay
<1> DEFINE Inv == Typed /\ Requested
<1>1. Init => Inv
  BY InitTyped, InitRequested
<1>2. Inv /\ [Next]_vars => Inv'
  BY NextTyped, NextRequested
<1>3. Inv /\ [Next]_vars => [\A h \in Deletions : Confirmed(h) => Confirmed(h)']_vars
  BY NextRequested DEF Stands
<1> QED
  BY <1>1, <1>2, <1>3, PTL DEF Spec, ConfirmedDeletionsStay

-----------------------------------------------------------------------------
(* Documents *)

Guarded == Kept /\ Backed /\ Promised

(* Without a confirmed request the household exists. *)
LEMMA NotDoomed ==
    ASSUME Requested, Stands
    PROVE  /\ ~Doomed' => ~Doomed
           /\ ~Doomed => alive
BY DEF Doomed, Stands, Requested

(* A step that leaves documents and their objects alone, starts no upload  *)
(* or deletion, and selects no document for the cleanup.                   *)
LEMMA DocumentsUntouched ==
    ASSUME Typed, Requested, Guarded, Stands,
           alive' = alive, promised' = promised,
           \A d \in Docs : doc'[d].status = doc[d].status /\ (d \in objects' <=> d \in objects),
           \A p \in Processes : task'[p].does \in {"upload", "delete"} => task'[p] = task[p],
           \A p \in Processes :
              task'[p].does = "purge" /\ task'[p].at \in {"list_exports", "remove"}
                 => promised \cap objects \subseteq task'[p].keys,
           \A r \in sweep'.rows : r.row \in Docs => r \in sweep.rows /\ sweep'.phase = sweep.phase,
           \A r \in sweep'.hand : r.row \in Docs => r \in sweep.hand /\ sweep'.phase = sweep.phase
    PROVE  Guarded'
<1> USE DEF Guarded
<1>1. Clients \subseteq Processes /\ promised \subseteq Docs
  BY DEF Processes, Typed, RowsTyped
<1>2. \A p \in Clients : task[p].does \in {"upload", "delete"} => task[p].of \in Docs
  BY <1>1 DEF Typed, TaskTyped
<1>3. Kept'
  BY <1>1, <1>2 DEF Kept, Settled
<1>4. Backed'
  BY <1>1, <1>2, NotDoomed DEF Backed, Withdrawn, Listed, At
<1>5. Promised'
  BY <1>1 DEF Promised, Settled, DeletionTakesTheDocuments
<1> QED
  BY <1>3, <1>4, <1>5

LEMMA UploadGuarded ==
    ASSUME Typed, Requested, Guarded, Stands, NEW c \in Clients,
           \/ \E d \in Docs : BeginUpload(c, d)
           \/ InsertDocument(c) \/ StoreDocument(c) \/ StoreDocumentFails(c) \/ MarkDocument(c)
    PROVE  Guarded'
<1> USE DEF Guarded
<1>1. /\ Clients \subseteq Processes /\ promised \subseteq Docs /\ task \in [Processes -> Tasks]
      /\ doc \in [Docs -> DocRows] /\ task[c] \in Tasks
  BY DEF Processes, Typed, RowsTyped
<1>2. \A p \in Clients : task[p].does \in {"upload", "delete"} => task[p].of \in Docs
  BY <1>1 DEF Typed, TaskTyped
<1>3. ASSUME NEW d \in Docs, BeginUpload(c, d) PROVE Guarded'
  <2>1. /\ UNCHANGED <<alive, doc, objects, sweep, promised, deletion>> /\ alive
        /\ task'[c].does = "upload" /\ task'[c].of = d /\ task'[c].at = "insert"
        /\ \A p \in Processes \ {c} : task'[p] = task[p]
        /\ doc[d].status = "absent" /\ \A p \in Clients : task[p].of # d
    BY <1>1, <1>3 DEF BeginUpload, Idle, Do
  <2>2. Kept'
    BY <1>1, <1>2, <2>1 DEF Kept, Settled
  <2>3. Backed'
    BY <1>1, <1>2, <2>1, NotDoomed DEF Backed, Withdrawn, Listed, At
  <2>4. Promised'
    BY <1>1, <2>1 DEF Promised, Settled, DeletionTakesTheDocuments
  <2> QED
    BY <2>2, <2>3, <2>4
<1>4. CASE InsertDocument(c)
  <2>1. PICK d \in Docs : d = task[c].of
    BY <1>2, <1>4 DEF InsertDocument, At
  <2>2. /\ UNCHANGED <<alive, objects, sweep, promised, deletion>> /\ alive
        /\ task[c].does = "upload" /\ task[c].at = "insert"
        /\ task'[c].does = "upload" /\ task'[c].of = d /\ task'[c].at = "store"
        /\ \A p \in Processes \ {c} : task'[p] = task[p]
        /\ doc'[d].status = "pending" /\ \A x \in Docs \ {d} : doc'[x] = doc[x]
    BY <1>1, <1>4, <2>1 DEF InsertDocument, Do, At, Tasks, DocRows
  <2>3. doc[d].status = "absent" /\ d \notin objects
    BY <2>1, <2>2 DEF Kept
  <2>4. Kept'
    BY <1>1, <1>2, <2>1, <2>2, <2>3 DEF Kept, Settled
  <2>5. Backed'
    BY <1>1, <1>2, <2>1, <2>2, <2>3, NotDoomed DEF Backed, Withdrawn, Listed, At
  <2>6. Promised'
    BY <1>1, <2>1, <2>2, <2>3 DEF Promised, Settled, DeletionTakesTheDocuments
  <2> QED
    BY <2>4, <2>5, <2>6
<1>5. CASE StoreDocument(c) \/ StoreDocumentFails(c)
  <2>1. PICK d \in Docs : d = task[c].of
    BY <1>2, <1>5 DEF StoreDocument, StoreDocumentFails, At
  <2>2. /\ UNCHANGED <<alive, doc, sweep, promised, deletion>>
        /\ task[c].does = "upload" /\ task[c].at = "store"
        /\ task'[c].does = "upload" /\ task'[c].of = d /\ task'[c].at \in {"stored", "refused"}
        /\ \A p \in Processes \ {c} : task'[p] = task[p]
        /\ objects' = objects \cup {d} \/ (objects' = objects /\ task'[c].at = "refused")
    BY <1>1, <1>5, <2>1 DEF StoreDocument, StoreDocumentFails, PossiblyStored, Stored, Do, At, Tasks
  <2>3. (alive => doc[d].status = "pending") /\ d \notin promised
    BY <2>1, <2>2 DEF Kept, Promised
  <2>4. Kept'
    BY <1>1, <1>2, <2>1, <2>2, <2>3 DEF Kept, Settled
  <2>5. Backed'
    BY <1>1, <1>2, <2>1, <2>2, <2>3, NotDoomed DEF Backed, Withdrawn, Listed, At
  <2>6. Promised'
    BY <1>1, <2>1, <2>2, <2>3 DEF Promised, Settled, DeletionTakesTheDocuments
  <2> QED
    BY <2>4, <2>5, <2>6
<1>6. CASE MarkDocument(c)
  <2>1. PICK d \in Docs : d = task[c].of
    BY <1>2, <1>6 DEF MarkDocument
  <2>2. /\ UNCHANGED <<alive, objects, sweep, promised, deletion>>
        /\ task[c].does = "upload" /\ task[c].at \in {"stored", "refused"}
        /\ task'[c].does = "nothing"
        /\ \A p \in Processes \ {c} : task'[p] = task[p]
        /\ doc'[d].status = "available" => task[c].at = "stored" \/ doc[d].status = "available"
        /\ Exists(doc[d]) => doc'[d].status \in {"available", "failed"}
        /\ \A x \in Docs \ {d} : doc'[x] = doc[x]
    BY <1>1, <1>6, <2>1 DEF MarkDocument, SetStatus, Updated, Do, Idle, DocRows
  <2>3. (alive => doc[d].status = "pending") /\ d \notin promised
    BY <2>1, <2>2 DEF Kept, Promised
  <2>4. Kept'
    BY <1>1, <1>2, <2>1, <2>2, <2>3 DEF Kept, Settled, Exists
  <2>5. Backed'
    BY <1>1, <1>2, <2>1, <2>2, <2>3, NotDoomed DEF Backed, Withdrawn, Listed, At, Kept, Settled
  <2>6. Promised'
    BY <1>1, <2>1, <2>2, <2>3 DEF Promised, Settled, DeletionTakesTheDocuments
  <2> QED
    BY <2>4, <2>5, <2>6
<1> QED
  BY <1>3, <1>4, <1>5, <1>6

LEMMA DeleteGuarded ==
    ASSUME Typed, Requested, Guarded, Stands, NEW c \in Clients,
           \/ \E d \in Docs : BeginDelete(c, d)
           \/ MarkDeletePending(c) \/ RemoveDocument(c) \/ MarkDeleted(c)
    PROVE  Guarded'
<1> USE DEF Guarded
<1>1. /\ Clients \subseteq Processes /\ promised \subseteq Docs /\ task \in [Processes -> Tasks]
      /\ doc \in [Docs -> DocRows] /\ task[c] \in Tasks
  BY DEF Processes, Typed, RowsTyped
<1>2. \A p \in Clients : task[p].does \in {"upload", "delete"} => task[p].of \in Docs
  BY <1>1 DEF Typed, TaskTyped
<1>3. ASSUME NEW d \in Docs, BeginDelete(c, d) PROVE Guarded'
  <2>1. /\ UNCHANGED <<alive, doc, objects, sweep, promised, deletion>> /\ alive
        /\ task'[c].does = "delete" /\ task'[c].of = d /\ task'[c].at = "claim"
        /\ \A p \in Processes \ {c} : task'[p] = task[p]
        /\ doc[d].status \in {"available", "delete_pending"}
    BY <1>1, <1>3 DEF BeginDelete, Idle, Do
  <2>2. Kept'
    BY <1>1, <1>2, <2>1 DEF Kept, Settled
  <2>3. Backed'
    BY <1>1, <1>2, <2>1, NotDoomed DEF Backed, Withdrawn, Listed, At
  <2>4. Promised'
    BY <1>1, <2>1 DEF Promised, Settled, DeletionTakesTheDocuments
  <2> QED
    BY <2>2, <2>3, <2>4
<1>4. CASE MarkDeletePending(c)
  <2>1. PICK d \in Docs : d = task[c].of
    BY <1>2, <1>4 DEF MarkDeletePending, At
  <2>2. /\ UNCHANGED <<alive, objects, sweep, promised, deletion>>
        /\ task[c].does = "delete"
        /\ task'[c].does = "delete" /\ task'[c].of = d /\ task'[c].at = "remove"
        /\ \A p \in Processes \ {c} : task'[p] = task[p]
        /\ IF Exists(doc[d]) THEN doc'[d].status = "delete_pending" ELSE doc'[d] = doc[d]
        /\ \A x \in Docs \ {d} : doc'[x] = doc[x]
    BY <1>1, <1>4, <2>1 DEF MarkDeletePending, SetStatus, Updated, Do, At, Tasks, DocRows
  <2>3. alive => Settled(d)
    BY <2>1, <2>2 DEF Kept
  <2>4. Kept'
    BY <1>1, <1>2, <2>1, <2>2, <2>3 DEF Kept, Settled, Exists
  <2>5. Backed'
    BY <1>1, <1>2, <2>1, <2>2, <2>3, NotDoomed DEF Backed, Withdrawn, Listed, At, Kept, Settled, Exists
  <2>6. Promised'
    BY <1>1, <2>1, <2>2, <2>3 DEF Promised, Settled, Exists, DeletionTakesTheDocuments
  <2> QED
    BY <2>4, <2>5, <2>6
<1>5. CASE RemoveDocument(c)
  <2>1. PICK d \in Docs : d = task[c].of
    BY <1>2, <1>5 DEF RemoveDocument, At
  <2>2. /\ UNCHANGED <<alive, doc, sweep, promised, deletion>>
        /\ task[c].does = "delete" /\ task[c].at = "remove"
        /\ task'[c].does = "delete" /\ task'[c].of = d /\ task'[c].at = "stored"
        /\ \A p \in Processes \ {c} : task'[p] = task[p]
        /\ objects' = objects \ {d}
    BY <1>1, <1>5, <2>1 DEF RemoveDocument, Dropped, Do, At, Tasks
  <2>3. (alive => Settled(d)) /\ (~Doomed => Withdrawn(d))
    BY <2>1, <2>2 DEF Kept, Backed
  <2>4. Kept'
    BY <1>1, <1>2, <2>1, <2>2, <2>3 DEF Kept, Settled
  <2>5. Backed'
    BY <1>1, <1>2, <2>1, <2>2, <2>3, NotDoomed DEF Backed, Withdrawn, Listed, At, Kept, Settled
  <2>6. Promised'
    BY <1>1, <2>1, <2>2, <2>3 DEF Promised, Settled, DeletionTakesTheDocuments
  <2> QED
    BY <2>4, <2>5, <2>6
<1>6. CASE MarkDeleted(c)
  <2>1. PICK d \in Docs : d = task[c].of
    BY <1>2, <1>6 DEF MarkDeleted, At
  <2>2. /\ UNCHANGED <<alive, objects, sweep, promised, deletion>>
        /\ task[c].does = "delete" /\ task[c].at = "stored" /\ task'[c].does = "nothing"
        /\ \A p \in Processes \ {c} : task'[p] = task[p]
        /\ IF Exists(doc[d]) THEN doc'[d].status = "deleted" ELSE doc'[d] = doc[d]
        /\ \A x \in Docs \ {d} : doc'[x] = doc[x]
    BY <1>1, <1>6, <2>1 DEF MarkDeleted, Updated, Do, At, Idle, DocRows
  <2>3. alive => Settled(d) /\ d \notin objects
    BY <2>1, <2>2 DEF Kept
  <2>4. Kept'
    BY <1>1, <1>2, <2>1, <2>2, <2>3 DEF Kept, Settled, Exists
  <2>5. Backed'
    BY <1>1, <1>2, <2>1, <2>2, <2>3, NotDoomed DEF Backed, Withdrawn, Listed, At, Kept, Settled, Exists
  <2>6. Promised'
    BY <1>1, <2>1, <2>2, <2>3 DEF Promised, Settled, Exists, DeletionTakesTheDocuments
  <2> QED
    BY <2>4, <2>5, <2>6
<1> QED
  BY <1>3, <1>4, <1>5, <1>6

LEMMA RequestGuarded ==
    ASSUME Typed, Requested, Guarded, Stands, Request
    PROVE  Guarded'
<1> USE DEF Guarded
<1>1. \A p \in Processes :
         task[p].does = "purge" /\ task[p].at \in {"list_exports", "remove"}
            => promised \cap objects \subseteq task[p].keys
  BY DEF Promised
<1>2. CASE \/ \E r \in ConsentRequests : RecordConsent(r)
           \/ \E e \in Exports : CreateExport(e)
           \/ \E h \in Deletions : CreateDeletion(h)
  <2>1. UNCHANGED <<alive, doc, objects, task, sweep, promised>>
    BY <1>2 DEF RecordConsent, CreateExport, CreateDeletion
  <2> QED
    BY <1>1, <2>1, DocumentsUntouched
<1>3. ASSUME NEW h \in Deletions, ConfirmDeletion(h) PROVE Guarded'
  <2>1. /\ UNCHANGED <<alive, doc, objects, task, sweep>> /\ alive
        /\ promised' = {d \in Docs : Listed(d)}
        /\ deletion[h].status = "pending" /\ deletion'[h].status = "queued"
    BY <1>3 DEF ConfirmDeletion, Typed, RowsTyped, DeletionRows
  <2>2. \A p \in Processes : task[p].does # "purge"
    <3>1. ASSUME NEW p \in Processes, task[p].does = "purge" PROVE FALSE
      <4>1. task[p].of \in Deletions /\ Confirmed(task[p].of)
        BY <3>1 DEF Requested, Typed, TaskTyped
      <4>2. task[p].of = h
        BY <2>1, <4>1 DEF Requested, Current, Unresolved
      <4> QED
        BY <2>1, <4>1, <4>2 DEF Confirmed
    <3> QED
      BY <3>1
  <2>3. Doomed'
    BY <2>1 DEF Doomed, Confirmed
  <2>4. Kept'
    BY <2>1 DEF Kept, Settled
  <2>5. \A p \in Clients : task[p].does = "upload" => doc[task[p].of].status \in {"absent", "pending"}
    BY <2>1 DEF Kept
  <2>6. Promised'
    BY <2>1, <2>2, <2>5 DEF Promised, Settled, Listed, DeletionTakesTheDocuments
  <2> QED
    BY <2>3, <2>4, <2>6 DEF Backed
<1> QED
  BY <1>2, <1>3 DEF Request

LEMMA ExportGuarded ==
    ASSUME Typed, Requested, Guarded, Stands, NEW w \in Workers,
           \/ \E e \in Exports : DeliverExport(w, e)
           \/ ClaimExport(w) \/ StoreArtifact(w) \/ StoreArtifactFails(w) \/ CompleteExport(w) \/ FailExport(w)
    PROVE  Guarded'
<1>1. /\ task \in [Processes -> Tasks] /\ w \in Processes /\ task[w] \in Tasks
      /\ \A p \in Processes : task[p].does = "purge" /\ task[p].at \in {"list_exports", "remove"}
            => promised \cap objects \subseteq task[p].keys
  BY DEF Typed, Processes, Guarded, Promised
<1>2. UNCHANGED <<alive, doc, sweep, promised>>
  BY DEF DeliverExport, ClaimExport, StoreArtifact, StoreArtifactFails, CompleteExport, FailExport
<1>3. \A d \in Docs : d \in objects' <=> d \in objects
  <2>1. uploads + 1 \notin Docs
    BY RowIdsAreDistinct DEF Typed, RowsTyped
  <2>2. \A d \in Docs : d # uploads + 1
    BY <2>1
  <2> QED
    <3>1. objects' = objects \/ objects' = objects \cup {uploads + 1}
      BY DEF DeliverExport, ClaimExport, StoreArtifact, StoreArtifactFails, CompleteExport, FailExport,
             ArtifactKey, PossiblyStored, Stored
    <3> QED
      BY <2>2, <3>1
<1>4. task'[w].does \in {"export", "nothing"} /\ \A p \in Processes \ {w} : task'[p] = task[p]
  <2>1. CASE \E e \in Exports : DeliverExport(w, e)
    BY <1>1, <2>1 DEF DeliverExport, Idle, Do
  <2>2. CASE ClaimExport(w) \/ StoreArtifact(w) \/ StoreArtifactFails(w)
    BY ZenonT(30), <1>1, <2>2 DEF ClaimExport, StoreArtifact, StoreArtifactFails, At, Tasks, Do
  <2>3. CASE CompleteExport(w) \/ FailExport(w)
    BY <1>1, <2>3 DEF CompleteExport, FailExport, Do, Idle
  <2> QED
    BY <2>1, <2>2, <2>3
<1> QED
  BY <1>1, <1>2, <1>3, <1>4, DocumentsUntouched

LEMMA PurgeGuarded ==
    ASSUME Typed, Requested, Guarded, Stands, NEW w \in Workers,
           \/ \E h \in Deletions : DeliverDeletion(w, h)
           \/ ClaimDeletion(w) \/ ListDocuments(w) \/ ListExports(w) \/ RemoveObject(w) \/ RemoveObjectFails(w)
           \/ FailDeletion(w) \/ PurgeHousehold(w)
    PROVE  Guarded'
<1>1. /\ task \in [Processes -> Tasks] /\ w \in Processes /\ task[w] \in Tasks
      /\ promised \subseteq Docs /\ Clients \subseteq Processes /\ doc \in [Docs -> DocRows]
      /\ \A p \in Processes : task[p].does = "purge" /\ task[p].at \in {"list_exports", "remove"}
            => promised \cap objects \subseteq task[p].keys
  BY DEF Typed, RowsTyped, Processes, Guarded, Promised
<1>2. CASE \/ \E h \in Deletions : DeliverDeletion(w, h)
           \/ ClaimDeletion(w) \/ RemoveObjectFails(w) \/ FailDeletion(w)
  <2>1. UNCHANGED <<alive, doc, objects, sweep, promised>>
    BY <1>2 DEF DeliverDeletion, ClaimDeletion, RemoveObjectFails, FailDeletion
  <2>2. /\ task'[w].does \in {"purge", "nothing"} /\ task'[w].at \notin {"list_exports", "remove"}
        /\ \A p \in Processes \ {w} : task'[p] = task[p]
    <3>1. CASE \E h \in Deletions : DeliverDeletion(w, h)
      BY <1>1, <3>1 DEF DeliverDeletion, Idle, Do
    <3>2. CASE ClaimDeletion(w) \/ RemoveObjectFails(w)
      BY <1>1, <3>2 DEF ClaimDeletion, RemoveObjectFails, At, Tasks, Do
    <3>3. CASE FailDeletion(w)
      BY <1>1, <3>3 DEF FailDeletion, Do, Idle
    <3> QED
      BY <1>2, <3>1, <3>2, <3>3
  <2> QED
    BY <1>1, <2>1, <2>2, DocumentsUntouched
<1>3. CASE ListDocuments(w)
  <2>1. UNCHANGED <<alive, doc, objects, sweep, promised>>
    BY <1>3 DEF ListDocuments
  <2>2. /\ task'[w].does = "purge" /\ task'[w].keys = {d \in Docs : Exists(doc[d])}
        /\ \A p \in Processes \ {w} : task'[p] = task[p]
    BY <1>1, <1>3 DEF ListDocuments, At, Tasks, Do
  <2>3. promised \cap objects \subseteq {d \in Docs : Exists(doc[d])}
    BY <1>1 DEF Guarded, Kept, Promised, DeletionTakesTheDocuments, Exists
  <2> QED
    BY <1>1, <2>1, <2>2, <2>3, DocumentsUntouched
<1>4. CASE ListExports(w)
  <2>1. UNCHANGED <<alive, doc, objects, sweep, promised>>
    BY <1>4 DEF ListExports
  <2>2. /\ task'[w].does = "purge" /\ task[w].keys \subseteq task'[w].keys
        /\ task[w].does = "purge" /\ task[w].at = "list_exports"
        /\ \A p \in Processes \ {w} : task'[p] = task[p]
    BY <1>1, <1>4 DEF ListExports, At, Tasks, Do
  <2> QED
    BY <1>1, <2>1, <2>2, DocumentsUntouched
<1>5. CASE RemoveObject(w)
  <2>1. PICK k \in task[w].keys : Dropped(k) /\ Do(w, [task[w] EXCEPT !.keys = @ \ {k}])
    BY <1>5 DEF RemoveObject
  <2>2. /\ UNCHANGED <<alive, doc, sweep, promised, deletion>>
        /\ task[w].does = "purge" /\ task[w].at = "remove" /\ objects' = objects \ {k}
        /\ task'[w].does = "purge" /\ task'[w].keys = task[w].keys \ {k}
        /\ \A p \in Processes \ {w} : task'[p] = task[p]
    BY <1>1, <1>5, <2>1 DEF RemoveObject, Dropped, Do, At, Tasks
  <2>3. Doomed'
    BY <1>1, <2>2 DEF Doomed, Confirmed, Requested, Typed, TaskTyped
  <2>4. Kept'
    BY <1>1, <2>2 DEF Guarded, Kept, Settled
  <2>5. Promised'
    BY <1>1, <2>2 DEF Guarded, Promised, Settled, DeletionTakesTheDocuments
  <2> QED
    BY <2>3, <2>4, <2>5 DEF Guarded, Backed
<1>6. CASE PurgeHousehold(w)
  <2>1. /\ UNCHANGED <<objects, sweep, promised>> /\ ~alive'
        /\ task[w].does = "purge" /\ task[w].at = "remove" /\ task[w].keys = {}
        /\ task'[w].does = "nothing" /\ \A p \in Processes \ {w} : task'[p] = task[p]
        /\ \A d \in Docs : doc'[d].status = IF Exists(doc[d]) THEN "removed" ELSE doc[d].status
    BY <1>1, <1>6 DEF PurgeHousehold, Removed, SetStatus, Updated, Do, At, Idle, DocRows
  <2>2. promised \cap objects = {}
    BY <1>1, <2>1
  <2>3. Doomed'
    <3>1. task[w].of \in Deletions
      BY <1>1, <2>1 DEF Typed, TaskTyped
    <3>2. PICK h \in Deletions : h = task[w].of
      BY <3>1
    <3>3. deletion'[h].status = "completed"
      BY <1>6, <3>2 DEF PurgeHousehold, Typed, RowsTyped, DeletionRows
    <3> QED
      BY <3>3 DEF Doomed, Confirmed
  <2>4. Promised'
    BY <1>1, <2>1, <2>2 DEF Guarded, Promised, Settled, Exists, DeletionTakesTheDocuments
  <2> QED
    BY <2>1, <2>3, <2>4 DEF Guarded, Kept, Backed
<1> QED
  BY <1>2, <1>3, <1>4, <1>5, <1>6

LEMMA CleanupGuarded ==
    ASSUME Typed, Requested, Guarded, Stands, Cleanup
    PROVE  Guarded'
<1>1. /\ RowsTyped /\ SweepTyped /\ doc \in [Docs -> DocRows] /\ promised \subseteq Docs /\ Clients \subseteq Processes
      /\ \A p \in Processes : task[p].does = "purge" /\ task[p].at \in {"list_exports", "remove"}
            => promised \cap objects \subseteq task[p].keys
      /\ \A p \in Clients : task[p].does \in {"upload", "delete"} => task[p].of \in Docs
  BY DEF Typed, RowsTyped, TaskTyped, Processes, Guarded, Promised
<1>2. CASE SelectRows
  <2>1. PICK p \in sweep.phase + 1..5 : sweep' = [phase |-> p, rows |-> Select(SweepPhases[p]), hand |-> {}]
    <3>1. Len(SweepPhases) = 5
      BY DEF SweepPhases
    <3> QED
      BY <1>2, <3>1 DEF SelectRows
  <2>2. p \in 1..5
    BY <1>1 DEF SweepTyped
  <2>3. UNCHANGED <<alive, doc, objects, task, promised, deletion>> /\ sweep'.hand = {} /\ sweep'.phase = p
    BY <1>2, <2>1 DEF SelectRows
  <2>4. \A r \in sweep'.rows :
           r.row \in Docs => r.row \in DueTombstones \cup DueOrphans /\ (p = 3 => r.row \in DueTombstones)
    BY <1>1, <2>1, <2>2, SelectionTyped
  <2>5. \A r \in sweep'.rows :
           r.row \in Docs => /\ Settled(r.row) /\ Withdrawn(r.row)
                             /\ p = 3 => doc[r.row].status = "deleted"
    BY <2>4 DEF DueTombstones, DueOrphans, Settled, Withdrawn
  <2>6. Kept'
    BY <1>1, <2>3, <2>5 DEF Guarded, Kept, Settled
  <2>7. Backed'
    BY <1>1, <2>3, <2>5, NotDoomed DEF Guarded, Backed, Withdrawn, Listed, At
  <2>8. Promised'
    BY <1>1, <2>3 DEF Guarded, Promised, Settled, DeletionTakesTheDocuments
  <2> QED
    BY <2>6, <2>7, <2>8 DEF Guarded
<1>3. CASE SweepObject
  <2>1. PICK r \in sweep.rows :
          /\ Dropped(r.key)
          /\ sweep' = [sweep EXCEPT !.rows = @ \ {r}, !.hand = {r} \ [row : Docs, key : Keys, status : {"failed"}]]
    BY <1>3 DEF SweepObject
  <2>2. /\ UNCHANGED <<alive, doc, task, promised, deletion>> /\ objects' = objects \ {r.key}
        /\ sweep'.phase = sweep.phase /\ sweep'.rows = sweep.rows \ {r} /\ sweep'.hand \subseteq {r}
    BY <1>1, <1>3, <2>1 DEF SweepObject, Dropped, SweepTyped
  <2>3. /\ r.row \in Docs => r.key = r.row /\ (alive => Settled(r.row)) /\ (~Doomed => Withdrawn(r.row))
        /\ r.row \notin Docs => r.key \notin Docs
    BY <1>1, RowIdsAreDistinct DEF SweepTyped, Guarded, Kept, Backed
  <2>4. Kept'
    BY <1>1, <2>2, <2>3 DEF Guarded, Kept, Settled
  <2>5. Backed'
    BY <1>1, <2>2, <2>3, NotDoomed DEF Guarded, Backed, Withdrawn, Listed, At, Kept, Settled
  <2>6. Promised'
    BY <1>1, <2>2 DEF Guarded, Promised, Settled, DeletionTakesTheDocuments
  <2> QED
    BY <2>4, <2>5, <2>6 DEF Guarded
<1>4. CASE SweepObjectFails \/ ExpireExport
  <2>1. UNCHANGED <<alive, doc, objects, task, promised>>
    BY <1>4 DEF SweepObjectFails, ExpireExport
  <2>2. sweep'.rows \subseteq sweep.rows /\ sweep'.hand \subseteq sweep.hand /\ sweep'.phase = sweep.phase
    BY <1>1, <1>4 DEF SweepObjectFails, ExpireExport, SweepTyped
  <2> QED
    BY <1>1, <2>1, <2>2, DocumentsUntouched
<1>5. CASE FinishDocument
  <2>1. PICK r \in sweep.hand : doc' = [doc EXCEPT ![r.row] = SetStatus(@, "deleted")]
    BY <1>5 DEF FinishDocument
  <2>2. /\ UNCHANGED <<alive, objects, task, promised, deletion>>
        /\ sweep'.phase = sweep.phase /\ sweep'.rows = sweep.rows /\ sweep'.hand = {}
        /\ \A d \in Docs : doc'[d].status = IF d = r.row /\ Exists(doc[d]) THEN "deleted" ELSE doc[d].status
    BY <1>1, <1>5, <2>1 DEF FinishDocument, SweepTyped, SetStatus, Updated, DocRows
  <2>3. r.row \in Docs /\ alive => Settled(r.row) /\ r.row \notin objects
    BY <1>1 DEF Guarded, Kept
  <2>4. Kept'
    BY <1>1, <2>2, <2>3 DEF Guarded, Kept, Settled, Exists
  <2>5. Backed'
    BY <1>1, <2>2, <2>3, NotDoomed DEF Guarded, Backed, Withdrawn, Listed, At, Exists
  <2>6. Promised'
    BY <1>1, <2>2 DEF Guarded, Promised, Settled, Exists, DeletionTakesTheDocuments
  <2> QED
    BY <2>4, <2>5, <2>6 DEF Guarded
<1>6. CASE DeleteRows
  <2> DEFINE ids == {r.row : r \in sweep.rows}
  <2>1. doc' = [d \in Docs |-> IF d \in ids THEN SetStatus(doc[d], "removed") ELSE doc[d]]
    BY <1>6 DEF DeleteRows
  <2>2. /\ UNCHANGED <<alive, objects, task, promised>>
        /\ sweep.phase \in {2, 3, 4} /\ sweep'.phase = sweep.phase /\ sweep'.rows = {} /\ sweep'.hand = sweep.hand
    BY <1>1, <1>6, PhaseNames DEF DeleteRows, SweepTyped
  <2>3. \A d \in ids : d \in Docs /\ alive => Settled(d) /\ d \notin objects
    BY <1>1, <2>2 DEF Guarded, Kept, SweepTyped
  <2> HIDE DEF ids
  <2>4. \A d \in Docs : doc'[d].status = IF d \in ids /\ Exists(doc[d]) THEN "removed" ELSE doc[d].status
    BY <1>1, <2>1 DEF SetStatus, Updated, DocRows
  <2>5. Kept'
    BY <1>1, <2>2, <2>3, <2>4 DEF Guarded, Kept, Settled, Exists
  <2>6. Backed'
    BY <1>1, <2>2, <2>3, <2>4, NotDoomed DEF Guarded, Backed, Withdrawn, Listed, At, Exists
  <2>7. Promised'
    BY <1>1, <2>2, <2>4 DEF Guarded, Promised, Settled, Exists, DeletionTakesTheDocuments
  <2> QED
    BY <2>5, <2>6, <2>7 DEF Guarded
<1> QED
  BY <1>2, <1>3, <1>4, <1>5, <1>6 DEF Cleanup

LEMMA OtherGuarded ==
    ASSUME Typed, Requested, Guarded, Stands,
           Aging \/ (\E p \in Processes : Crash(p)) \/ EndSweep \/ UNCHANGED vars
    PROVE  Guarded'
<1>1. /\ task \in [Processes -> Tasks] /\ doc \in [Docs -> DocRows]
      /\ \A p \in Processes : task[p].does = "purge" /\ task[p].at \in {"list_exports", "remove"}
            => promised \cap objects \subseteq task[p].keys
  BY DEF Typed, RowsTyped, Guarded, Promised
<1>2. CASE Aging
  <2>1. /\ UNCHANGED <<alive, objects, task, sweep, promised>>
        /\ \A d \in Docs : doc'[d].status = doc[d].status
    <3>1. ASSUME NEW d \in Docs, DocumentAges(d)
          PROVE  /\ UNCHANGED <<alive, objects, task, sweep, promised>>
                 /\ \A x \in Docs : doc'[x].status = doc[x].status
      BY <1>1, <3>1 DEF DocumentAges, DocRows
    <3>2. CASE (\E e \in Exports : ExportAges(e)) \/ (\E h \in Deletions : DeletionAges(h))
      BY <3>2 DEF ExportAges, DeletionAges
    <3> QED
      BY <1>2, <3>1, <3>2 DEF Aging
  <2> QED
    BY <1>1, <2>1, DocumentsUntouched
<1>3. ASSUME NEW p \in Processes, Crash(p) PROVE Guarded'
  <2>1. /\ UNCHANGED <<alive, doc, objects, sweep, promised>>
        /\ task'[p].does = "nothing" /\ \A q \in Processes \ {p} : task'[q] = task[q]
    BY <1>1, <1>3 DEF Crash, Do, Idle
  <2> QED
    BY <1>1, <2>1, DocumentsUntouched
<1>4. CASE EndSweep
  BY <1>1, <1>4, DocumentsUntouched DEF EndSweep, NoSweep
<1>5. CASE UNCHANGED vars
  BY <1>1, <1>5, DocumentsUntouched DEF vars
<1> QED
  BY <1>2, <1>3, <1>4, <1>5

LEMMA InitGuarded == Init => Guarded
<1> SUFFICES ASSUME Init PROVE Guarded
  OBVIOUS
<1>1. /\ alive /\ objects = {} /\ promised = {} /\ sweep.rows = {} /\ sweep.hand = {}
      /\ \A p \in Processes : task[p].does = "nothing"
      /\ \A d \in Docs : ~Listed(d)
  BY DEF Init, NoSweep, Idle, Listed
<1>2. Clients \subseteq Processes
  BY DEF Processes
<1> QED
  BY <1>1, <1>2 DEF Guarded, Kept, Backed, Promised, At, DeletionTakesTheDocuments

-----------------------------------------------------------------------------
(* The invariant *)

LEMMA CustodyHolds == Spec => []Custody
<1>1. Init => Custody
  BY InitTyped, InitRequested, InitGuarded DEF Custody, Guarded
<1>2. Custody /\ [Next]_vars => Custody'
  <2> SUFFICES ASSUME Custody, [Next]_vars PROVE Custody'
    OBVIOUS
  <2>1. Typed /\ Requested /\ Guarded
    BY DEF Custody, Guarded
  <2>2. Typed' /\ Requested' /\ Stands
    BY <2>1, NextTyped, NextRequested
  <2>3. Guarded'
    <3>1. CASE Request
      BY <2>1, <2>2, <3>1, RequestGuarded
    <3>2. ASSUME NEW c \in Clients, Client(c) PROVE Guarded'
      <4>1. CASE \/ \E d \in Docs : BeginUpload(c, d)
                 \/ InsertDocument(c) \/ StoreDocument(c) \/ StoreDocumentFails(c) \/ MarkDocument(c)
        BY <2>1, <2>2, <4>1, UploadGuarded
      <4>2. CASE (\E d \in Docs : BeginDelete(c, d)) \/ MarkDeletePending(c) \/ RemoveDocument(c) \/ MarkDeleted(c)
        BY <2>1, <2>2, <4>2, DeleteGuarded
      <4> QED
        BY <3>2, <4>1, <4>2 DEF Client
    <3>3. ASSUME NEW w \in Workers, Worker(w) PROVE Guarded'
      BY <2>1, <2>2, <3>3, ExportGuarded, PurgeGuarded DEF Worker
    <3>4. CASE Cleanup
      BY <2>1, <2>2, <3>4, CleanupGuarded
    <3>5. CASE Aging \/ (\E p \in Processes : Crash(p)) \/ EndSweep \/ UNCHANGED vars
      BY <2>1, <2>2, <3>5, OtherGuarded
    <3> QED
      BY <3>1, <3>2, <3>3, <3>4, <3>5, NextParts
  <2> QED
    BY <2>2, <2>3 DEF Custody, Guarded
<1> QED
  BY <1>1, <1>2, PTL DEF Spec

(* A listed document can be read: uploads, deletions, the cleanup and      *)
(* their failures never delete the object of a document that is listed.    *)
THEOREM ListedDocumentsCanBeRead == Spec => []AvailableDocumentsHaveTheirObject
<1>1. Custody => AvailableDocumentsHaveTheirObject
  BY DEF Custody, Backed, AvailableDocumentsHaveTheirObject
<1> QED
  BY <1>1, CustodyHolds, PTL

(* No document object is orphaned while the household exists.              *)
THEOREM NoDocumentObjectIsOrphaned == Spec => []DocumentObjectsAreReachable
<1>1. Custody => DocumentObjectsAreReachable
  BY DEF Custody, Kept, DocumentObjectsAreReachable
<1> QED
  BY <1>1, CustodyHolds, PTL

(* Household deletion keeps its promise about documents.                   *)
THEOREM DeletedHouseholdsLeaveNoDocument == Spec => []DeletionTakesTheDocuments
<1>1. Custody => DeletionTakesTheDocuments
  BY DEF Custody, Promised
<1> QED
  BY <1>1, CustodyHolds, PTL

(* Only a new consent record changes the effective consent.                *)
THEOREM ConsentChangesByRecord == Spec => RetriesDoNotUndoConsent
<1>1. [Next]_vars => [consent' # consent => recorded' # recorded]_vars
  <2> SUFFICES ASSUME Next, consent' # consent PROVE recorded' # recorded
    OBVIOUS
  <2>1. PICK r \in ConsentRequests : RecordConsent(r)
    BY DEF Next, CreateExport, CreateDeletion, ConfirmDeletion,
           Client, BeginUpload, BeginDelete, InsertDocument, StoreDocument, StoreDocumentFails, MarkDocument,
           MarkDeletePending, RemoveDocument, MarkDeleted,
           Worker, DeliverExport, ClaimExport, StoreArtifact, StoreArtifactFails, CompleteExport, FailExport,
           DeliverDeletion, ClaimDeletion, ListDocuments, ListExports, RemoveObject, RemoveObjectFails,
           FailDeletion, PurgeHousehold,
           Cleanup, SelectRows, SweepObject, SweepObjectFails, ExpireExport, FinishDocument, DeleteRows,
           Crash, EndSweep, DocumentAges, ExportAges, DeletionAges
  <2> QED
    BY <2>1 DEF RecordConsent
<1> QED
  BY <1>1, PTL DEF Spec, RetriesDoNotUndoConsent

-----------------------------------------------------------------------------
(* Artifacts of exports *)

Shows(e) == Shown(e) = "completed"
Carrying(p) == At(p, "export", "stored")

(* The keys of exports were drawn, and no two exports have the same one.   *)
KeysDiffer ==
    /\ \A e \in Exports : export[e].key <= uploads
    /\ \A e, f \in Exports : export[e].key = export[f].key => e = f \/ export[e].key = 0

(* The key a worker has in hand is stored, and nobody else has it.         *)
HandIsOwn(p) ==
    \A k \in task[p].keys :
        /\ k \in 1..uploads
        /\ ~Doomed => k \in objects
        /\ \A e \in Exports : export[e].key # k
        /\ \A q \in Processes \ {p} : Carrying(q) => k \notin task[q].keys

(* What the cleanup selected is no artifact that is shown or in hand.      *)
Outdated(r) ==
    /\ r.key <= uploads
    /\ \A p \in Processes : Carrying(p) => r.key \notin task[p].keys
    /\ \A e \in Exports : Shows(e) => export[e].key # r.key

Artifacts ==
    /\ KeysDiffer
    /\ \A p \in Processes : Carrying(p) => HandIsOwn(p)
    /\ \A r \in sweep.rows : r.row \in Exports => Outdated(r)
    /\ \A e \in Exports :
          Shows(e) => export[e].key # 0 /\ (~Doomed => export[e].key \in objects)

(* A step that draws no key for an export, takes none up and selects none  *)
(* keeps the artifacts, if it deletes no artifact while it matters.        *)
LEMMA ArtifactsUntouched ==
    ASSUME Typed, Artifacts, Doomed => Doomed', uploads' \in Nat, uploads <= uploads',
           \A e \in Exports :
              /\ export'[e].key \in {export[e].key, 0}
              /\ Shows(e)' => Shows(e) /\ export'[e].key = export[e].key,
           \A p \in Processes : Carrying(p)' => Carrying(p) /\ task'[p] = task[p],
           sweep'.rows \subseteq sweep.rows,
           ~Doomed' => objects \cap Nat \subseteq objects'
    PROVE  Artifacts'
<1>1. /\ uploads \in Nat
      /\ \A e \in Exports : export[e].key \in Nat
      /\ \A p \in Processes : Carrying(p) => task[p].keys \subseteq Nat
  BY DEF Typed, RowsTyped, ExportRows, TaskTyped, Carrying
<1>2. \A r \in sweep.rows : r.row \in Exports => r.key \in Nat
  BY RowIdsAreDistinct DEF Typed, SweepTyped
<1>3. KeysDiffer'
  <2>1. \A e \in Exports : export'[e].key <= uploads'
    BY <1>1 DEF Artifacts, KeysDiffer
  <2>2. \A e, f \in Exports : export'[e].key = export'[f].key => e = f \/ export'[e].key = 0
    BY <1>1 DEF Artifacts, KeysDiffer
  <2> QED
    BY <2>1, <2>2 DEF KeysDiffer
<1>4. ASSUME NEW p \in Processes, Carrying(p)'
      PROVE  HandIsOwn(p)'
  <2>1. Carrying(p) /\ task'[p] = task[p] /\ HandIsOwn(p)
    BY <1>4 DEF Artifacts
  <2> SUFFICES ASSUME NEW k \in task[p].keys
               PROVE  /\ k \in 1..uploads'
                      /\ ~Doomed' => k \in objects'
                      /\ \A e \in Exports : export'[e].key # k
                      /\ \A q \in Processes \ {p} : Carrying(q)' => k \notin task'[q].keys
    BY <2>1 DEF HandIsOwn
  <2>2. k \in 1..uploads /\ k \in Nat \ {0}
    BY <1>1, <2>1 DEF HandIsOwn
  <2> QED
    BY <1>1, <2>1, <2>2 DEF HandIsOwn
<1>5. ASSUME NEW r \in sweep'.rows, r.row \in Exports
      PROVE  Outdated(r)'
  <2>1. r \in sweep.rows /\ Outdated(r) /\ r.key \in Nat
    BY <1>2, <1>5 DEF Artifacts
  <2> QED
    BY <1>1, <2>1 DEF Outdated
<1>6. \A e \in Exports :
         Shows(e)' => export'[e].key # 0 /\ (~Doomed' => export'[e].key \in objects')
  BY <1>1 DEF Artifacts
<1> QED
  BY <1>3, <1>4, <1>5, <1>6 DEF Artifacts

(* The artifact an upload stored has a key nobody has.                     *)
LEMMA StoreArtifactArtifacts ==
    ASSUME Typed, Artifacts, NEW w \in Workers, StoreArtifact(w)
    PROVE  Artifacts'
<1> DEFINE new == uploads + 1
<1>1. /\ uploads \in Nat /\ new \in Nat /\ uploads < new /\ uploads' = new
      /\ \A e \in Exports : export[e].key \in Nat
      /\ \A p \in Processes : Carrying(p) => task[p].keys \subseteq Nat
      /\ task[w] \in Tasks /\ w \in Processes /\ task \in [Processes -> Tasks]
  BY DEF Typed, RowsTyped, ExportRows, TaskTyped, Carrying, Processes, StoreArtifact
<1>2. UNCHANGED <<export, deletion, sweep>> /\ objects' = objects \cup {new}
  BY DEF StoreArtifact, ArtifactKey, Stored
<1>3. task' = [task EXCEPT ![w] = [task[w] EXCEPT !.at = "stored", !.keys = {new}]]
  BY DEF StoreArtifact, ArtifactKey, Do
<1> HIDE DEF new
<1>4. task'[w].keys = {new} /\ \A p \in Processes \ {w} : task'[p] = task[p]
  BY <1>1, <1>3 DEF Tasks
<1>5. \A r \in sweep.rows : r.row \in Exports => r.key \in Nat
  BY RowIdsAreDistinct DEF Typed, SweepTyped
<1>6. KeysDiffer'
  <2>1. \A e \in Exports : export[e].key <= new
    BY <1>1 DEF Artifacts, KeysDiffer
  <2> QED
    BY <1>1, <1>2, <2>1 DEF Artifacts, KeysDiffer
<1>7. ASSUME NEW p \in Processes, p # w, Carrying(p)
      PROVE  \A k \in task[p].keys : k # new /\ k \in 1..new
  BY <1>1, <1>7 DEF Artifacts, HandIsOwn
<1>8. ASSUME NEW p \in Processes, Carrying(p)'
      PROVE  HandIsOwn(p)'
  <2>1. CASE p = w
    <3>1. \A e \in Exports : export[e].key # new
      BY <1>1 DEF Artifacts, KeysDiffer
    <3>2. \A q \in Processes \ {w} : Carrying(q)' => new \notin task'[q].keys
      BY <1>4, <1>7 DEF Carrying, At
    <3>3. new \in 1..new
      BY <1>1
    <3> QED
      BY <1>1, <1>2, <1>4, <2>1, <3>1, <3>2, <3>3 DEF HandIsOwn
  <2>2. CASE p # w
    <3>1. task'[p] = task[p] /\ Carrying(p) /\ HandIsOwn(p)
      BY <1>4, <1>8, <2>2 DEF Carrying, At, Artifacts
    <3>2. \A k \in task[p].keys : k # new /\ k \in 1..new
      BY <1>7, <2>2, <3>1
    <3>3. \A q \in Processes \ {p} :
             Carrying(q)' => q = w \/ (Carrying(q) /\ task'[q] = task[q])
      BY <1>4 DEF Carrying, At
    <3>4. Doomed' <=> Doomed
      BY <1>2 DEF Doomed, Confirmed
    <3> QED
      BY <1>1, <1>2, <1>4, <3>1, <3>2, <3>3, <3>4 DEF HandIsOwn
  <2> QED
    BY <2>1, <2>2
<1>9. ASSUME NEW r \in sweep.rows, r.row \in Exports
      PROVE  Outdated(r)'
  <2>1. Outdated(r) /\ r.key \in Nat
    BY <1>5, <1>9 DEF Artifacts
  <2>2. r.key <= new /\ r.key # new
    BY <1>1, <2>1 DEF Outdated
  <2>3. \A p \in Processes : Carrying(p)' => r.key \notin task'[p].keys
    BY <1>4, <2>1, <2>2 DEF Outdated, Carrying, At
  <2> QED
    BY <1>1, <1>2, <2>1, <2>2, <2>3 DEF Outdated, Shows, Shown
<1>10. \A e \in Exports :
          Shows(e)' => export'[e].key # 0 /\ (~Doomed' => export'[e].key \in objects')
  BY <1>2 DEF Artifacts, Shows, Shown, Doomed, Confirmed
<1> QED
  BY <1>2, <1>6, <1>8, <1>9, <1>10 DEF Artifacts

(* An export that is completed shows the artifact its worker had in hand.  *)
LEMMA CompleteExportArtifacts ==
    ASSUME Typed, Artifacts, NEW w \in Workers, CompleteExport(w)
    PROVE  Artifacts'
<1>1. PICK x : x = task[w].of
  OBVIOUS
<1>2. PICK k : k = CHOOSE c \in task[w].keys : TRUE
  OBVIOUS
<1>3. /\ x \in Exports /\ w \in Processes /\ task \in [Processes -> Tasks] /\ export[x] \in ExportRows
      /\ k \in task[w].keys /\ k \in Nat
  <2>1. w \in Processes /\ At(w, "export", "stored")
    BY DEF CompleteExport, Processes
  <2>2. task[w].of \in Exports /\ task[w].keys # {} /\ task[w].keys \subseteq Nat
    BY <2>1 DEF Typed, TaskTyped, At
  <2>3. k \in task[w].keys
    BY <1>2, <2>2
  <2> QED
    BY <1>1, <2>1, <2>2, <2>3 DEF Typed, RowsTyped
<1>4. /\ uploads \in Nat
      /\ \A e \in Exports : export[e].key \in Nat
      /\ \A p \in Processes : Carrying(p) => task[p].keys \subseteq Nat
  BY DEF Typed, RowsTyped, ExportRows, TaskTyped, Carrying
<1>5. /\ Carrying(w) /\ HandIsOwn(w)
      /\ UNCHANGED <<deletion, objects, uploads, sweep>>
  BY <1>3 DEF CompleteExport, Carrying, Artifacts
<1>6. /\ \A p \in Processes : Carrying(p)' => p # w /\ Carrying(p) /\ task'[p] = task[p]
  BY <1>3 DEF CompleteExport, Do, Idle, Carrying, At
<1>7. /\ \A e \in Exports \ {x} : export'[e] = export[e]
      /\ \/ export'[x] = export[x]
         \/ export'[x] = [export[x] EXCEPT !.status = "completed", !.age = 0, !.key = k]
  BY <1>1, <1>2, <1>3 DEF CompleteExport, Updated, Typed, RowsTyped
<1>8. CASE export'[x] = export[x]
  <2>1. \A e \in Exports : export'[e] = export[e]
    BY <1>7, <1>8
  <2>2. Doomed => Doomed'
    BY <1>5 DEF Doomed, Confirmed
  <2> QED
    BY <1>4, <1>5, <1>6, <2>1, <2>2, ArtifactsUntouched DEF Shows, Shown
<1>9. CASE export'[x] = [export[x] EXCEPT !.status = "completed", !.age = 0, !.key = k]
  <2>1. export'[x].key = k
    BY <1>3, <1>9 DEF ExportRows
  <2>2. /\ k \in 1..uploads /\ (~Doomed => k \in objects)
        /\ \A e \in Exports : export[e].key # k
        /\ \A q \in Processes \ {w} : Carrying(q) => k \notin task[q].keys
    BY <1>3, <1>5 DEF HandIsOwn
  <2>3. k # 0 /\ k <= uploads
    BY <1>4, <2>2
  <2>4. \A e \in Exports \ {x} : Shows(e)' => Shows(e)
    BY <1>7 DEF Shows, Shown
  <2>5. KeysDiffer'
    <3>1. \A e \in Exports : export'[e].key <= uploads
      BY <1>7, <2>1, <2>3 DEF Artifacts, KeysDiffer
    <3>2. \A e, f \in Exports : export'[e].key = export'[f].key => e = f \/ export'[e].key = 0
      BY <1>7, <2>1, <2>2 DEF Artifacts, KeysDiffer
    <3> QED
      BY <1>5, <3>1, <3>2 DEF KeysDiffer
  <2>6. Doomed' <=> Doomed
    BY <1>5 DEF Doomed, Confirmed
  <2>7. ASSUME NEW p \in Processes, Carrying(p)'
        PROVE  HandIsOwn(p)'
    <3>1. p # w /\ Carrying(p) /\ task'[p] = task[p] /\ HandIsOwn(p)
      BY <1>6, <2>7 DEF Artifacts
    <3>2. k \notin task[p].keys
      BY <2>2, <3>1
    <3>3. \A e \in Exports : export'[e].key = export[e].key \/ export'[e].key = k
      BY <1>7, <2>1
    <3> QED
      BY <1>5, <1>6, <2>6, <3>1, <3>2, <3>3 DEF HandIsOwn
  <2>8. ASSUME NEW r \in sweep.rows, r.row \in Exports
        PROVE  Outdated(r)'
    <3>1. Outdated(r) /\ r.key # k
      BY <1>3, <1>5, <2>8 DEF Artifacts, Outdated
    <3> QED
      BY <1>5, <1>6, <1>7, <2>1, <2>4, <3>1 DEF Outdated
  <2>9. \A e \in Exports :
           Shows(e)' => export'[e].key # 0 /\ (~Doomed' => export'[e].key \in objects')
    BY <1>5, <1>7, <2>1, <2>2, <2>3, <2>4, <2>6 DEF Artifacts
  <2> QED
    BY <1>5, <2>5, <2>7, <2>8, <2>9 DEF Artifacts
<1> QED
  BY <1>7, <1>8, <1>9

(* What the cleanup selects in the exports' sweeps.                        *)
LEMMA SelectedArtifact ==
    ASSUME RowsTyped, NEW p \in 1..5, NEW r \in Select(SweepPhases[p]), r.row \in Exports
    PROVE  \/ r.key = 0
           \/ /\ export[r.row].status = "completed" /\ export[r.row].age > 0
              /\ r.key = export[r.row].key
<1>1. CASE p = 1
  <2>1. r \in {[row |-> e, key |-> export[e].key, status |-> "completed"] : e \in DueArtifacts}
    BY <1>1 DEF Select, SweepPhases
  <2>2. PICK e \in DueArtifacts : r = [row |-> e, key |-> export[e].key, status |-> "completed"]
    BY <2>1
  <2> QED
    BY <2>2 DEF DueArtifacts
<1>2. CASE p = 4
  <2>1. r \in {[row |-> e, key |-> 0, status |-> export[e].status] : e \in DueExports}
    BY <1>2 DEF Select, SweepPhases
  <2> QED
    BY <2>1
<1> QED
  BY <1>1, <1>2, SelectionTyped

(* The cleanup selects artifacts that are shown no more.                   *)
LEMMA SelectRowsArtifacts ==
    ASSUME Typed, Artifacts, SelectRows
    PROVE  Artifacts'
<1>1. PICK p \in 1..5 : sweep'.rows = Select(SweepPhases[p])
  <2>1. PICK p \in sweep.phase + 1..Len(SweepPhases) :
           sweep' = [phase |-> p, rows |-> Select(SweepPhases[p]), hand |-> {}]
    BY DEF SelectRows
  <2>2. p \in 1..5 /\ sweep'.rows = Select(SweepPhases[p])
    BY <2>1 DEF SweepPhases, Typed, SweepTyped
  <2> QED
    BY <2>2
<1>2. UNCHANGED <<export, deletion, objects, uploads, task>>
  BY DEF SelectRows
<1>3. /\ uploads \in Nat
      /\ \A e \in Exports : export[e].key \in Nat /\ export[e].age \in 0..2
  BY DEF Typed, RowsTyped, ExportRows
<1>4. ASSUME NEW r \in sweep'.rows, r.row \in Exports
      PROVE  Outdated(r)'
  <2>1. r \in Select(SweepPhases[p])
    BY <1>1, <1>4
  <2>2. CASE r.key = 0
    BY <1>2, <1>3, <2>2 DEF Outdated, Artifacts, HandIsOwn, Carrying, At, Shows, Shown
  <2>3. CASE /\ export[r.row].status = "completed" /\ export[r.row].age > 0
             /\ r.key = export[r.row].key /\ r.key # 0
    <3>1. ~Shows(r.row)
      BY <2>3 DEF Shows, Shown
    <3>2. \A e \in Exports : Shows(e) => export[e].key # r.key
      BY <1>4, <2>3, <3>1 DEF Artifacts, KeysDiffer
    <3>3. \A q \in Processes : Carrying(q) => r.key \notin task[q].keys
      BY <1>4, <2>3 DEF Artifacts, HandIsOwn
    <3>4. r.key <= uploads
      BY <1>4, <2>3 DEF Artifacts, KeysDiffer
    <3> QED
      BY <1>2, <3>2, <3>3, <3>4 DEF Outdated, Shows, Shown, Carrying, At
  <2> QED
    BY <1>4, <2>1, <2>2, <2>3, SelectedArtifact DEF Typed
<1>5. KeysDiffer' /\ (Doomed' <=> Doomed) /\ \A e \in Exports : Shows(e)' <=> Shows(e)
  BY <1>2 DEF Artifacts, KeysDiffer, Doomed, Confirmed, Shows, Shown
<1>6. \A q \in Processes : Carrying(q)' => HandIsOwn(q)'
  BY <1>2, <1>5 DEF Artifacts, HandIsOwn, Carrying, At
<1> QED
  BY <1>2, <1>4, <1>5, <1>6 DEF Artifacts

(* The cleanup deletes the object of a document, or one that is outdated.  *)
LEMMA SweepObjectArtifacts ==
    ASSUME Typed, Artifacts, SweepObject
    PROVE  Artifacts'
<1>1. PICK r \in sweep.rows : objects' = objects \ {r.key} /\ sweep'.rows \subseteq sweep.rows
  <2>1. PICK r \in sweep.rows :
           /\ objects' = objects \ {r.key}
           /\ sweep' = [sweep EXCEPT !.rows = @ \ {r},
                                     !.hand = {r} \ [row : Docs, key : Keys, status : {"failed"}]]
    BY DEF SweepObject, Dropped
  <2>2. sweep'.rows = sweep.rows \ {r}
    BY <2>1 DEF Typed, SweepTyped
  <2> QED
    BY <2>1, <2>2
<1>2. UNCHANGED <<export, deletion, uploads, task>>
  BY DEF SweepObject
<1>3. /\ uploads \in Nat /\ \A e \in Exports : export[e].key \in Nat
      /\ \A p \in Processes : Carrying(p) => task[p].keys \subseteq Nat
  BY DEF Typed, RowsTyped, ExportRows, TaskTyped, Carrying
<1>4. CASE r.row \notin Exports
  <2>1. r.row \in Docs
    <3>1. sweep.phase \in {1, 5}
      BY PhaseNames DEF SweepObject, Typed
    <3>2. r \in Selections
      BY DEF Typed, SweepTyped
    <3> QED
      BY <1>4, <3>1, <3>2 DEF Typed, SweepTyped, Selections, Ids
  <2>2. r.key \notin Nat
    BY <2>1, RowIdsAreDistinct DEF Typed, SweepTyped
  <2>3. objects \cap Nat \subseteq objects'
    BY <1>1, <2>2
  <2>4. Doomed => Doomed'
    BY <1>2 DEF Doomed, Confirmed
  <2> QED
    BY <1>1, <1>2, <1>3, <2>3, <2>4, ArtifactsUntouched DEF Shows, Shown, Carrying, At
<1>5. CASE r.row \in Exports
  <2>1. Outdated(r)
    BY <1>5 DEF Artifacts
  <2>2. KeysDiffer' /\ (Doomed' <=> Doomed) /\ \A e \in Exports : Shows(e)' <=> Shows(e)
    BY <1>2 DEF Artifacts, KeysDiffer, Doomed, Confirmed, Shows, Shown
  <2>3. \A p \in Processes : Carrying(p)' <=> Carrying(p)
    BY <1>2 DEF Carrying, At
  <2>4. ASSUME NEW p \in Processes, Carrying(p)
        PROVE  HandIsOwn(p)'
    <3>1. HandIsOwn(p) /\ r.key \notin task[p].keys
      BY <2>1, <2>4 DEF Artifacts, Outdated
    <3> QED
      BY <1>1, <1>2, <2>2, <2>3, <3>1 DEF HandIsOwn
  <2>5. ASSUME NEW s \in sweep.rows, s.row \in Exports
        PROVE  Outdated(s)'
    BY <1>2, <2>2, <2>3, <2>5 DEF Artifacts, Outdated
  <2>6. \A e \in Exports :
           Shows(e)' => export'[e].key # 0 /\ (~Doomed' => export'[e].key \in objects')
    BY <1>1, <1>2, <2>1, <2>2 DEF Artifacts, Outdated
  <2> QED
    BY <1>1, <2>2, <2>3, <2>4, <2>5, <2>6 DEF Artifacts
<1> QED
  BY <1>4, <1>5

(* A confirmed deletion stays confirmed. *)
LEMMA DoomStays == Stands => (Doomed => Doomed')
BY DEF Stands, Doomed

(* Requests and clients neither draw nor take up an artifact.              *)
LEMMA RequestArtifacts ==
    ASSUME Typed, Artifacts, Stands, Request
    PROVE  Artifacts'
<1>1. /\ uploads \in Nat /\ export \in [Exports -> ExportRows]
      /\ UNCHANGED <<objects, uploads, task, sweep>>
  BY DEF Typed, RowsTyped, Request, RecordConsent, CreateExport, CreateDeletion, ConfirmDeletion
<1>2. \A e \in Exports : export'[e].key = export[e].key /\ (Shows(e)' => Shows(e))
  <2>1. CASE UNCHANGED export
    BY <2>1 DEF Shows, Shown
  <2>2. ASSUME NEW x \in Exports, CreateExport(x)
        PROVE  \A e \in Exports : export'[e].key = export[e].key /\ (Shows(e)' => Shows(e))
    BY <1>1, <2>2 DEF CreateExport, ExportRows, Shows, Shown
  <2> QED
    BY <2>1, <2>2 DEF Request, RecordConsent, CreateDeletion, ConfirmDeletion
<1> QED
  BY <1>1, <1>2, DoomStays, ArtifactsUntouched DEF Carrying, At

LEMMA ClientArtifacts ==
    ASSUME Typed, Artifacts, Stands, NEW c \in Clients, Client(c)
    PROVE  Artifacts'
<1>1. /\ uploads \in Nat /\ c \in Processes /\ task \in [Processes -> Tasks] /\ task[c] \in Tasks
      /\ \A d \in Docs : d \notin Nat
  BY RowIdsAreDistinct DEF Typed, RowsTyped, Processes
<1>2. UNCHANGED <<export, uploads, sweep>>
  BY DEF Client, BeginUpload, BeginDelete, InsertDocument, StoreDocument, StoreDocumentFails,
         MarkDocument, MarkDeletePending, RemoveDocument, MarkDeleted
<1>3. task'[c].does # "export" /\ \A p \in Processes \ {c} : task'[p] = task[p]
  <2>1. CASE \E d \in Docs : BeginUpload(c, d) \/ BeginDelete(c, d)
    BY ZenonT(30), <1>1, <2>1 DEF BeginUpload, BeginDelete, Do, Idle
  <2>2. CASE InsertDocument(c)
    BY <1>1, <2>2 DEF InsertDocument, Do, At, Idle, Tasks
  <2>3. CASE StoreDocument(c) \/ StoreDocumentFails(c)
    BY <1>1, <2>3 DEF StoreDocument, StoreDocumentFails, Do, At, Tasks
  <2>4. CASE MarkDocument(c) \/ MarkDeleted(c)
    BY <1>1, <2>4 DEF MarkDocument, MarkDeleted, Do, Idle, Tasks
  <2>5. CASE MarkDeletePending(c) \/ RemoveDocument(c)
    BY <1>1, <2>5 DEF MarkDeletePending, RemoveDocument, Do, At, Idle, Tasks
  <2> QED
    BY <2>1, <2>2, <2>3, <2>4, <2>5 DEF Client
<1>4. objects \cap Nat \subseteq objects'
  <2>1. RemoveDocument(c) => task[c].of \in Docs
    BY <1>1 DEF RemoveDocument, At, Typed, TaskTyped
  <2> QED
    BY <1>1, <2>1 DEF Client, BeginUpload, BeginDelete, InsertDocument, StoreDocument,
         StoreDocumentFails, MarkDocument, MarkDeletePending, RemoveDocument, MarkDeleted,
         PossiblyStored, Stored, Dropped
<1> QED
  BY <1>1, <1>2, <1>3, <1>4, DoomStays, ArtifactsUntouched DEF Carrying, At, Shows, Shown

(* A delivery that does not complete its export shows nothing new, and a   *)
(* worker that deletes objects serves a confirmed deletion.                *)
LEMMA WorkerArtifacts ==
    ASSUME Typed, Requested, Artifacts, Stands, NEW w \in Workers, Worker(w)
    PROVE  Artifacts'
<1>1. /\ uploads \in Nat /\ w \in Processes /\ task \in [Processes -> Tasks] /\ task[w] \in Tasks
      /\ export \in [Exports -> ExportRows] /\ TaskTyped(w)
  BY DEF Typed, RowsTyped, Processes
<1>2. CASE StoreArtifact(w)
  BY <1>2, StoreArtifactArtifacts
<1>3. CASE CompleteExport(w)
  BY <1>3, CompleteExportArtifacts
<1>4. CASE \/ \E e \in Exports : DeliverExport(w, e)
           \/ \E h \in Deletions : DeliverDeletion(w, h)
           \/ ClaimDeletion(w) \/ ListDocuments(w) \/ ListExports(w) \/ RemoveObjectFails(w)
           \/ FailDeletion(w)
  <2>1. UNCHANGED <<export, objects, uploads, sweep>>
    BY <1>4 DEF DeliverExport, DeliverDeletion, ClaimDeletion, ListDocuments, ListExports,
                RemoveObjectFails, FailDeletion
  <2>2. ~Carrying(w)' /\ \A p \in Processes \ {w} : task'[p] = task[p]
    <3>1. CASE \E e \in Exports : DeliverExport(w, e)
      BY <1>1, <3>1 DEF DeliverExport, Do, Tasks, Carrying, At
    <3>2. CASE \E h \in Deletions : DeliverDeletion(w, h)
      BY <1>1, <3>2 DEF DeliverDeletion, Do, Tasks, Carrying, At
    <3>3. CASE ClaimDeletion(w) \/ FailDeletion(w)
      BY <1>1, <3>3 DEF ClaimDeletion, FailDeletion, Do, Idle, Tasks, Carrying, At
    <3>4. CASE ListDocuments(w) \/ ListExports(w) \/ RemoveObjectFails(w)
      BY <1>1, <3>4 DEF ListDocuments, ListExports, RemoveObjectFails, Do, Idle, Tasks, Carrying, At
    <3> QED
      BY <1>4, <3>1, <3>2, <3>3, <3>4
  <2> QED
    BY <1>1, <2>1, <2>2, DoomStays, ArtifactsUntouched DEF Carrying, At, Shows, Shown
<1>5. CASE ClaimExport(w) \/ FailExport(w)
  <2>1. PICK x : x = task[w].of
    OBVIOUS
  <2>2. x \in Exports /\ UNCHANGED <<objects, uploads, sweep>>
    BY <1>1, <1>5, <2>1 DEF ClaimExport, FailExport, TaskTyped, At
  <2>3. ~Carrying(w)' /\ \A p \in Processes \ {w} : task'[p] = task[p]
    BY <1>1, <1>5 DEF ClaimExport, FailExport, Do, At, Idle, Tasks, Carrying
  <2>4. \A e \in Exports \ {x} : export'[e] = export[e]
    BY <1>1, <1>5, <2>1 DEF ClaimExport, FailExport
  <2>5. export'[x].key = export[x].key /\ (Shows(x)' => Shows(x))
    <3>1. CASE ClaimExport(w)
      <4>1. /\ Claimed(export[x]).key = export[x].key /\ Claimed(export[x]).status = "running"
        BY <1>1, <2>2 DEF Claimed, ExportRows
      <4>2. export'[x] = export[x] \/ export'[x] = Claimed(export[x])
        BY <1>1, <2>1, <2>2, <3>1 DEF ClaimExport, Updated
      <4> QED
        BY <4>1, <4>2 DEF Shows, Shown
    <3>2. CASE FailExport(w)
      <4>1. export'[x] = export[x]
            \/ export'[x] = [export[x] EXCEPT !.status = "failed", !.age = 0]
        BY <1>1, <2>1, <2>2, <3>2 DEF FailExport, Updated
      <4> QED
        BY <1>1, <2>2, <4>1 DEF Shows, Shown, ExportRows
    <3> QED
      BY <1>5, <3>1, <3>2
  <2> QED
    BY <1>1, <2>2, <2>3, <2>4, <2>5, DoomStays, ArtifactsUntouched DEF Carrying, At, Shows, Shown
<1>6. CASE StoreArtifactFails(w)
  <2>1. UNCHANGED <<export, sweep>> /\ uploads' = uploads + 1 /\ objects \subseteq objects'
    BY <1>6 DEF StoreArtifactFails, PossiblyStored, Stored
  <2>2. uploads' \in Nat /\ uploads <= uploads'
    BY <1>1, <2>1
  <2>3. ~Carrying(w)' /\ \A p \in Processes \ {w} : task'[p] = task[p]
    BY <1>1, <1>6 DEF StoreArtifactFails, Do, At, Tasks, Carrying
  <2> QED
    BY <2>1, <2>2, <2>3, DoomStays, ArtifactsUntouched DEF Carrying, At, Shows, Shown
<1>7. CASE RemoveObject(w) \/ PurgeHousehold(w)
  <2>1. task[w].does = "purge" /\ UNCHANGED <<uploads, sweep>>
    BY <1>7 DEF RemoveObject, PurgeHousehold, At
  <2>2. Doomed'
    BY <1>1, <2>1, DoomStays DEF Requested, Doomed, TaskTyped
  <2>3. ~Carrying(w)' /\ \A p \in Processes \ {w} : task'[p] = task[p]
    BY <1>1, <1>7 DEF RemoveObject, PurgeHousehold, Do, At, Idle, Tasks, Carrying
  <2>4. \A e \in Exports : /\ export'[e].key \in {export[e].key, 0}
                           /\ Shows(e)' => Shows(e) /\ export'[e].key = export[e].key
    <3>1. CASE RemoveObject(w)
      BY <3>1 DEF RemoveObject, Shows, Shown
    <3>2. CASE PurgeHousehold(w)
      <4>1. ASSUME NEW e \in Exports
            PROVE  export'[e].key = 0 /\ ~Shows(e)'
        <5>1. export'[e] = [SetStatus(export[e], "removed") EXCEPT !.key = 0]
          BY <1>1, <3>2 DEF PurgeHousehold, Removed
        <5>2. /\ SetStatus(export[e], "removed").status \in {"absent", "removed"}
              /\ SetStatus(export[e], "removed") \in ExportRows
          BY <1>1 DEF SetStatus, Updated, Exists, ExportRows
        <5> QED
          BY <5>1, <5>2 DEF Shows, Shown, ExportRows
      <4> QED
        BY <4>1
    <3> QED
      BY <1>7, <3>1, <3>2
  <2> QED
    BY <1>1, <2>1, <2>2, <2>3, <2>4, ArtifactsUntouched DEF Carrying, At
<1> QED
  BY <1>2, <1>3, <1>4, <1>5, <1>6, <1>7 DEF Worker

(* The sweeps leave what is shown alone.                                   *)
LEMMA CleanupArtifacts ==
    ASSUME Typed, Artifacts, Stands, Cleanup
    PROVE  Artifacts'
<1>1. uploads \in Nat /\ export \in [Exports -> ExportRows]
  BY DEF Typed, RowsTyped
<1>2. CASE SelectRows
  BY <1>2, SelectRowsArtifacts
<1>3. CASE SweepObject
  BY <1>3, SweepObjectArtifacts
<1>4. CASE SweepObjectFails \/ ExpireExport \/ FinishDocument \/ DeleteRows
  <2>1. UNCHANGED <<objects, uploads, task>> /\ sweep'.rows \subseteq sweep.rows
    BY <1>4 DEF SweepObjectFails, ExpireExport, FinishDocument, DeleteRows, Typed, SweepTyped
  <2>2. ASSUME NEW e \in Exports
        PROVE  /\ export'[e].key \in {export[e].key, 0}
               /\ Shows(e)' => Shows(e) /\ export'[e].key = export[e].key
    <3>1. CASE SweepObjectFails \/ FinishDocument
      BY <3>1 DEF SweepObjectFails, FinishDocument, Shows, Shown
    <3>2. CASE ExpireExport
      <4>1. \/ export'[e] = export[e]
            \/ export'[e] = [export[e] EXCEPT !.status = "expired", !.key = 0]
        BY <1>1, <3>2 DEF ExpireExport, Updated
      <4> QED
        BY <1>1, <4>1 DEF Shows, Shown, ExportRows
    <3>3. CASE DeleteRows
      <4>1. \/ export'[e] = export[e]
            \/ export'[e] = [SetStatus(export[e], "removed") EXCEPT !.key = 0]
        BY <3>3 DEF DeleteRows
      <4>2. /\ SetStatus(export[e], "removed").status \in {"absent", "removed"}
            /\ SetStatus(export[e], "removed") \in ExportRows
        BY <1>1 DEF SetStatus, Updated, Exists, ExportRows
      <4> QED
        BY <4>1, <4>2 DEF Shows, Shown, ExportRows
    <3> QED
      BY <1>4, <3>1, <3>2, <3>3
  <2> QED
    BY <1>1, <2>1, <2>2, DoomStays, ArtifactsUntouched DEF Carrying, At
<1> QED
  BY <1>2, <1>3, <1>4 DEF Cleanup

(* So do faults and time: an export whose artifact ages is shown no more.  *)
LEMMA OtherArtifacts ==
    ASSUME Typed, Artifacts, Stands,
           Aging \/ (\E p \in Processes : Crash(p)) \/ EndSweep \/ UNCHANGED vars
    PROVE  Artifacts'
<1>1. uploads \in Nat /\ export \in [Exports -> ExportRows] /\ task \in [Processes -> Tasks]
  BY DEF Typed, RowsTyped
<1>2. UNCHANGED <<objects, uploads>> /\ sweep'.rows \subseteq sweep.rows
  BY DEF Aging, DocumentAges, ExportAges, DeletionAges, Crash, EndSweep, NoSweep, vars
<1>3. \A p \in Processes : Carrying(p)' => Carrying(p) /\ task'[p] = task[p]
  <2>1. CASE UNCHANGED task
    BY <2>1 DEF Carrying, At
  <2>2. CASE \E q \in Processes : Crash(q)
    BY <1>1, <2>2 DEF Crash, Do, Idle, Carrying, At
  <2> QED
    BY <2>1, <2>2 DEF Aging, DocumentAges, ExportAges, DeletionAges, EndSweep, vars
<1>4. \A e \in Exports : export'[e].key = export[e].key /\ (Shows(e)' => Shows(e))
  <2>1. CASE UNCHANGED export
    BY <2>1 DEF Shows, Shown
  <2>2. ASSUME NEW x \in Exports, ExportAges(x)
        PROVE  \A e \in Exports : export'[e].key = export[e].key /\ (Shows(e)' => Shows(e))
    <3> DEFINE n == export[x].age + 1
    <3>1. export' = [export EXCEPT ![x].age = n]
      BY <2>2 DEF ExportAges
    <3>2. export[x].age \in 0..2 /\ n > 0
      BY <1>1 DEF ExportRows
    <3> HIDE DEF n
    <3>3. /\ \A e \in Exports \ {x} : export'[e] = export[e]
          /\ export'[x].key = export[x].key /\ export'[x].age > 0
      BY <1>1, <3>1, <3>2 DEF ExportRows
    <3> QED
      BY <3>3 DEF Shows, Shown
  <2> QED
    BY <2>1, <2>2 DEF Aging, DocumentAges, DeletionAges, Crash, EndSweep, vars
<1> QED
  BY <1>1, <1>2, <1>3, <1>4, DoomStays, ArtifactsUntouched

(* An export that is shown as completed can be downloaded: the key of its  *)
(* artifact is nobody's else, so neither a delivery nor the cleanup of an  *)
(* earlier artifact takes it.                                              *)
THEOREM ShownExportsCanBeDownloaded == Spec => []CompletedExportsHaveTheirArtifact
<1>1. Init => Artifacts
  BY DEF Init, Artifacts, KeysDiffer, Carrying, At, Idle, NoSweep, Shows, Shown
<1>2. Custody /\ Custody' /\ Artifacts /\ [Next]_vars => Artifacts'
  <2> SUFFICES ASSUME Custody, Artifacts, [Next]_vars PROVE Artifacts'
    OBVIOUS
  <2>1. Typed /\ Requested /\ Stands
    BY NextRequested DEF Custody
  <2> QED
    BY <2>1, NextParts, RequestArtifacts, ClientArtifacts, WorkerArtifacts, CleanupArtifacts,
       OtherArtifacts
<1>3. Typed /\ Artifacts => CompletedExportsHaveTheirArtifact
  <2> SUFFICES ASSUME Typed, Artifacts, NEW e \in Exports, Shows(e), ~Doomed
               PROVE  Downloadable(e) /\ export[e].key \in objects
    BY DEF CompletedExportsHaveTheirArtifact, Shows
  <2>1. export[e].status = "completed" /\ export[e].age = 0
    BY DEF Shows, Shown, Typed, RowsTyped, ExportRows
  <2> QED
    BY <2>1 DEF Artifacts, Downloadable
<1>4. Custody => Typed
  BY DEF Custody
<1> QED
  BY <1>1, <1>2, <1>3, <1>4, CustodyHolds, PTL DEF Spec
===============================================================================
