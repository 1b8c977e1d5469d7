-------------------------------- MODULE Privacy --------------------------------
(***************************************************************************)
(* One household's privacy operations (modules/privacy, modules/documents  *)
(* and the storage adapters): consent, document upload and deletion, data  *)
(* export, household deletion and the retention cleanup, over two stores   *)
(* that no transaction spans, the database rows and the stored objects.    *)
(*                                                                         *)
(* What runs under the household's advisory lock (consent, the requests    *)
(* for an export or a deletion, the confirmation) is one step: none of     *)
(* these operations overlap and they read a worker's row once.  Everything *)
(* else moves one statement or one storage call at a time.  A storage call *)
(* may fail, an upload that fails may have stored the object, and every    *)
(* process may die between two of its steps.                               *)
(*                                                                         *)
(* Abstractions.  The key of a document's object is the document; the key  *)
(* of an export's artifact is the number of the upload (both are random in *)
(* the code).  Requests come from the owner's session that is allowed to   *)
(* make them: any other caller is refused and nothing changes.  What an    *)
(* export contains is left out.  Time is the passing of deadlines.         *)
(***************************************************************************)
EXTENDS Integers, Sequences

CONSTANTS
    Clients,          \* connections that upload and delete documents
    Workers,          \* job slots of the queue worker
    Docs, Exports, Deletions,   \* ids of rows
    ConsentRequests,  \* the [key, purpose, action] clients record consent with
    Earlier,          \* those recorded before we look, one for a purpose
    Fresh,            \* bound: the sets of ids that may still be unused at first
    MaxAttempts       \* bound: no delivery starts for a row attempted this often

Processes == Clients \cup Workers
Purposes == {"document_storage", "privacy_export", "household_deletion"}

ASSUME RowIdsAreDistinct ==
    /\ Docs \cap Int = {}
    /\ Docs \cap Exports = {} /\ Docs \cap Deletions = {} /\ Exports \cap Deletions = {}
ASSUME MaxAttemptsIsNatural == MaxAttempts \in Nat
ASSUME ConsentRequestsAreTyped ==
    \A r \in ConsentRequests :
        r.purpose \in Purposes /\ r.action \in {"granted", "withdrawn"}
ASSUME FreshAreIds == \A ids \in Fresh : ids \subseteq Docs \cup Exports \cup Deletions
ASSUME EarlierAreRequests ==
    /\ Earlier \subseteq ConsentRequests
    /\ \A r, o \in Earlier : r.purpose = o.purpose \/ r.key = o.key => r = o

VARIABLES
    alive,      \* the household's rows exist
    consent,    \* the latest consent record of each purpose
    recorded,   \* the consent records by idempotency key
    doc,        \* documents
    export,     \* privacy_exports
    deletion,   \* household_deletions
    objects,    \* the keys of the stored objects
    uploads,    \* how many artifacts were uploaded or tried
    task,       \* what each process is doing
    sweep,      \* where runPrivacyRetentionCleanup is
    promised    \* history: documents available when the deletion was confirmed

vars == <<alive, consent, recorded, doc, export, deletion, objects, uploads, task, sweep, promised>>

-----------------------------------------------------------------------------
(* Rows.  "absent" is an id not used yet, "removed" a row that is gone.    *)

DocRows ==
    [status : {"absent", "pending", "available", "failed", "delete_pending", "deleted", "removed"},
     old : BOOLEAN,         \* created more than an hour ago (read of these statuses only)
     retention : {"none", "running", "over"}]

(* age 1: the artifact's 24 hours are over; age 2: so are the 30 days.     *)
ExportRows ==
    [status : {"absent", "queued", "running", "completed", "failed", "expired", "removed"},
     key : Nat, age : 0..2, attempts : Nat]

(* age 1: the token's 15 minutes are over; age 2: so are the 24 hours.     *)
(* Both are read while the request is pending only.                        *)
DeletionRows ==
    [status : {"absent", "pending", "queued", "running", "failed", "completed", "removed"},
     age : 0..2, attempts : Nat]

Keys == Docs \cup Nat
Tasks ==
    [does : {"nothing", "upload", "delete", "export", "purge"},
     of : Docs \cup Exports \cup Deletions \cup {0},
     at : {"start", "insert", "claim", "list_documents", "list_exports", "store", "remove", "purge",
           "stored", "refused"},
     keys : SUBSET Keys]

Idle == [does |-> "nothing", of |-> 0, at |-> "start", keys |-> {}]
SweepPhases == <<"artifacts", "requests", "tombstones", "exports", "orphans">>
NoSweep == [phase |-> 0, rows |-> {}, hand |-> {}]

Confirmed(h) == deletion[h].status \in {"queued", "running", "failed", "completed"}
Unresolved(h) == deletion[h].status \in {"pending", "queued", "running", "failed"}

Granted(p) == consent[p] = "granted"
Do(p, change) == task' = [task EXCEPT ![p] = change]
At(p, does, at) == task[p].does = does /\ task[p].at = at

-----------------------------------------------------------------------------
(* Object storage *)

Stored(k) == objects' = objects \cup {k}
PossiblyStored(k) == Stored(k) \/ UNCHANGED objects
Dropped(k) == objects' = objects \ {k}

-----------------------------------------------------------------------------
(* Consent *)

(* A key that was used returns its record or a conflict: nothing changes.  *)
RecordConsent(r) ==
    /\ alive
    /\ \A o \in recorded : o.key # r.key
    /\ consent' = [consent EXCEPT ![r.purpose] = r.action]
    /\ recorded' = recorded \cup {r}
    /\ UNCHANGED <<alive, doc, export, deletion, objects, uploads, task, sweep, promised>>

-----------------------------------------------------------------------------
(* Documents *)

BeginUpload(c, d) ==
    /\ alive
    /\ task[c] = Idle
    /\ doc[d].status = "absent"
    /\ \A p \in Clients : task[p].of # d
    /\ Granted("document_storage")
    /\ Do(c, [Idle EXCEPT !.does = "upload", !.of = d, !.at = "insert"])
    /\ UNCHANGED <<alive, consent, recorded, doc, export, deletion, objects, uploads, sweep, promised>>

InsertDocument(c) ==
    /\ At(c, "upload", "insert")
    /\ alive                                    \* the foreign key
    /\ doc' = [doc EXCEPT ![task[c].of].status = "pending"]
    /\ Do(c, [task[c] EXCEPT !.at = "store"])
    /\ UNCHANGED <<alive, consent, recorded, export, deletion, objects, uploads, sweep, promised>>

StoreDocument(c) ==
    /\ At(c, "upload", "store")
    /\ Stored(task[c].of)
    /\ Do(c, [task[c] EXCEPT !.at = "stored"])
    /\ UNCHANGED <<alive, consent, recorded, doc, export, deletion, uploads, sweep, promised>>

StoreDocumentFails(c) ==
    /\ At(c, "upload", "store")
    /\ PossiblyStored(task[c].of)
    /\ Do(c, [task[c] EXCEPT !.at = "refused"])
    /\ UNCHANGED <<alive, consent, recorded, doc, export, deletion, uploads, sweep, promised>>

(* An update by id changes nothing once the row is gone. *)
Exists(row) == row.status \notin {"absent", "removed"}
Updated(row, new) == IF Exists(row) THEN new ELSE row
SetStatus(row, status) == Updated(row, [row EXCEPT !.status = status])
Claimed(row) == [row EXCEPT !.status = "running", !.attempts = @ + 1]

MarkDocumentEither(c) ==
    /\ task[c].does = "upload" /\ task[c].at \in {"stored", "refused"}
    /\ doc' = [doc EXCEPT ![task[c].of] = SetStatus(@, "available")]
    /\ Do(c, Idle)
    /\ UNCHANGED <<alive, consent, recorded, export, deletion, objects, uploads, sweep, promised>>

MarkDocument(c) ==
    /\ task[c].does = "upload" /\ task[c].at \in {"stored", "refused"}
    /\ doc' = [doc EXCEPT ![task[c].of] =
                 SetStatus(@, IF task[c].at = "stored" THEN "available" ELSE "failed")]
    /\ Do(c, Idle)
    /\ UNCHANGED <<alive, consent, recorded, export, deletion, objects, uploads, sweep, promised>>

(* The documents a household can list, read and download. *)
Listed(d) == doc[d].status = "available"

(* A client knows a document's id once it was available.  A document that  *)
(* is deleted already is answered for at once.                             *)
BeginDelete(c, d) ==
    /\ alive
    /\ task[c] = Idle
    /\ doc[d].status \in {"available", "delete_pending"}
    /\ Do(c, [Idle EXCEPT !.does = "delete", !.of = d, !.at = "claim"])
    /\ UNCHANGED <<alive, consent, recorded, doc, export, deletion, objects, uploads, sweep, promised>>

MarkDeletePending(c) ==
    /\ At(c, "delete", "claim")
    /\ doc' = [doc EXCEPT ![task[c].of] = SetStatus(@, "delete_pending")]
    /\ Do(c, [task[c] EXCEPT !.at = "remove"])
    /\ UNCHANGED <<alive, consent, recorded, export, deletion, objects, uploads, sweep, promised>>

RemoveDocument(c) ==
    /\ At(c, "delete", "remove")
    /\ Dropped(task[c].of)
    /\ Do(c, [task[c] EXCEPT !.at = "stored"])
    /\ UNCHANGED <<alive, consent, recorded, doc, export, deletion, uploads, sweep, promised>>

MarkDeleted(c) ==
    /\ At(c, "delete", "stored")
    /\ doc' = [doc EXCEPT ![task[c].of] =
                 Updated(@, [@ EXCEPT !.status = "deleted", !.retention = "running"])]
    /\ Do(c, Idle)
    /\ UNCHANGED <<alive, consent, recorded, export, deletion, objects, uploads, sweep, promised>>

-----------------------------------------------------------------------------
(* Export *)

(* A key that was used returns the export it named. *)
CreateExport(e) ==
    /\ alive
    /\ Granted("privacy_export")
    /\ export[e].status = "absent"
    /\ export' = [export EXCEPT ![e].status = "queued"]
    /\ UNCHANGED <<alive, consent, recorded, doc, deletion, objects, uploads, task, sweep, promised>>

(* The status getExportById shows. *)
Shown(e) == IF export[e].status = "completed" /\ export[e].age > 0 THEN "expired" ELSE export[e].status

(* What createExportDownloadGrant requires. *)
Downloadable(e) == export[e].status = "completed" /\ export[e].key # 0 /\ export[e].age = 0

(* A delivery of an export that is shown as completed returns at once. *)
DeliverExport(w, e) ==
    /\ task[w] = Idle
    /\ Exists(export[e])
    /\ export[e].attempts < MaxAttempts
    /\ Shown(e) # "completed"
    /\ Do(w, [Idle EXCEPT !.does = "export", !.of = e, !.at = "claim"])
    /\ UNCHANGED <<alive, consent, recorded, doc, export, deletion, objects, uploads, sweep, promised>>

ClaimExport(w) ==
    /\ At(w, "export", "claim")
    /\ export' = [export EXCEPT ![task[w].of] = Updated(@, Claimed(@))]
    /\ Do(w, [task[w] EXCEPT !.at = "store"])
    /\ UNCHANGED <<alive, consent, recorded, doc, deletion, objects, uploads, sweep, promised>>

ArtifactKeyOfExport(w) == 1
ArtifactKeyNamed(w) == task[w].of
(* generateObjectKey draws a key that was never used. *)
ArtifactKey(w) == uploads + 1

StoreArtifact(w) ==
    /\ At(w, "export", "store")
    /\ uploads' = uploads + 1
    /\ Stored(ArtifactKey(w))
    /\ Do(w, [task[w] EXCEPT !.at = "stored", !.keys = {ArtifactKey(w)}])
    /\ UNCHANGED <<alive, consent, recorded, doc, export, deletion, sweep, promised>>

StoreArtifactFails(w) ==
    /\ At(w, "export", "store")
    /\ uploads' = uploads + 1
    /\ PossiblyStored(ArtifactKey(w))
    /\ Do(w, [task[w] EXCEPT !.at = "refused"])
    /\ UNCHANGED <<alive, consent, recorded, doc, export, deletion, sweep, promised>>

(* Both updates are by id, whatever another delivery has written.          *)
CompleteExport(w) ==
    /\ At(w, "export", "stored")
    /\ export' = [export EXCEPT ![task[w].of] =
                    Updated(@, [@ EXCEPT !.status = "completed", !.age = 0,
                                         !.key = CHOOSE k \in task[w].keys : TRUE])]
    /\ Do(w, Idle)
    /\ UNCHANGED <<alive, consent, recorded, doc, deletion, objects, uploads, sweep, promised>>

FailExport(w) ==
    /\ At(w, "export", "refused")
    /\ export' = [export EXCEPT ![task[w].of] = Updated(@, [@ EXCEPT !.status = "failed", !.age = 0])]
    /\ Do(w, Idle)
    /\ UNCHANGED <<alive, consent, recorded, doc, deletion, objects, uploads, sweep, promised>>

-----------------------------------------------------------------------------
(* Household deletion *)

(* One request at a time: a request under another key is refused while one *)
(* is unresolved, and a request that failed stays unresolved.              *)
CreateDeletion(h) ==
    /\ alive
    /\ Granted("household_deletion")
    /\ deletion[h].status = "absent"
    /\ \A x \in Deletions : ~Unresolved(x)
    /\ deletion' = [deletion EXCEPT ![h].status = "pending"]
    /\ UNCHANGED <<alive, consent, recorded, doc, export, objects, uploads, task, sweep, promised>>

ConfirmDeletionLate(h) ==
    /\ alive
    /\ deletion[h].status = "pending"
    /\ Granted("household_deletion")
    /\ deletion' = [deletion EXCEPT ![h].status = "queued", ![h].age = 0]
    /\ promised' = {d \in Docs : Listed(d)}
    /\ UNCHANGED <<alive, consent, recorded, doc, export, objects, uploads, task, sweep>>

(* A request that is confirmed already is answered with its status, a      *)
(* failed one is refused.                                                  *)
ConfirmDeletion(h) ==
    /\ alive
    /\ deletion[h].status = "pending"
    /\ deletion[h].age = 0
    /\ Granted("household_deletion")
    /\ deletion' = [deletion EXCEPT ![h].status = "queued", ![h].age = 0]
    /\ promised' = {d \in Docs : Listed(d)}
    /\ UNCHANGED <<alive, consent, recorded, doc, export, objects, uploads, task, sweep>>

DeliverDeletion(w, h) ==
    /\ task[w] = Idle
    /\ deletion[h].status \in {"queued", "running", "failed"}
    /\ deletion[h].attempts < MaxAttempts
    /\ Do(w, [Idle EXCEPT !.does = "purge", !.of = h, !.at = "claim"])
    /\ UNCHANGED <<alive, consent, recorded, doc, export, deletion, objects, uploads, sweep, promised>>

ClaimDeletion(w) ==
    /\ At(w, "purge", "claim")
    /\ deletion' = [deletion EXCEPT ![task[w].of] = Claimed(@)]
    /\ Do(w, [task[w] EXCEPT !.at = "list_documents"])
    /\ UNCHANGED <<alive, consent, recorded, doc, export, objects, uploads, sweep, promised>>

ListDocumentsAvailable(w) ==
    /\ At(w, "purge", "list_documents")
    /\ Do(w, [task[w] EXCEPT !.at = "list_exports",
                             !.keys = {d \in Docs : doc[d].status = "available"}])
    /\ UNCHANGED <<alive, consent, recorded, doc, export, deletion, objects, uploads, sweep, promised>>

(* Documents of every status, then the exports that hold a key. *)
ListDocuments(w) ==
    /\ At(w, "purge", "list_documents")
    /\ Do(w, [task[w] EXCEPT !.at = "list_exports", !.keys = {d \in Docs : Exists(doc[d])}])
    /\ UNCHANGED <<alive, consent, recorded, doc, export, deletion, objects, uploads, sweep, promised>>

ListExports(w) ==
    /\ At(w, "purge", "list_exports")
    /\ Do(w, [task[w] EXCEPT
                !.at = "remove",
                !.keys = @ \cup {export[e].key : e \in {x \in Exports : export[x].key # 0}}])
    /\ UNCHANGED <<alive, consent, recorded, doc, export, deletion, objects, uploads, sweep, promised>>

RemoveObject(w) ==
    /\ At(w, "purge", "remove")
    /\ \E k \in task[w].keys :
          /\ Dropped(k)
          /\ Do(w, [task[w] EXCEPT !.keys = @ \ {k}])
    /\ UNCHANGED <<alive, consent, recorded, doc, export, deletion, uploads, sweep, promised>>

RemoveObjectFails(w) ==
    /\ At(w, "purge", "remove")
    /\ task[w].keys # {}
    /\ Do(w, [task[w] EXCEPT !.at = "refused"])
    /\ UNCHANGED <<alive, consent, recorded, doc, export, deletion, objects, uploads, sweep, promised>>

FailDeletion(w) ==
    /\ At(w, "purge", "refused")
    /\ deletion' = [deletion EXCEPT ![task[w].of].status = "failed"]
    /\ Do(w, Idle)
    /\ UNCHANGED <<alive, consent, recorded, doc, export, objects, uploads, sweep, promised>>

Removed(rows) == [i \in DOMAIN rows |-> SetStatus(rows[i], "removed")]

(* The transaction that deletes every row of the household. *)
PurgeHousehold(w) ==
    /\ At(w, "purge", "remove")
    /\ task[w].keys = {}
    /\ alive' = FALSE
    /\ doc' = Removed(doc)
    /\ export' = [e \in Exports |-> [Removed(export)[e] EXCEPT !.key = 0]]
    /\ deletion' = [deletion EXCEPT ![task[w].of].status = "completed"]
    /\ Do(w, Idle)
    /\ UNCHANGED <<consent, recorded, objects, uploads, sweep, promised>>

-----------------------------------------------------------------------------
(* runPrivacyRetentionCleanup: five sweeps, each a select and then, row by *)
(* row or in one statement, what it does to the rows it selected.          *)

DueArtifacts == {e \in Exports : export[e].status = "completed" /\ export[e].age > 0 /\ export[e].key # 0}
DueRequests == {h \in Deletions : deletion[h].status = "pending" /\ deletion[h].age = 2}
DueTombstonesEarly == {d \in Docs : doc[d].status \in {"delete_pending", "deleted"} /\ doc[d].old}
DueTombstones == {d \in Docs : doc[d].status = "deleted" /\ doc[d].retention = "over"}
DueExports == {e \in Exports : export[e].status \in {"failed", "expired"} /\ export[e].age = 2}
DueOrphans == {d \in Docs : doc[d].status \in {"failed", "delete_pending"} /\ doc[d].old}

Select(phase) ==
    CASE phase = "artifacts" -> {[row |-> e, key |-> export[e].key, status |-> "completed"] : e \in DueArtifacts}
      [] phase = "requests" -> {[row |-> h, key |-> 0, status |-> "pending"] : h \in DueRequests}
      [] phase = "tombstones" -> {[row |-> d, key |-> d, status |-> "deleted"] : d \in DueTombstones}
      [] phase = "exports" -> {[row |-> e, key |-> 0, status |-> export[e].status] : e \in DueExports}
      [] phase = "orphans" -> {[row |-> d, key |-> d, status |-> doc[d].status] : d \in DueOrphans}

Phase == IF sweep.phase = 0 THEN "none" ELSE SweepPhases[sweep.phase]

(* The sweeps run in this order; one that finds no row due changes nothing *)
(* and is passed over.                                                     *)
SelectRows ==
    /\ sweep.rows = {} /\ sweep.hand = {}
    /\ \E p \in sweep.phase + 1..Len(SweepPhases) :
          /\ Select(SweepPhases[p]) # {}
          /\ sweep' = [phase |-> p, rows |-> Select(SweepPhases[p]), hand |-> {}]
    /\ UNCHANGED <<alive, consent, recorded, doc, export, deletion, objects, uploads, task, promised>>

SweepObject ==
    /\ Phase \in {"artifacts", "orphans"}
    /\ sweep.hand = {}
    /\ \E r \in sweep.rows :
          /\ Dropped(r.key)
          /\ sweep' = [sweep EXCEPT !.rows = @ \ {r}, !.hand = {r} \ [row : Docs, key : Keys, status : {"failed"}]]
    /\ UNCHANGED <<alive, consent, recorded, doc, export, deletion, uploads, task, promised>>

(* The row is kept for the next cleanup. *)
SweepObjectFails ==
    /\ Phase \in {"artifacts", "orphans"}
    /\ sweep.hand = {}
    /\ \E r \in sweep.rows : sweep' = [sweep EXCEPT !.rows = @ \ {r}]
    /\ UNCHANGED <<alive, consent, recorded, doc, export, deletion, objects, uploads, task, promised>>

ExpireExport ==
    /\ Phase = "artifacts"
    /\ \E r \in sweep.hand :
          export' = [export EXCEPT ![r.row] = Updated(@, [@ EXCEPT !.status = "expired", !.key = 0])]
    /\ sweep' = [sweep EXCEPT !.hand = {}]
    /\ UNCHANGED <<alive, consent, recorded, doc, deletion, objects, uploads, task, promised>>

(* The tombstone gets no retention deadline here. *)
FinishDocument ==
    /\ Phase = "orphans"
    /\ \E r \in sweep.hand : doc' = [doc EXCEPT ![r.row] = SetStatus(@, "deleted")]
    /\ sweep' = [sweep EXCEPT !.hand = {}]
    /\ UNCHANGED <<alive, consent, recorded, export, deletion, objects, uploads, task, promised>>

(* The other three sweeps delete the selected rows by id, in one statement.*)
DeleteRows ==
    LET ids == {r.row : r \in sweep.rows} IN
    /\ Phase \in {"requests", "tombstones", "exports"}
    /\ ids # {}
    /\ deletion' = [h \in Deletions |-> IF h \in ids THEN [deletion[h] EXCEPT !.status = "removed"] ELSE deletion[h]]
    /\ doc' = [d \in Docs |-> IF d \in ids THEN SetStatus(doc[d], "removed") ELSE doc[d]]
    /\ export' = [e \in Exports |-> IF e \in ids THEN [SetStatus(export[e], "removed") EXCEPT !.key = 0] ELSE export[e]]
    /\ sweep' = [sweep EXCEPT !.rows = {}]
    /\ UNCHANGED <<alive, consent, recorded, objects, uploads, task, promised>>

-----------------------------------------------------------------------------
(* Faults and time *)

Crash(p) ==
    /\ task[p] # Idle
    /\ Do(p, Idle)
    /\ UNCHANGED <<alive, consent, recorded, doc, export, deletion, objects, uploads, sweep, promised>>

(* The cleanup ends, or dies. *)
EndSweep ==
    /\ sweep # NoSweep
    /\ sweep' = NoSweep
    /\ UNCHANGED <<alive, consent, recorded, doc, export, deletion, objects, uploads, task, promised>>

DocumentAges(d) ==
    /\ doc[d].status \in {"failed", "delete_pending", "deleted"}
    /\ \/ ~doc[d].old /\ doc' = [doc EXCEPT ![d].old = TRUE]
       \/ doc[d].old /\ doc[d].retention = "running" /\ doc' = [doc EXCEPT ![d].retention = "over"]
    /\ UNCHANGED <<alive, consent, recorded, export, deletion, objects, uploads, task, sweep, promised>>

ExportAges(e) ==
    /\ export[e].status \in {"completed", "failed", "expired"}
    /\ export[e].age < 2
    /\ export' = [export EXCEPT ![e].age = @ + 1]
    /\ UNCHANGED <<alive, consent, recorded, doc, deletion, objects, uploads, task, sweep, promised>>

DeletionAges(h) ==
    /\ deletion[h].status = "pending"
    /\ deletion[h].age < 2
    /\ deletion' = [deletion EXCEPT ![h].age = @ + 1]
    /\ UNCHANGED <<alive, consent, recorded, doc, export, objects, uploads, task, sweep, promised>>

-----------------------------------------------------------------------------
Init ==
    /\ alive = TRUE
    /\ recorded = Earlier
    /\ consent = [p \in Purposes |->
                     IF \E r \in Earlier : r.purpose = p
                     THEN (CHOOSE r \in Earlier : r.purpose = p).action ELSE "none"]
    /\ \E ids \in Fresh :
          LET Before(i) == IF i \in ids THEN "absent" ELSE "removed" IN
          /\ doc = [d \in Docs |-> [status |-> Before(d), old |-> FALSE, retention |-> "none"]]
          /\ export = [e \in Exports |-> [status |-> Before(e), key |-> 0, age |-> 0, attempts |-> 0]]
          /\ deletion = [h \in Deletions |-> [status |-> Before(h), age |-> 0, attempts |-> 0]]
    /\ objects = {}
    /\ uploads = 0
    /\ task = [p \in Processes |-> Idle]
    /\ sweep = NoSweep
    /\ promised = {}

Client(c) ==
    \/ \E d \in Docs : BeginUpload(c, d) \/ BeginDelete(c, d)
    \/ InsertDocument(c) \/ StoreDocument(c) \/ StoreDocumentFails(c) \/ MarkDocument(c)
    \/ MarkDeletePending(c) \/ RemoveDocument(c) \/ MarkDeleted(c)

Worker(w) ==
    \/ \E e \in Exports : DeliverExport(w, e)
    \/ ClaimExport(w) \/ StoreArtifact(w) \/ StoreArtifactFails(w) \/ CompleteExport(w) \/ FailExport(w)
    \/ \E h \in Deletions : DeliverDeletion(w, h)
    \/ ClaimDeletion(w) \/ ListDocuments(w) \/ ListExports(w) \/ RemoveObject(w) \/ RemoveObjectFails(w)
    \/ FailDeletion(w) \/ PurgeHousehold(w)

Cleanup ==
    SelectRows \/ SweepObject \/ SweepObjectFails \/ ExpireExport \/ FinishDocument \/ DeleteRows

Next ==
    \/ \E r \in ConsentRequests : RecordConsent(r)
    \/ \E e \in Exports : CreateExport(e)
    \/ \E h \in Deletions : CreateDeletion(h) \/ ConfirmDeletion(h)
    \/ \E c \in Clients : Client(c)
    \/ \E w \in Workers : Worker(w)
    \/ Cleanup
    \/ \E p \in Processes : Crash(p)
    \/ EndSweep
    \/ \E d \in Docs : DocumentAges(d)
    \/ \E e \in Exports : ExportAges(e)
    \/ \E h \in Deletions : DeletionAges(h)

Spec == Init /\ [][Next]_vars

-----------------------------------------------------------------------------
(* Properties *)

(* Every row and every step of a process is one the code can write.        *)
TypeOK ==
    /\ alive \in BOOLEAN
    /\ consent \in [Purposes -> {"none", "granted", "withdrawn"}]
    /\ recorded \subseteq ConsentRequests
    /\ doc \in [Docs -> DocRows]
    /\ export \in [Exports -> ExportRows]
    /\ deletion \in [Deletions -> DeletionRows]
    /\ objects \subseteq Keys
    /\ uploads \in Nat
    /\ \A p \in Processes : task[p] \in Tasks
    /\ sweep.phase \in 0..Len(SweepPhases)
    /\ promised \subseteq Docs

(* A consent request that is sent again, however late, never undoes what   *)
(* was recorded after it: the effective consent only changes with a new    *)
(* consent record.                                                         *)
RetriesDoNotUndoConsent ==
    [][consent' # consent => recorded' # recorded]_vars

Doomed == \E h \in Deletions : Confirmed(h)

(* A document the household can list and download has its object, through  *)
(* failed uploads, concurrent deletions, crashes and the cleanup, until a  *)
(* household deletion is confirmed.                                        *)
AvailableDocumentsHaveTheirObject ==
    \A d \in Docs : Listed(d) /\ ~Doomed => d \in objects

(* While the household exists no document object is left without a row     *)
(* that still leads to it: a row is reported deleted, or removed by the    *)
(* cleanup, only after the object is gone.                                 *)
DocumentObjectsAreReachable ==
    alive => \A d \in Docs \cap objects : doc[d].status \notin {"absent", "deleted", "removed"}

(* An export that is shown as completed can be downloaded, although        *)
(* deliveries overlap and the cleanup deletes artifacts it read about      *)
(* before the export was produced again.                                   *)
CompletedExportsHaveTheirArtifact ==
    \A e \in Exports :
        Shown(e) = "completed" /\ ~Doomed => Downloadable(e) /\ export[e].key \in objects

(* A confirmed household deletion is never taken back: the cleanup, which  *)
(* selects unconfirmed requests and deletes them by id later, never        *)
(* removes one that was confirmed in between.                              *)
ConfirmedDeletionsStay ==
    [][\A h \in Deletions : Confirmed(h) => Confirmed(h)']_vars

(* Once the household is gone, so are the objects of all the documents it  *)
(* had when its owner confirmed, through storage failures, crashes and     *)
(* deliveries to two workers.                                              *)
DeletionTakesTheDocuments ==
    ~alive => promised \cap objects = {}
=============================================================================
