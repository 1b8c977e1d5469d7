-------------------------------- MODULE Ledger --------------------------------
(***************************************************************************)
(* The transaction ledger of a household (modules/transactions, accounts): *)
(* rows that devices report in batches, batches that are sent again,       *)
(* observations of one payment by several devices, rows entered by hand,   *)
(* corrections and deletions, and the account they are booked on.          *)
(*                                                                         *)
(* An observation is named by the client id its device gives it, has the   *)
(* bank's reference or none, and belongs to a class of observations with   *)
(* the same amount, direction, normalized merchant and five-minute bucket: *)
(* with the account, that class is what fallbackFingerprint hashes.  A     *)
(* device gives one id to one observation, and every observation carries   *)
(* the last digits of the account.  A transaction of the database whose    *)
(* statements no other one can disturb is one step.                        *)
(***************************************************************************)
EXTENDS Integers, Sequences, FiniteSets

CONSTANTS
    Syncs,        \* batches the backend works on at a time
    Items,        \* observations: [client, ref, class]
    Batches,      \* sequences of observations a device may send
    None,
    MaxSyncs,     \* bound: batches that are sent
    MaxRows       \* bound: transactions ever inserted

Clients == {i.client : i \in Items}
References == {i.ref : i \in Items} \ {None}
Classes == {i.class : i \in Items}

ASSUME ItemsHaveTheirId == \A i, j \in Items : i.client = j.client => i = j
\* An empty batch is answered without a look at any row.
ASSUME BatchesAreItems == Batches \subseteq Seq(Items) \ {<<>>}
ASSUME BoundsAreNatural == MaxSyncs \in Nat /\ MaxRows \in Nat
ASSUME NoneIsNoName == None \notin Clients \cup Classes

VARIABLES
    ledger,       \* transactions, in the order of their insertion
    sources,      \* transaction_sources: [client, row]; None for manual rows
    account,      \* the accounts row, and whether its deletion is under way
    sync,         \* the batches under way
    sent,         \* how many batches were sent
    owed,         \* history: the observations of the batches that were answered,
    deleted,      \* and of those not the ones whose row the user has deleted
    straddled     \* history: observations without a reference that were being
                  \* booked when the account was created or deleted

vars == <<ledger, sources, account, sync, sent, owed, deleted, straddled>>

-----------------------------------------------------------------------------
(* Confirmed is a row the user has verified since the last collision.      *)
Statuses == {"verified", "needs_review", "confirmed"}
Steps == {"idle", "replay", "account", "reference", "canonical", "fingerprint", "insert"}

IdleSync == [at |-> "idle", batch |-> <<>>, next |-> 1, account |-> FALSE, collides |-> FALSE]

Present == {t \in DOMAIN ledger : ledger[t].present}
Item(s) == sync[s].batch[sync[s].next]

(* fallbackFingerprint.                                                    *)
Fingerprint(class, booked) == [class |-> class, account |-> booked]
NoFingerprint == Fingerprint(None, FALSE)
ItemFingerprint(s) == Fingerprint(Item(s).class, sync[s].account)

WithReference(ref) == {t \in Present : ref # None /\ ledger[t].ref = ref}
WithFingerprint(print) == {t \in Present : ledger[t].print = print}
Recorded(client) == \E source \in sources : source.client = client

Row(item, booked, print, status) ==
    [present |-> TRUE, by |-> item.client, ref |-> item.ref, account |-> booked,
     print |-> print, status |-> status]

DeletedRow == [Row([client |-> None, ref |-> None], FALSE, NoFingerprint, "verified")
                 EXCEPT !.present = FALSE]

(* The insert of a source does nothing when its client id has one.         *)
SourceOf(client, t) ==
    IF Recorded(client) THEN sources ELSE sources \cup {[client |-> client, row |-> t]}

(* The foreign key to the account.                                         *)
AccountIsThere(booked) == booked => account.state = "open"

Goes(s, at) == sync' = [sync EXCEPT ![s].at = at]

(* The next observation of the batch, or the answer.                       *)
NextItem(s) ==
    IF sync[s].next = Len(sync[s].batch)
    THEN /\ sync' = [sync EXCEPT ![s] = IdleSync]
         /\ owed' = owed \cup ({sync[s].batch[n].client : n \in DOMAIN sync[s].batch} \ deleted)
    ELSE /\ sync' = [sync EXCEPT ![s] = [IdleSync EXCEPT !.at = "replay", !.batch = sync[s].batch,
                                                       !.next = sync[s].next + 1]]
         /\ UNCHANGED owed

Ends(s) == sync' = [sync EXCEPT ![s] = IdleSync] /\ UNCHANGED owed

-----------------------------------------------------------------------------
(* syncTransactions *)

StartSync(s) ==
    /\ sync[s].at = "idle"
    /\ sent < MaxSyncs
    /\ sent' = sent + 1
    /\ \E batch \in Batches : sync' = [sync EXCEPT ![s] = [@ EXCEPT !.at = "replay", !.batch = batch]]
    /\ UNCHANGED <<ledger, sources, account, owed, deleted, straddled>>

LookForReplay(s) ==
    /\ sync[s].at = "replay"
    /\ IF Recorded(Item(s).client) THEN NextItem(s)
       ELSE Goes(s, "account") /\ UNCHANGED owed
    /\ UNCHANGED <<ledger, sources, account, sent, deleted, straddled>>

ResolveAccount(s) ==
    /\ sync[s].at = "account"
    /\ sync' = [sync EXCEPT ![s].account = (account.state = "open"),
                            ![s].at = IF Item(s).ref = None THEN "fingerprint" ELSE "reference"]
    /\ UNCHANGED <<ledger, sources, account, sent, owed, deleted, straddled>>

(* With a reference: the row is inserted with its source, unless the       *)
(* reference has a row; a broken foreign key ends the batch.               *)
InsertReferenced(s) ==
    LET i == Item(s)
        t == Len(ledger) + 1 IN
    /\ sync[s].at = "reference"
    /\ \/ /\ WithReference(i.ref) # {}
          /\ Goes(s, "canonical")
          /\ UNCHANGED <<ledger, sources, owed>>
       \/ /\ WithReference(i.ref) = {}
          /\ AccountIsThere(sync[s].account)
          /\ t <= MaxRows
          /\ ledger' = Append(ledger, Row(i, sync[s].account, NoFingerprint, "verified"))
          /\ sources' = SourceOf(i.client, t)
          /\ NextItem(s)
       \/ /\ WithReference(i.ref) = {}
          /\ ~AccountIsThere(sync[s].account)
          /\ Ends(s)
          /\ UNCHANGED <<ledger, sources>>
    /\ UNCHANGED <<account, sent, deleted, straddled>>

(* A conflict on the reference is taken for a replay.                      *)
AttachNothing(s) ==
    /\ sync[s].at = "canonical"
    /\ NextItem(s)
    /\ UNCHANGED <<ledger, sources, account, sent, deleted, straddled>>

(* The source is attached to the row that has the reference; when the user *)
(* has just deleted it the batch ends with SYNC_CONFLICT.                  *)
AttachToCanonical(s) ==
    LET i == Item(s) IN
    /\ sync[s].at = "canonical"
    /\ \/ \E t \in WithReference(i.ref) : sources' = SourceOf(i.client, t) /\ NextItem(s)
       \/ WithReference(i.ref) = {} /\ Ends(s) /\ UNCHANGED sources
    /\ UNCHANGED <<ledger, account, sent, deleted, straddled>>

(* The lock is of the client id.                                           *)
LockClient(s) ==
    /\ sync[s].at = "fingerprint"
    /\ \A other \in Syncs : sync[other].at = "insert" => Item(other).client # Item(s).client
    /\ IF Recorded(Item(s).client) THEN NextItem(s)
       ELSE /\ sync' = [sync EXCEPT ![s].at = "insert",
                                    ![s].collides = WithFingerprint(ItemFingerprint(s)) # {}]
            /\ UNCHANGED owed
    /\ UNCHANGED <<ledger, sources, account, sent, deleted, straddled>>

(* The lock is taken, but the replay is not looked for again.              *)
LockFingerprintOnly(s) ==
    /\ sync[s].at = "fingerprint"
    /\ \A other \in Syncs : sync[other].at = "insert" => ItemFingerprint(other) # ItemFingerprint(s)
    /\ sync' = [sync EXCEPT ![s].at = "insert",
                            ![s].collides = WithFingerprint(ItemFingerprint(s)) # {}]
    /\ UNCHANGED <<ledger, sources, account, sent, owed, deleted, straddled>>

(* Without a reference: under the advisory lock of the fingerprint, which  *)
(* is held until the row is inserted, the replay is looked for again and   *)
(* the rows that look the same are read.                                   *)
LockFingerprint(s) ==
    /\ sync[s].at = "fingerprint"
    /\ \A other \in Syncs : sync[other].at = "insert" => ItemFingerprint(other) # ItemFingerprint(s)
    /\ IF Recorded(Item(s).client) THEN NextItem(s)
       ELSE /\ sync' = [sync EXCEPT ![s].at = "insert",
                                    ![s].collides = WithFingerprint(ItemFingerprint(s)) # {}]
            /\ UNCHANGED owed
    /\ UNCHANGED <<ledger, sources, account, sent, deleted, straddled>>

InsertFallback(s) ==
    LET i == Item(s)
        t == Len(ledger) + 1
        print == ItemFingerprint(s)
        status == IF sync[s].collides THEN "needs_review" ELSE "verified"
        marked == IF ~sync[s].collides THEN ledger
                  ELSE [u \in DOMAIN ledger |->
                          IF u \in WithFingerprint(print)
                          THEN [ledger[u] EXCEPT !.status = "needs_review"]
                          ELSE ledger[u]] IN
    /\ sync[s].at = "insert"
    /\ \/ /\ AccountIsThere(sync[s].account)
          /\ t <= MaxRows
          /\ ledger' = Append(marked, Row(i, sync[s].account, print, status))
          /\ sources' = SourceOf(i.client, t)
          /\ NextItem(s)
       \/ /\ ~AccountIsThere(sync[s].account)
          /\ Ends(s)
          /\ UNCHANGED <<ledger, sources>>
    /\ UNCHANGED <<account, sent, deleted, straddled>>

(* The process dies, or the connection breaks: what was committed stays,   *)
(* and the device has no answer.                                           *)
Interrupt(s) ==
    /\ sync[s].at # "idle"
    /\ Ends(s)
    /\ UNCHANGED <<ledger, sources, account, sent, deleted, straddled>>

-----------------------------------------------------------------------------
(* The user *)

(* The rows entered by hand that we look at have a reference.              *)
CreateManualTransaction(ref, booked) ==
    LET t == Len(ledger) + 1 IN
    /\ WithReference(ref) = {}
    /\ AccountIsThere(booked)
    /\ t <= MaxRows
    /\ ledger' = Append(ledger, Row([client |-> None, ref |-> ref], booked, NoFingerprint, "verified"))
    /\ sources' = sources \cup {[client |-> None, row |-> t]}
    /\ UNCHANGED <<account, sync, sent, owed, deleted, straddled>>

(* The fingerprint stays what it was when the row was reported.            *)
UpdateTransaction(t, status, booked) ==
    /\ t \in Present
    /\ booked # ledger[t].account => AccountIsThere(booked)
    /\ ledger' = [ledger EXCEPT ![t].status = status, ![t].account = booked]
    /\ UNCHANGED <<sources, account, sync, sent, owed, deleted, straddled>>

(* The row goes and its sources stay.                                      *)
DeleteTransactionOnly(t) ==
    /\ t \in Present
    /\ ledger' = [ledger EXCEPT ![t] = DeletedRow]
    /\ UNCHANGED <<sources, account, sync, sent, owed, deleted, straddled>>

(* The sources go with the row.                                            *)
DeleteTransaction(t) ==
    /\ t \in Present
    /\ ledger' = [ledger EXCEPT ![t] = DeletedRow]
    /\ sources' = {source \in sources : source.row # t}
    /\ LET gone == {c \in Clients : [client |-> c, row |-> t] \in sources} IN
          /\ deleted' = deleted \cup gone
          /\ owed' = owed \ gone
    /\ UNCHANGED <<account, sync, sent, straddled>>

Booking == {Item(s).client : s \in {r \in Syncs : sync[r].at \in {"fingerprint", "insert"}}}

CreateAccount ==
    /\ account.state = "absent"
    /\ account' = [account EXCEPT !.state = "open"]
    /\ straddled' = straddled \cup Booking
    /\ UNCHANGED <<ledger, sources, sync, sent, owed, deleted>>

(* The account is deleted because it had no rows when it was looked at.    *)
FinishDeleteAccountUnchecked ==
    /\ account.deleting
    /\ account' = [state |-> "deleted", deleting |-> FALSE]
    /\ straddled' = straddled \cup Booking
    /\ UNCHANGED <<ledger, sources, sync, sent, owed, deleted>>

BeginDeleteAccount ==
    /\ account.state = "open"
    /\ ~account.deleting
    /\ \A t \in Present : ~ledger[t].account
    /\ account' = [account EXCEPT !.deleting = TRUE]
    /\ UNCHANGED <<ledger, sources, sync, sent, owed, deleted, straddled>>

(* A row that was booked in between refuses the deletion (on delete        *)
(* restrict).                                                              *)
FinishDeleteAccount ==
    /\ account.deleting
    /\ account' = [state |-> IF \E t \in Present : ledger[t].account THEN "open" ELSE "deleted",
                   deleting |-> FALSE]
    /\ straddled' = straddled \cup Booking
    /\ UNCHANGED <<ledger, sources, sync, sent, owed, deleted>>

-----------------------------------------------------------------------------
Init ==
    /\ ledger = <<>>
    /\ sources = {}
    /\ account = [state |-> "absent", deleting |-> FALSE]
    /\ sync = [s \in Syncs |-> IdleSync]
    /\ sent = 0
    /\ owed = {}
    /\ deleted = {}
    /\ straddled = {}

Next ==
    \/ \E s \in Syncs :
          \/ StartSync(s) \/ LookForReplay(s) \/ ResolveAccount(s)
          \/ InsertReferenced(s) \/ AttachToCanonical(s)
          \/ LockFingerprint(s) \/ InsertFallback(s) \/ Interrupt(s)
    \/ \E ref \in References, booked \in BOOLEAN : CreateManualTransaction(ref, booked)
    \/ \E t \in DOMAIN ledger :
          \/ DeleteTransaction(t)
          \/ \E status \in {"needs_review", "confirmed"}, booked \in BOOLEAN : UpdateTransaction(t, status, booked)
    \/ CreateAccount \/ BeginDeleteAccount \/ FinishDeleteAccount

Spec == Init /\ [][Next]_vars

-----------------------------------------------------------------------------
(* Rows are typed, a source refers to a row that is there, and a reference *)
(* has at most one row.                                                    *)
TypeOK ==
    /\ \A t \in DOMAIN ledger :
          ledger[t] \in [present : BOOLEAN, by : Clients \cup {None}, ref : References \cup {None},
                         account : BOOLEAN, print : [class : Classes \cup {None}, account : BOOLEAN],
                         status : Statuses]
    /\ sources \subseteq [client : Clients \cup {None}, row : Present]
    /\ \A ref \in References : Cardinality(WithReference(ref)) <= 1
    /\ account \in [state : {"absent", "open", "deleted"}, deleting : BOOLEAN]
    /\ \A s \in Syncs :
          /\ sync[s].at \in Steps
          /\ sync[s].at # "idle" => sync[s].next \in DOMAIN sync[s].batch
    /\ sent \in 0..MaxSyncs
    /\ owed \cup deleted \cup straddled \subseteq Clients

(* However often and by however many requests at a time a batch is sent    *)
(* and interrupted, an observation makes at most one row, and every row    *)
(* has the source that tells where it comes from (syncTransactions).  The  *)
(* exception is an observation whose deliveries straddle a change of the   *)
(* account: they take the locks of two fingerprints, and both insert.      *)
ObservationsCountOnce ==
    /\ \A c \in Clients \ straddled : Cardinality({t \in Present : ledger[t].by = c}) <= 1
    /\ \A t \in Present :
          ledger[t].by \in straddled \/ \E source \in sources : source.row = t

(* A batch that is answered is recorded: each of its observations is the   *)
(* source of a row, its own or the one that has its reference, unless the  *)
(* user has deleted that row.                                              *)
AnsweredBatchesAreRecorded == \A c \in owed : Recorded(c)

(* Observations without a reference that look the same are never merged    *)
(* and never pass silently: both wait for a review, or the user has        *)
(* settled the status after the later one arrived (syncTransactions).      *)
LookalikesAreReviewed ==
    \A t, u \in Present :
        t # u /\ ledger[t].print = ledger[u].print /\ ledger[t].print # NoFingerprint
            => ledger[t].status \in {"needs_review", "confirmed"}

(* A row's account is there, although both sides look first and write      *)
(* later (deleteAccount, syncTransactions).                                *)
HistoryKeepsItsAccount == \A t \in Present : AccountIsThere(ledger[t].account)
=============================================================================
