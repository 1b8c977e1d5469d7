----------------------------- MODULE Ledger_proofs -----------------------------
(***************************************************************************)
(* The ledger counts every observation once, records what it answered and  *)
(* keeps the account of its rows, for any number of devices, batches,      *)
(* observations and rows.                                                  *)
(***************************************************************************)
EXTENDS Ledger, SequenceTheorems, FiniteSetTheorems, TLAPS

Prints == [class : Classes \cup {None}, account : BOOLEAN]
Rows == [present : BOOLEAN, by : Clients \cup {None}, ref : References \cup {None},
         account : BOOLEAN, print : Prints, status : Statuses]
Works == [at : Steps, batch : Seq(Items), next : Nat \ {0}, account : BOOLEAN, collides : BOOLEAN]

(* An observation with a reference and one without go different ways.      *)
WorkTyped(w) ==
    /\ w \in Works
    /\ IF w.at = "idle" THEN w.next = 1 ELSE w.next \in 1..Len(w.batch)
    /\ w.at \in {"reference", "canonical"} => w.batch[w.next].ref # None
    /\ w.at \in {"fingerprint", "insert"} => w.batch[w.next].ref = None

RowsTyped ==
    /\ ledger \in Seq(Rows)
    /\ sources \subseteq [client : Clients \cup {None}, row : Present]

SyncTyped == DOMAIN sync = Syncs /\ sync = [s \in Syncs |-> sync[s]] /\ \A s \in Syncs : WorkTyped(sync[s])

RestTyped ==
    /\ account \in [state : {"absent", "open", "deleted"}, deleting : BOOLEAN]
    /\ sent \in 0..MaxSyncs
    /\ owed \cup deleted \cup straddled \subseteq Clients

Typed == RowsTyped /\ SyncTyped /\ RestTyped

-----------------------------------------------------------------------------
(* What the helpers do *)

(* A batch is at one of its observations. *)
LEMMA ItemsAreItems ==
    ASSUME SyncTyped, NEW s \in Syncs, sync[s].at # "idle"
    PROVE  Item(s) \in Items /\ Item(s).client \in Clients
<1>1. sync[s].batch \in Seq(Items) /\ sync[s].next \in 1..Len(sync[s].batch)
  BY DEF SyncTyped, WorkTyped, Works
<1> QED
  BY <1>1 DEF Item, Clients

(* A batch moves on: the other ones stay where they are. *)
LEMMA WorkMoves ==
    ASSUME SyncTyped, NEW s \in Syncs, NEW w, WorkTyped(w), sync' = [sync EXCEPT ![s] = w]
    PROVE  /\ SyncTyped'
           /\ sync'[s] = w
           /\ \A r \in Syncs \ {s} : sync'[r] = sync[r]
<1>1. /\ sync'[s] = w
      /\ \A r \in Syncs \ {s} : sync'[r] = sync[r]
      /\ DOMAIN sync' = Syncs /\ sync' = [r \in Syncs |-> sync'[r]]
  BY DEF SyncTyped
<1> QED
  BY <1>1 DEF SyncTyped

LEMMA IdleIsTyped == WorkTyped(IdleSync)
<1>1. <<>> \in Seq(Items)
  OBVIOUS
<1> QED
  BY <1>1 DEF WorkTyped, IdleSync, Works, Steps

LEMMA WorkEnds ==
    ASSUME SyncTyped, NEW s \in Syncs, Ends(s)
    PROVE  /\ SyncTyped'
           /\ sync'[s].at = "idle"
           /\ \A r \in Syncs \ {s} : sync'[r] = sync[r]
<1>1. sync' = [sync EXCEPT ![s] = IdleSync]
  BY DEF Ends
<1>2. SyncTyped' /\ sync'[s] = IdleSync /\ \A r \in Syncs \ {s} : sync'[r] = sync[r]
  BY <1>1, IdleIsTyped, WorkMoves
<1> QED
  BY <1>2 DEF IdleSync

LEMMA WorkReplays ==
    ASSUME NEW batch \in Seq(Items), NEW next \in Nat \ {0}
    PROVE  LET w == [IdleSync EXCEPT !.at = "replay", !.batch = batch, !.next = next]
           IN  w \in Works /\ w.at = "replay" /\ w.batch = batch /\ w.next = next
  BY IdleIsTyped DEF WorkTyped, Works, Steps

(* After an observation the batch is answered or looks at the next one. *)
LEMMA NextItemMoves ==
    ASSUME SyncTyped, NEW s \in Syncs, sync[s].at # "idle", NextItem(s)
    PROVE  /\ SyncTyped'
           /\ \A r \in Syncs \ {s} : sync'[r] = sync[r]
           /\ \/ /\ sync'[s].at = "idle"
                 /\ sync[s].next = Len(sync[s].batch)
                 /\ owed' = owed \cup ({sync[s].batch[n].client : n \in DOMAIN sync[s].batch} \ deleted)
              \/ /\ sync'[s].at = "replay"
                 /\ sync'[s].batch = sync[s].batch
                 /\ sync'[s].next = sync[s].next + 1
                 /\ owed' = owed
<1>1. /\ sync[s].batch \in Seq(Items)
      /\ sync[s].next \in 1..Len(sync[s].batch)
      /\ Len(sync[s].batch) \in Nat
  BY DEF SyncTyped, WorkTyped, Works
<1>2. CASE sync[s].next = Len(sync[s].batch)
  <2>1. sync' = [sync EXCEPT ![s] = IdleSync]
    BY <1>2 DEF NextItem
  <2>2. SyncTyped' /\ sync'[s] = IdleSync /\ \A r \in Syncs \ {s} : sync'[r] = sync[r]
    BY <2>1, IdleIsTyped, WorkMoves
  <2>3. owed' = owed \cup ({sync[s].batch[n].client : n \in DOMAIN sync[s].batch} \ deleted)
    BY <1>2 DEF NextItem
  <2> QED
    BY <1>2, <2>2, <2>3 DEF IdleSync
<1>3. CASE sync[s].next # Len(sync[s].batch)
  <2> DEFINE n == sync[s].next + 1
             w == [IdleSync EXCEPT !.at = "replay", !.batch = sync[s].batch, !.next = n]
  <2>1. sync' = [sync EXCEPT ![s] = w] /\ owed' = owed
    BY <1>3 DEF NextItem
  <2>5. n \in Nat \ {0} /\ n \in 1..Len(sync[s].batch)
    BY <1>1, <1>3
  <2> HIDE DEF n
  <2>2. w \in Works /\ w.at = "replay" /\ w.batch = sync[s].batch /\ w.next = n
    BY <1>1, <2>5, WorkReplays
  <2> HIDE DEF w
  <2>3. WorkTyped(w)
    BY <1>1, <1>3, <2>2, <2>5 DEF WorkTyped
  <2>4. SyncTyped' /\ sync'[s] = w /\ \A r \in Syncs \ {s} : sync'[r] = sync[r]
    BY <2>1, <2>3, WorkMoves
  <2> QED
    BY <2>1, <2>2, <2>4 DEF n
<1> QED
  BY <1>2, <1>3

(* What is owed are observations of devices. *)
LEMMA OwedAreClients ==
    ASSUME SyncTyped, RestTyped, NEW s \in Syncs, sync[s].at # "idle", NextItem(s)
    PROVE  owed' \subseteq Clients
<1>1. sync[s].batch \in Seq(Items)
  BY DEF SyncTyped, WorkTyped, Works
<1>2. {sync[s].batch[n].client : n \in DOMAIN sync[s].batch} \subseteq Clients
  BY <1>1 DEF Clients
<1> QED
  BY <1>2, NextItemMoves DEF RestTyped

(* A row is inserted behind the others, of which only the status may change. *)
Alike(t, u) == /\ t.present = u.present /\ t.by = u.by /\ t.ref = u.ref
               /\ t.account = u.account /\ t.print = u.print

LEMMA RowInserted ==
    ASSUME RowsTyped, NEW marked \in Seq(Rows), Len(marked) = Len(ledger),
           \A u \in 1..Len(ledger) : Alike(marked[u], ledger[u]),
           NEW row \in Rows, row.present, ledger' = Append(marked, row)
    PROVE  /\ ledger' \in Seq(Rows)
           /\ \A u \in 1..Len(ledger) : ledger'[u] = marked[u]
           /\ ledger'[Len(ledger) + 1] = row
           /\ Present' = Present \cup {Len(ledger) + 1}
           /\ Len(ledger) + 1 \notin Present
           /\ Present \subseteq 1..Len(ledger)
           /\ Len(ledger) \in Nat
<1>1. ledger \in Seq(Rows) /\ Len(ledger) \in Nat /\ DOMAIN ledger = 1..Len(ledger)
  BY DEF RowsTyped
<1>2. /\ ledger' \in Seq(Rows)
      /\ Len(ledger') = Len(ledger) + 1
      /\ DOMAIN ledger' = 1..(Len(ledger) + 1)
      /\ \A u \in 1..Len(ledger) : ledger'[u] = marked[u]
      /\ ledger'[Len(ledger) + 1] = row
  BY <1>1
<1>3. Present' = Present \cup {Len(ledger) + 1}
  BY <1>1, <1>2 DEF Present, Alike
<1> QED
  BY <1>1, <1>2, <1>3 DEF Present

(* A source is added only when its observation has none. *)
LEMMA SourceAdded ==
    ASSUME RowsTyped, NEW c, NEW t, sources' = SourceOf(c, t)
    PROVE  /\ Recorded(c)'
           /\ \A d : Recorded(d) => Recorded(d)'
           /\ \A d : d # c /\ Recorded(d)' => Recorded(d)
           /\ sources \subseteq sources'
           /\ sources' \subseteq sources \cup {[client |-> c, row |-> t]}
           /\ Recorded(c) => sources' = sources
           /\ ~Recorded(c) => sources' = sources \cup {[client |-> c, row |-> t]}
<1> DEFINE new == [client |-> c, row |-> t]
<1>1. CASE Recorded(c)
  BY <1>1 DEF SourceOf, Recorded
<1>2. CASE ~Recorded(c)
  <2>1. sources' = sources \cup {new} /\ new.client = c
    BY <1>2 DEF SourceOf
  <2>2. \A d : Recorded(d)' <=> d = c \/ Recorded(d)
    BY <2>1 DEF Recorded
  <2> QED
    BY <1>2, <2>1, <2>2
<1> QED
  BY <1>1, <1>2

(* What an insert leaves of the types. *)
LEMMA InsertTyped ==
    ASSUME RowsTyped, NEW marked \in Seq(Rows), Len(marked) = Len(ledger),
           \A u \in 1..Len(ledger) : Alike(marked[u], ledger[u]),
           NEW row \in Rows, row.present, ledger' = Append(marked, row),
           NEW c \in Clients \cup {None},
           sources' \subseteq sources \cup {[client |-> c, row |-> Len(ledger) + 1]}
    PROVE  RowsTyped'
<1>1. ledger' \in Seq(Rows) /\ Present' = Present \cup {Len(ledger) + 1}
  BY RowInserted
<1> QED
  BY <1>1 DEF RowsTyped

(* The rows that look like an observation, as they are marked for review.  *)
Marked(print, collides) ==
    IF ~collides THEN ledger
    ELSE [u \in DOMAIN ledger |->
            IF u \in WithFingerprint(print)
            THEN [ledger[u] EXCEPT !.status = "needs_review"]
            ELSE ledger[u]]

LEMMA MarkedAreAlike ==
    ASSUME RowsTyped, NEW print, NEW collides \in BOOLEAN
    PROVE  LET marked == Marked(print, collides) IN
           /\ marked \in Seq(Rows)
           /\ Len(marked) = Len(ledger)
           /\ \A u \in 1..Len(ledger) :
                 /\ Alike(marked[u], ledger[u])
                 /\ marked[u].status \in {ledger[u].status, "needs_review"}
                 /\ collides /\ u \in WithFingerprint(print) => marked[u].status = "needs_review"
<1> DEFINE marked == Marked(print, collides)
<1>1. ledger \in Seq(Rows) /\ DOMAIN ledger = 1..Len(ledger) /\ Len(ledger) \in Nat
  BY DEF RowsTyped
<1>2. CASE ~collides
  BY <1>1, <1>2 DEF Marked, Alike
<1>3. CASE collides
  <2>1. /\ DOMAIN marked = 1..Len(ledger)
        /\ \A u \in 1..Len(ledger) :
              marked[u] = IF u \in WithFingerprint(print)
                          THEN [ledger[u] EXCEPT !.status = "needs_review"]
                          ELSE ledger[u]
        /\ marked = [u \in 1..Len(ledger) |-> marked[u]]
    BY <1>1, <1>3 DEF Marked
  <2>2. \A u \in 1..Len(ledger) : ledger[u] \in Rows
    BY <1>1
  <2>3. \A u \in 1..Len(ledger) :
          /\ marked[u] \in Rows
          /\ Alike(marked[u], ledger[u])
          /\ marked[u].status \in {ledger[u].status, "needs_review"}
          /\ u \in WithFingerprint(print) => marked[u].status = "needs_review"
    BY <2>1, <2>2 DEF Rows, Statuses, Alike
  <2> HIDE DEF marked
  <2>4. marked \in Seq(Rows) /\ Len(marked) = Len(ledger)
    BY <1>1, <2>1, <2>3
  <2> QED
    BY <1>3, <2>3, <2>4 DEF marked
<1> QED
  BY <1>2, <1>3

(* The row of an observation. *)
LEMMA RowsOfItems ==
    ASSUME NEW i \in Items, NEW booked \in BOOLEAN, NEW print \in Prints, NEW status \in Statuses
    PROVE  LET row == Row(i, booked, print, status) IN
           /\ row \in Rows /\ row.present /\ row.by = i.client /\ row.ref = i.ref
           /\ row.account = booked /\ row.print = print /\ row.status = status
  BY DEF Row, Rows, Clients, References

LEMMA PrintsAreTyped ==
    /\ NoFingerprint \in Prints
    /\ \A i \in Items, booked \in BOOLEAN : Fingerprint(i.class, booked) \in Prints
  BY DEF NoFingerprint, Fingerprint, Prints, Classes

LEMMA PrintsOfItems ==
    ASSUME SyncTyped, NEW s \in Syncs, sync[s].at # "idle"
    PROVE  ItemFingerprint(s) # NoFingerprint
<1>1. Item(s).class \in Classes
  BY ItemsAreItems DEF Classes
<1> QED
  BY <1>1, NoneIsNoName DEF ItemFingerprint, NoFingerprint, Fingerprint

LEMMA SelfIsAlike ==
    ASSUME RowsTyped
    PROVE  /\ ledger \in Seq(Rows)
           /\ \A u \in 1..Len(ledger) : Alike(ledger[u], ledger[u])
  BY DEF RowsTyped, Alike

(* InsertReferenced and InsertFallback insert the row of their observation. *)
LEMMA ReferencedInserts ==
    ASSUME RowsTyped, SyncTyped, NEW s \in Syncs, InsertReferenced(s)
    PROVE  LET row == Row(Item(s), sync[s].account, NoFingerprint, "verified") IN
           /\ sync[s].at = "reference"
           /\ row \in Rows /\ row.present
           /\ \/ ledger' = ledger /\ sources' = sources
              \/ /\ WithReference(Item(s).ref) = {}
                 /\ AccountIsThere(sync[s].account)
                 /\ ledger' = Append(ledger, row)
                 /\ sources' = SourceOf(Item(s).client, Len(ledger) + 1)
                 /\ NextItem(s)
<1>1. sync[s].at = "reference"
  BY DEF InsertReferenced
<1>2. Item(s) \in Items /\ sync[s].account \in BOOLEAN
  BY <1>1, ItemsAreItems DEF SyncTyped, WorkTyped, Works
<1>3. "verified" \in Statuses
  BY DEF Statuses
<1> QED
  BY <1>1, <1>2, <1>3, RowsOfItems, PrintsAreTyped DEF InsertReferenced

LEMMA FallbackInserts ==
    ASSUME RowsTyped, SyncTyped, NEW s \in Syncs, InsertFallback(s)
    PROVE  LET status == IF sync[s].collides THEN "needs_review" ELSE "verified"
               row == Row(Item(s), sync[s].account, ItemFingerprint(s), status)
               marked == Marked(ItemFingerprint(s), sync[s].collides) IN
           /\ sync[s].at = "insert"
           /\ row \in Rows /\ row.present
           /\ \/ ledger' = ledger /\ sources' = sources /\ Ends(s)
              \/ /\ AccountIsThere(sync[s].account)
                 /\ ledger' = Append(marked, row)
                 /\ sources' = SourceOf(Item(s).client, Len(ledger) + 1)
                 /\ NextItem(s)
<1>1. sync[s].at = "insert"
  BY DEF InsertFallback
<1>2. Item(s) \in Items /\ sync[s].account \in BOOLEAN /\ sync[s].collides \in BOOLEAN
  BY <1>1, ItemsAreItems DEF SyncTyped, WorkTyped, Works
<1>3. ItemFingerprint(s) \in Prints
  BY <1>2, PrintsAreTyped DEF ItemFingerprint
<1>4. {"verified", "needs_review"} \subseteq Statuses
  BY DEF Statuses
<1>5. LET status == IF sync[s].collides THEN "needs_review" ELSE "verified"
          row == Row(Item(s), sync[s].account, ItemFingerprint(s), status) IN
      row \in Rows /\ row.present
  BY <1>2, <1>3, <1>4, RowsOfItems
<1> QED
  BY <1>1, <1>5 DEF InsertFallback, Marked

(* An update leaves everything of a row but its status and its account. *)
LEMMA RowUpdated ==
    ASSUME RowsTyped, NEW t \in Present, NEW status \in Statuses, NEW booked \in BOOLEAN,
           ledger' = [ledger EXCEPT ![t].status = status, ![t].account = booked]
    PROVE  /\ ledger' \in Seq(Rows)
           /\ DOMAIN ledger' = DOMAIN ledger
           /\ Present' = Present
           /\ \A u \in DOMAIN ledger \ {t} : ledger'[u] = ledger[u]
           /\ ledger'[t].by = ledger[t].by /\ ledger'[t].ref = ledger[t].ref
           /\ ledger'[t].print = ledger[t].print
           /\ ledger'[t].status = status /\ ledger'[t].account = booked
<1> DEFINE row == [ledger[t] EXCEPT !.status = status, !.account = booked]
<1>1. ledger \in Seq(Rows) /\ t \in DOMAIN ledger /\ ledger[t] \in Rows /\ ledger[t].present
  BY DEF RowsTyped, Present
<1>2. ledger' = [ledger EXCEPT ![t] = row]
  BY <1>1
<1>3. /\ row \in Rows /\ row.present /\ row.by = ledger[t].by /\ row.ref = ledger[t].ref
      /\ row.print = ledger[t].print /\ row.status = status /\ row.account = booked
  BY <1>1 DEF Rows
<1> HIDE DEF row
<1>4. ledger' \in Seq(Rows) /\ DOMAIN ledger' = DOMAIN ledger
  <2>1. row \in Rows /\ t \in 1..Len(ledger) /\ ledger \in Seq(Rows)
    BY <1>1, <1>3
  <2>2. ledger' \in Seq(Rows) /\ Len(ledger') = Len(ledger)
    BY SMTT(30), <1>2, <2>1, ExceptSeq
  <2> QED
    BY <2>1, <2>2
<1>6. ledger'[t] = row /\ \A u \in DOMAIN ledger \ {t} : ledger'[u] = ledger[u]
  BY <1>1, <1>2
<1>5. Present' = Present
  BY <1>1, <1>3, <1>4, <1>6 DEF Present
<1> QED
  BY <1>3, <1>4, <1>5, <1>6

(* A deletion leaves the other rows as they are. *)
LEMMA RowDeleted ==
    ASSUME RowsTyped, NEW t \in Present, ledger' = [ledger EXCEPT ![t] = DeletedRow]
    PROVE  /\ ledger' \in Seq(Rows)
           /\ Present' = Present \ {t}
           /\ \A u \in Present' : ledger'[u] = ledger[u]
<1>1. DeletedRow \in Rows /\ ~DeletedRow.present
  BY PrintsAreTyped DEF DeletedRow, Row, Rows, Statuses
<1>2. ledger' \in Seq(Rows) /\ DOMAIN ledger' = DOMAIN ledger
  <2>1. t \in DOMAIN ledger
    BY DEF Present
  <2> QED
    BY <1>1, <2>1 DEF RowsTyped
<1> QED
  BY <1>1, <1>2 DEF Present, RowsTyped

-----------------------------------------------------------------------------
(* Types *)

(* The steps that leave the batch at the same observation. *)
LEMMA StepsOfAnItem ==
    ASSUME Typed, NEW s \in Syncs, NEW w, w \in Works, w.at \in Steps \ {"idle"},
           w.batch = sync[s].batch, w.next = sync[s].next, sync[s].at # "idle",
           w.at \in {"reference", "canonical"} => Item(s).ref # None,
           w.at \in {"fingerprint", "insert"} => Item(s).ref = None
    PROVE  WorkTyped(w)
  BY DEF Typed, SyncTyped, WorkTyped, Item

LEMMA StepTyped == Typed /\ [Next]_vars => Typed'
<1> SUFFICES ASSUME Typed, [Next]_vars PROVE Typed'
  OBVIOUS
<1> RowsTyped /\ SyncTyped /\ RestTyped
  BY DEF Typed
<1>0. /\ \A s \in Syncs : sync[s] \in Works
      /\ MaxSyncs \in Nat
      /\ \A s \in Syncs : sync[s].at # "idle" => Item(s) \in Items /\ Item(s).client \in Clients
  BY BoundsAreNatural, ItemsAreItems DEF SyncTyped, WorkTyped
<1>1. ASSUME NEW s \in Syncs, StartSync(s) PROVE Typed'
  <2>1. PICK batch \in Batches : sync' = [sync EXCEPT ![s] = [sync[s] EXCEPT !.at = "replay", !.batch = batch]]
    BY <1>1, <1>0 DEF StartSync
  <2> DEFINE w == [sync[s] EXCEPT !.at = "replay", !.batch = batch]
  <2>2. batch \in Seq(Items) /\ Len(batch) \in Nat /\ Len(batch) # 0
    BY BatchesAreItems, EmptySeq
  <2>3. w \in Works /\ w.at = "replay" /\ w.batch = batch /\ w.next = 1
    <3>1. PICK work \in Works : work = sync[s]
      BY <1>0
    <3>2. work.next = 1
      BY <1>1, <3>1 DEF StartSync, SyncTyped, WorkTyped
    <3>3. w = [work EXCEPT !.at = "replay", !.batch = batch]
      BY <3>1
    <3> HIDE DEF w
    <3> QED
      BY <2>2, <3>2, <3>3 DEF Works, Steps
  <2> HIDE DEF w
  <2>4. WorkTyped(w)
    BY <2>2, <2>3 DEF WorkTyped
  <2>5. SyncTyped'
    BY <2>1, <2>4, WorkMoves DEF w
  <2> QED
    BY <1>0, <1>1, <2>5 DEF StartSync, Typed, RowsTyped, RestTyped, Present
<1>2. ASSUME NEW s \in Syncs, LookForReplay(s) PROVE Typed'
  <2>1. sync[s].at = "replay" /\ UNCHANGED <<ledger, sources, account, sent, deleted, straddled>>
    BY <1>2 DEF LookForReplay
  <2>2. CASE NextItem(s)
    BY <2>1, <2>2, NextItemMoves, OwedAreClients DEF Typed, RowsTyped, RestTyped, Present
  <2>3. CASE Goes(s, "account") /\ UNCHANGED owed
    <3> DEFINE w == [sync[s] EXCEPT !.at = "account"]
    <3>1. w \in Works /\ w.at = "account" /\ w.batch = sync[s].batch /\ w.next = sync[s].next
      BY <1>0 DEF Works, Steps
    <3>2. sync' = [sync EXCEPT ![s] = w]
      BY <2>3 DEF Goes
    <3> HIDE DEF w
    <3>3. WorkTyped(w)
      BY <2>1, <3>1, StepsOfAnItem DEF Steps
    <3>4. SyncTyped'
      BY <3>2, <3>3, WorkMoves
    <3> QED
      BY <2>1, <2>3, <3>4 DEF Typed, RowsTyped, RestTyped, Present
  <2> QED
    BY <1>2, <2>2, <2>3 DEF LookForReplay
<1>3. ASSUME NEW s \in Syncs, ResolveAccount(s) PROVE Typed'
  <2> DEFINE w == [sync[s] EXCEPT !.account = (account.state = "open"),
                                  !.at = IF Item(s).ref = None THEN "fingerprint" ELSE "reference"]
  <2>1. /\ sync[s].at = "account"
        /\ sync' = [sync EXCEPT ![s] = w]
        /\ UNCHANGED <<ledger, sources, account, sent, owed, deleted, straddled>>
    BY <1>3 DEF ResolveAccount
  <2>2. /\ w \in Works /\ w.batch = sync[s].batch /\ w.next = sync[s].next
        /\ w.at = IF Item(s).ref = None THEN "fingerprint" ELSE "reference"
    BY <1>0 DEF Works, Steps
  <2> HIDE DEF w
  <2>3. WorkTyped(w)
    BY <2>1, <2>2, StepsOfAnItem DEF Steps
  <2>4. SyncTyped'
    BY <2>1, <2>3, WorkMoves
  <2> QED
    BY <2>1, <2>4 DEF Typed, RowsTyped, RestTyped, Present
<1>4. ASSUME NEW s \in Syncs, InsertReferenced(s) PROVE Typed'
  <2> DEFINE row == Row(Item(s), sync[s].account, NoFingerprint, "verified")
  <2>1. sync[s].at = "reference" /\ row \in Rows /\ row.present
    BY <1>4, ReferencedInserts
  <2>2. CASE ledger' = ledger /\ sources' = sources /\ Goes(s, "canonical") /\ owed' = owed
    <3> DEFINE w == [sync[s] EXCEPT !.at = "canonical"]
    <3>1. w \in Works /\ w.at = "canonical" /\ w.batch = sync[s].batch /\ w.next = sync[s].next
      BY <1>0 DEF Works, Steps
    <3>2. sync' = [sync EXCEPT ![s] = w]
      BY <2>2 DEF Goes
    <3> HIDE DEF w
    <3>3. Item(s).ref # None
      BY <2>1 DEF SyncTyped, WorkTyped, Item
    <3>4. WorkTyped(w)
      BY <2>1, <3>1, <3>3, StepsOfAnItem DEF Steps
    <3>5. SyncTyped'
      BY <3>2, <3>4, WorkMoves
    <3> QED
      BY <1>4, <2>2, <3>5 DEF InsertReferenced, Typed, RowsTyped, RestTyped, Present
  <2>3. CASE /\ ledger' = Append(ledger, row)
             /\ sources' = SourceOf(Item(s).client, Len(ledger) + 1)
             /\ NextItem(s)
    <3>1. sources' \subseteq sources \cup {[client |-> Item(s).client, row |-> Len(ledger) + 1]}
      BY <2>3, SourceAdded
    <3> HIDE DEF row
    <3>2. RowsTyped'
      BY <1>0, <2>1, <2>3, <3>1, SelfIsAlike, InsertTyped
    <3>3. SyncTyped' /\ owed' \subseteq Clients
      BY <2>1, <2>3, NextItemMoves, OwedAreClients
    <3> QED
      BY <1>4, <3>2, <3>3 DEF InsertReferenced, Typed, RestTyped
  <2>4. CASE ledger' = ledger /\ sources' = sources /\ Ends(s)
    BY <1>4, <2>4, WorkEnds DEF InsertReferenced, Ends, Typed, RowsTyped, RestTyped, Present
  <2> QED
    BY <1>4, <2>2, <2>3, <2>4 DEF InsertReferenced
<1>5. ASSUME NEW s \in Syncs, AttachToCanonical(s) PROVE Typed'
  <2>1. sync[s].at = "canonical" /\ UNCHANGED <<ledger, account, sent, deleted, straddled>>
    BY <1>5 DEF AttachToCanonical
  <2>2. ASSUME NEW t \in WithReference(Item(s).ref), sources' = SourceOf(Item(s).client, t), NextItem(s)
        PROVE  Typed'
    <3>1. sources' \subseteq sources \cup {[client |-> Item(s).client, row |-> t]}
      BY <2>2, SourceAdded
    <3>2. t \in Present
      BY DEF WithReference
    <3>3. RowsTyped'
      BY <1>0, <2>1, <3>1, <3>2 DEF RowsTyped, Present
    <3> QED
      BY <2>1, <2>2, <3>3, NextItemMoves, OwedAreClients DEF Typed, RestTyped
  <2>3. CASE Ends(s) /\ UNCHANGED sources
    BY <2>1, <2>3, WorkEnds DEF Ends, Typed, RowsTyped, RestTyped, Present
  <2> QED
    BY <1>5, <2>2, <2>3 DEF AttachToCanonical
<1>6. ASSUME NEW s \in Syncs, LockFingerprint(s) PROVE Typed'
  <2>1. sync[s].at = "fingerprint" /\ UNCHANGED <<ledger, sources, account, sent, deleted, straddled>>
    BY <1>6 DEF LockFingerprint
  <2>2. CASE NextItem(s)
    BY <2>1, <2>2, NextItemMoves, OwedAreClients DEF Typed, RowsTyped, RestTyped, Present
  <2>3. CASE ~NextItem(s)
    <3> DEFINE w == [sync[s] EXCEPT !.at = "insert", !.collides = WithFingerprint(ItemFingerprint(s)) # {}]
    <3>1. w \in Works /\ w.at = "insert" /\ w.batch = sync[s].batch /\ w.next = sync[s].next
      BY <1>0 DEF Works, Steps
    <3>2. sync' = [sync EXCEPT ![s] = w] /\ owed' = owed
      BY <1>6, <2>3 DEF LockFingerprint
    <3> HIDE DEF w
    <3>3. Item(s).ref = None
      BY <2>1 DEF SyncTyped, WorkTyped, Item
    <3>4. WorkTyped(w)
      BY <2>1, <3>1, <3>3, StepsOfAnItem DEF Steps
    <3>5. SyncTyped'
      BY <3>2, <3>4, WorkMoves
    <3> QED
      BY <2>1, <3>2, <3>5 DEF Typed, RowsTyped, RestTyped, Present
  <2> QED
    BY <2>2, <2>3
<1>7. ASSUME NEW s \in Syncs, InsertFallback(s) PROVE Typed'
  <2> DEFINE status == IF sync[s].collides THEN "needs_review" ELSE "verified"
             row == Row(Item(s), sync[s].account, ItemFingerprint(s), status)
             marked == Marked(ItemFingerprint(s), sync[s].collides)
  <2>1. sync[s].at = "insert" /\ row \in Rows /\ row.present
    BY <1>7, FallbackInserts
  <2>2. CASE /\ ledger' = Append(marked, row)
             /\ sources' = SourceOf(Item(s).client, Len(ledger) + 1)
             /\ NextItem(s)
    <3>1. sources' \subseteq sources \cup {[client |-> Item(s).client, row |-> Len(ledger) + 1]}
      BY <2>2, SourceAdded
    <3>2. sync[s].collides \in BOOLEAN
      BY <1>0 DEF Works
    <3>3. marked \in Seq(Rows) /\ Len(marked) = Len(ledger) /\ \A u \in 1..Len(ledger) : Alike(marked[u], ledger[u])
      BY <3>2, MarkedAreAlike
    <3> HIDE DEF row, marked
    <3>4. RowsTyped'
      BY <1>0, <2>1, <2>2, <3>1, <3>3, InsertTyped
    <3>5. SyncTyped' /\ owed' \subseteq Clients
      BY <2>1, <2>2, NextItemMoves, OwedAreClients
    <3> QED
      BY <1>7, <3>4, <3>5 DEF InsertFallback, Typed, RestTyped
  <2>3. CASE ledger' = ledger /\ sources' = sources /\ Ends(s)
    BY <1>7, <2>3, WorkEnds DEF InsertFallback, Ends, Typed, RowsTyped, RestTyped, Present
  <2> QED
    BY <1>7, <2>2, <2>3, FallbackInserts
<1>8. ASSUME NEW s \in Syncs, Interrupt(s) PROVE Typed'
  BY <1>8, WorkEnds DEF Interrupt, Ends, Typed, RowsTyped, RestTyped, Present
<1>9. ASSUME NEW ref \in References, NEW booked \in BOOLEAN, CreateManualTransaction(ref, booked) PROVE Typed'
  <2> DEFINE row == Row([client |-> None, ref |-> ref], booked, NoFingerprint, "verified")
  <2>1. row \in Rows /\ row.present
    BY PrintsAreTyped DEF Row, Rows, Statuses
  <2>2. /\ ledger' = Append(ledger, row)
        /\ sources' = sources \cup {[client |-> None, row |-> Len(ledger) + 1]}
        /\ UNCHANGED <<account, sync, sent, owed, deleted, straddled>>
    BY <1>9 DEF CreateManualTransaction
  <2> HIDE DEF row
  <2>3. RowsTyped'
    BY <2>1, <2>2, SelfIsAlike, InsertTyped
  <2> QED
    BY <2>2, <2>3 DEF Typed, SyncTyped, RestTyped
<1>10. ASSUME NEW t \in DOMAIN ledger, DeleteTransaction(t) PROVE Typed'
  <2>1. /\ t \in Present
        /\ ledger' = [ledger EXCEPT ![t] = DeletedRow]
        /\ sources' = {source \in sources : source.row # t}
        /\ owed' \subseteq owed /\ deleted' \subseteq deleted \cup Clients
        /\ UNCHANGED <<account, sync, sent, straddled>>
    BY <1>10 DEF DeleteTransaction
  <2>2. ledger' \in Seq(Rows) /\ Present' = Present \ {t}
    BY <2>1, RowDeleted
  <2> QED
    BY <2>1, <2>2 DEF Typed, RowsTyped, SyncTyped, RestTyped
<1>11. ASSUME NEW t \in DOMAIN ledger, NEW status \in {"needs_review", "confirmed"}, NEW booked \in BOOLEAN,
              UpdateTransaction(t, status, booked)
       PROVE  Typed'
  <2>1. /\ ledger' = [ledger EXCEPT ![t].status = status, ![t].account = booked]
        /\ UNCHANGED <<sources, account, sync, sent, owed, deleted, straddled>>
    BY <1>11 DEF UpdateTransaction
  <2>2. ledger' \in Seq(Rows) /\ Present' = Present
    BY <1>11, <2>1, RowUpdated DEF Statuses, UpdateTransaction
  <2> QED
    BY <2>1, <2>2 DEF Typed, RowsTyped, SyncTyped, RestTyped
<1>12. CASE CreateAccount
  <2>1. Booking \subseteq Clients
    BY <1>0 DEF Booking
  <2> QED
    BY <1>12, <2>1 DEF CreateAccount, Typed, RowsTyped, SyncTyped, RestTyped, Present
<1>13. CASE BeginDeleteAccount
  BY <1>13 DEF BeginDeleteAccount, Typed, RowsTyped, SyncTyped, RestTyped, Present
<1>14. CASE FinishDeleteAccount
  <2>1. Booking \subseteq Clients
    BY <1>0 DEF Booking
  <2> QED
    BY <1>14, <2>1 DEF FinishDeleteAccount, Typed, RowsTyped, SyncTyped, RestTyped, Present
<1>15. CASE UNCHANGED vars
  BY <1>15 DEF vars, Typed, RowsTyped, SyncTyped, RestTyped, Present
<1> QED
  BY <1>1, <1>2, <1>3, <1>4, <1>5, <1>6, <1>7, <1>8, <1>9, <1>10, <1>11, <1>12, <1>13, <1>14, <1>15 DEF Next

LEMMA InitTyped == Init => Typed
<1> SUFFICES ASSUME Init PROVE Typed
  OBVIOUS
<1>1. RowsTyped
  BY DEF Init, RowsTyped, Present
<1>2. SyncTyped
  BY IdleIsTyped DEF Init, SyncTyped
<1>3. RestTyped
  BY BoundsAreNatural DEF Init, RestTyped
<1> QED
  BY <1>1, <1>2, <1>3 DEF Typed

LEMMA TypedHolds == Spec => []Typed
  BY InitTyped, StepTyped, PTL DEF Spec

-----------------------------------------------------------------------------
(* Accounts *)

LEMMA InsertKeepsAccounts ==
    ASSUME RowsTyped, HistoryKeepsItsAccount, NEW marked \in Seq(Rows), Len(marked) = Len(ledger),
           \A u \in 1..Len(ledger) : Alike(marked[u], ledger[u]),
           NEW row \in Rows, row.present, ledger' = Append(marked, row),
           AccountIsThere(row.account), account' = account
    PROVE  HistoryKeepsItsAccount'
<1>1. /\ \A u \in 1..Len(ledger) : ledger'[u] = marked[u]
      /\ ledger'[Len(ledger) + 1] = row
      /\ Present' = Present \cup {Len(ledger) + 1}
      /\ Present \subseteq 1..Len(ledger)
  BY RowInserted
<1> QED
  BY <1>1 DEF HistoryKeepsItsAccount, AccountIsThere, Alike

(* The insert checks that the account is there, and so does the deletion of *)
(* the account that no row is booked on it.                                 *)
LEMMA StepKeepsAccounts == Typed /\ HistoryKeepsItsAccount /\ [Next]_vars => HistoryKeepsItsAccount'
<1> SUFFICES ASSUME Typed, HistoryKeepsItsAccount, [Next]_vars PROVE HistoryKeepsItsAccount'
  OBVIOUS
<1> RowsTyped /\ SyncTyped
  BY DEF Typed
<1>0. ASSUME ledger' = ledger, account' = account PROVE HistoryKeepsItsAccount'
  BY <1>0 DEF HistoryKeepsItsAccount, AccountIsThere, Present
<1>1. ASSUME NEW s \in Syncs, InsertReferenced(s) PROVE HistoryKeepsItsAccount'
  <2> DEFINE row == Row(Item(s), sync[s].account, NoFingerprint, "verified")
  <2>1. /\ row \in Rows /\ row.present
        /\ \/ ledger' = ledger
           \/ AccountIsThere(sync[s].account) /\ ledger' = Append(ledger, row)
    BY <1>1, ReferencedInserts
  <2>2. row.account = sync[s].account /\ account' = account
    BY <1>1 DEF Row, InsertReferenced
  <2> HIDE DEF row
  <2> QED
    BY <1>0, <2>1, <2>2, SelfIsAlike, InsertKeepsAccounts
<1>2. ASSUME NEW s \in Syncs, InsertFallback(s) PROVE HistoryKeepsItsAccount'
  <2> DEFINE status == IF sync[s].collides THEN "needs_review" ELSE "verified"
             row == Row(Item(s), sync[s].account, ItemFingerprint(s), status)
             marked == Marked(ItemFingerprint(s), sync[s].collides)
  <2>1. /\ row \in Rows /\ row.present
        /\ \/ ledger' = ledger
           \/ AccountIsThere(sync[s].account) /\ ledger' = Append(marked, row)
    BY <1>2, FallbackInserts
  <2>2. row.account = sync[s].account /\ account' = account
    BY <1>2 DEF Row, InsertFallback
  <2>3. sync[s].collides \in BOOLEAN
    BY DEF SyncTyped, WorkTyped, Works
  <2>4. marked \in Seq(Rows) /\ Len(marked) = Len(ledger) /\ \A u \in 1..Len(ledger) : Alike(marked[u], ledger[u])
    BY <2>3, MarkedAreAlike
  <2> HIDE DEF row, marked
  <2> QED
    BY <1>0, <2>1, <2>2, <2>4, InsertKeepsAccounts
<1>3. ASSUME NEW ref \in References, NEW booked \in BOOLEAN, CreateManualTransaction(ref, booked)
      PROVE  HistoryKeepsItsAccount'
  <2> DEFINE row == Row([client |-> None, ref |-> ref], booked, NoFingerprint, "verified")
  <2>1. row \in Rows /\ row.present /\ row.account = booked
    BY PrintsAreTyped DEF Row, Rows, Statuses
  <2>2. ledger' = Append(ledger, row) /\ AccountIsThere(booked) /\ account' = account
    BY <1>3 DEF CreateManualTransaction
  <2> HIDE DEF row
  <2> QED
    BY <2>1, <2>2, SelfIsAlike, InsertKeepsAccounts
<1>4. ASSUME NEW t \in DOMAIN ledger, DeleteTransaction(t) PROVE HistoryKeepsItsAccount'
  <2>1. Present' \subseteq Present /\ (\A u \in Present' : ledger'[u] = ledger[u]) /\ account' = account
    BY <1>4, RowDeleted DEF DeleteTransaction
  <2> QED
    BY <2>1 DEF HistoryKeepsItsAccount, AccountIsThere
<1>5. ASSUME NEW t \in DOMAIN ledger, NEW status \in {"needs_review", "confirmed"}, NEW booked \in BOOLEAN,
             UpdateTransaction(t, status, booked)
      PROVE  HistoryKeepsItsAccount'
  <2>1. /\ t \in Present
        /\ booked # ledger[t].account => AccountIsThere(booked)
        /\ ledger' = [ledger EXCEPT ![t].status = status, ![t].account = booked]
        /\ account' = account
    BY <1>5 DEF UpdateTransaction
  <2>2. status \in Statuses /\ Present \subseteq DOMAIN ledger
    BY DEF Statuses, Present
  <2>3. Present' = Present /\ ledger'[t].account = booked /\ \A u \in DOMAIN ledger \ {t} : ledger'[u] = ledger[u]
    BY <2>1, <2>2, RowUpdated
  <2> QED
    BY <2>1, <2>2, <2>3 DEF HistoryKeepsItsAccount, AccountIsThere
<1>6. CASE CreateAccount
  BY <1>6 DEF CreateAccount, HistoryKeepsItsAccount, AccountIsThere, Present, Typed, RestTyped
<1>7. CASE FinishDeleteAccount
  BY <1>7 DEF FinishDeleteAccount, HistoryKeepsItsAccount, AccountIsThere, Present
<1>8. CASE BeginDeleteAccount
  BY <1>8 DEF BeginDeleteAccount, HistoryKeepsItsAccount, AccountIsThere, Present, Typed, RestTyped
<1>9. ASSUME NEW s \in Syncs,
             StartSync(s) \/ LookForReplay(s) \/ ResolveAccount(s) \/ AttachToCanonical(s)
               \/ LockFingerprint(s) \/ Interrupt(s)
      PROVE  HistoryKeepsItsAccount'
  BY <1>0, <1>9 DEF StartSync, LookForReplay, ResolveAccount, AttachToCanonical, LockFingerprint, Interrupt
<1>10. CASE UNCHANGED vars
  BY <1>0, <1>10 DEF vars
<1> QED
  BY <1>1, <1>2, <1>3, <1>4, <1>5, <1>6, <1>7, <1>8, <1>9, <1>10 DEF Next

(* A row's account is there, although the foreign key is all that relates a *)
(* batch and the deletion of the account (deleteAccount, syncTransactions). *)
THEOREM AccountsAreKept == Spec => []HistoryKeepsItsAccount
<1>1. Init => HistoryKeepsItsAccount
  BY DEF Init, HistoryKeepsItsAccount, Present
<1> QED
  BY <1>1, TypedHolds, StepKeepsAccounts, PTL DEF Spec

-----------------------------------------------------------------------------
(* Lookalikes *)

(* Who is about to insert has seen the rows that look the same, and nobody  *)
(* else inserts one meanwhile: the lock of the fingerprint is held.         *)
Looked(s) ==
    sync[s].at = "insert" /\ ~sync[s].collides => WithFingerprint(ItemFingerprint(s)) = {}

Exclusive ==
    \A s, r \in Syncs :
        s # r /\ sync[s].at = "insert" /\ sync[r].at = "insert" => ItemFingerprint(s) # ItemFingerprint(r)

Reviewed == LookalikesAreReviewed /\ Exclusive /\ \A s \in Syncs : Looked(s)

(* A batch that stops inserting, or never did, disturbs no other one.       *)
LEMMA OthersStayExclusive ==
    ASSUME Exclusive, NEW s \in Syncs, \A r \in Syncs \ {s} : sync'[r] = sync[r], sync'[s].at # "insert"
    PROVE  Exclusive'
  BY DEF Exclusive, ItemFingerprint, Item

LEMMA OthersHaveLooked ==
    ASSUME NEW s \in Syncs, \A r \in Syncs : Looked(r),
           \A r \in Syncs \ {s} : sync'[r] = sync[r], sync'[s].at # "insert",
           \A r \in Syncs \ {s} : sync[r].at = "insert" /\ ~sync[r].collides =>
               WithFingerprint(ItemFingerprint(r))' \subseteq WithFingerprint(ItemFingerprint(r))
    PROVE  \A r \in Syncs : Looked(r)'
<1> SUFFICES ASSUME NEW r \in Syncs, sync'[r].at = "insert", ~sync'[r].collides
             PROVE  WithFingerprint(ItemFingerprint(r))' = {}
  BY DEF Looked
<1>1. r # s /\ sync'[r] = sync[r]
  OBVIOUS
<1> QED
  BY <1>1 DEF Looked

(* A batch moves while the rows stay, or an item is done without an insert. *)
LEMMA MoveReviewed ==
    ASSUME Reviewed, NEW s \in Syncs, ledger' = ledger,
           \A r \in Syncs \ {s} : sync'[r] = sync[r], sync'[s].at # "insert"
    PROVE  Reviewed'
<1>1. Exclusive'
  BY OthersStayExclusive DEF Reviewed
<1>2. \A r \in Syncs \ {s} : WithFingerprint(ItemFingerprint(r))' = WithFingerprint(ItemFingerprint(r))
  BY DEF WithFingerprint, ItemFingerprint, Item, Present
<1>3. \A r \in Syncs : Looked(r)'
  BY <1>2, OthersHaveLooked DEF Reviewed
<1>4. LookalikesAreReviewed'
  BY DEF Reviewed, LookalikesAreReviewed, Present
<1> QED
  BY <1>1, <1>3, <1>4 DEF Reviewed

(* A row is inserted, with no fingerprint or as one of its lookalikes, all  *)
(* of which are to be reviewed.                                             *)
LEMMA InsertReviewed ==
    ASSUME RowsTyped, LookalikesAreReviewed, NEW marked \in Seq(Rows), Len(marked) = Len(ledger),
           \A u \in 1..Len(ledger) : Alike(marked[u], ledger[u])
                                     /\ marked[u].status \in {ledger[u].status, "needs_review"},
           NEW row \in Rows, row.present, ledger' = Append(marked, row),
           \/ row.print = NoFingerprint
           \/ WithFingerprint(row.print) = {}
           \/ /\ row.status = "needs_review"
              /\ \A u \in WithFingerprint(row.print) : marked[u].status = "needs_review"
    PROVE  /\ LookalikesAreReviewed'
           /\ \A print : print # row.print => WithFingerprint(print)' = WithFingerprint(print)
<1>1. /\ \A u \in 1..Len(ledger) : ledger'[u] = marked[u]
      /\ ledger'[Len(ledger) + 1] = row
      /\ Present' = Present \cup {Len(ledger) + 1}
      /\ Present \subseteq 1..Len(ledger)
      /\ Len(ledger) + 1 \notin Present
  BY RowInserted
<1> DEFINE new == Len(ledger) + 1
<1> HIDE DEF new
<1>2. /\ Present' = Present \cup {new} /\ new \notin Present
      /\ ledger'[new] = row
      /\ \A u \in Present : /\ ledger'[u].print = ledger[u].print
                            /\ ledger'[u].status \in {ledger[u].status, "needs_review"}
                            /\ ledger'[u] = marked[u]
  BY <1>1 DEF new, Alike
<1>3. ASSUME NEW print, print # row.print
      PROVE  WithFingerprint(print)' = WithFingerprint(print)
  <2>1. \A u : u \in WithFingerprint(print)' <=> u \in Present' /\ ledger'[u].print = print
    BY DEF WithFingerprint
  <2>2. \A u : u \in WithFingerprint(print) <=> u \in Present /\ ledger[u].print = print
    BY DEF WithFingerprint
  <2>3. ASSUME NEW u PROVE u \in WithFingerprint(print)' <=> u \in WithFingerprint(print)
    <3>1. CASE u \in Present
      <4>1. u \in Present' /\ ledger'[u].print = ledger[u].print
        BY <1>2, <3>1
      <4> QED
        BY <2>1, <2>2, <3>1, <4>1
    <3>2. CASE u = new
      BY <1>2, <1>3, <2>1, <2>2, <3>2
    <3>3. CASE u \notin Present /\ u # new
      BY <1>2, <2>1, <2>2, <3>3
    <3> QED
      BY <3>1, <3>2, <3>3
  <2> QED
    BY <2>3
<1>4. ASSUME NEW t \in Present', NEW u \in Present', t # u,
             ledger'[t].print = ledger'[u].print, ledger'[t].print # NoFingerprint
      PROVE  ledger'[t].status \in {"needs_review", "confirmed"}
  <2>1. CASE t \in Present /\ u \in Present
    <3>1. ledger[t].print = ledger[u].print /\ ledger[t].print # NoFingerprint
      BY <1>2, <1>4, <2>1
    <3>2. ledger[t].status \in {"needs_review", "confirmed"}
      BY <1>4, <2>1, <3>1 DEF LookalikesAreReviewed
    <3> QED
      BY <1>2, <2>1, <3>2
  <2>2. CASE t = new
    <3>1. u \in WithFingerprint(row.print)
      BY <1>2, <1>4, <2>2 DEF WithFingerprint
    <3> QED
      BY <1>2, <1>4, <2>2, <3>1
  <2>3. CASE u = new /\ t # new
    <3>1. t \in WithFingerprint(row.print)
      BY <1>2, <1>4, <2>3 DEF WithFingerprint
    <3> QED
      BY <1>2, <1>4, <2>3, <3>1 DEF WithFingerprint
  <2> QED
    BY <1>2, <2>1, <2>2, <2>3
<1> QED
  BY <1>3, <1>4 DEF LookalikesAreReviewed

(* The lock of the fingerprint keeps others from inserting a lookalike      *)
(* between the look and the insert.                                         *)
LEMMA StepReviewed == Typed /\ Reviewed /\ [Next]_vars => Reviewed'
<1> SUFFICES ASSUME Typed, Reviewed, [Next]_vars PROVE Reviewed'
  OBVIOUS
<1> RowsTyped /\ SyncTyped
  BY DEF Typed
<1>0. ASSUME ledger' = ledger, sync' = sync PROVE Reviewed'
  BY <1>0 DEF Reviewed, LookalikesAreReviewed, Exclusive, Looked, WithFingerprint, ItemFingerprint, Item, Present
<1>1. ASSUME NEW s \in Syncs, StartSync(s) \/ LookForReplay(s) \/ ResolveAccount(s) \/ AttachToCanonical(s) \/ Interrupt(s)
      PROVE  Reviewed'
  <2>1. ledger' = ledger
    BY <1>1 DEF StartSync, LookForReplay, ResolveAccount, AttachToCanonical, Interrupt
  <2>2. (\A r \in Syncs \ {s} : sync'[r] = sync[r]) /\ sync'[s].at # "insert"
    <3>1. CASE StartSync(s)
      BY ZenonT(30), <3>1 DEF StartSync, SyncTyped, WorkTyped, Works
    <3>2. CASE LookForReplay(s)
      <4>1. sync[s].at = "replay"
        BY <3>2 DEF LookForReplay
      <4>2. CASE NextItem(s)
        BY <4>1, <4>2, NextItemMoves
      <4>3. CASE Goes(s, "account")
        BY <4>3 DEF Goes, SyncTyped, WorkTyped, Works
      <4> QED
        BY <3>2, <4>2, <4>3 DEF LookForReplay
    <3>3. CASE ResolveAccount(s)
      BY <3>3 DEF ResolveAccount, SyncTyped, WorkTyped, Works
    <3>4. CASE AttachToCanonical(s)
      BY <3>4, NextItemMoves, WorkEnds DEF AttachToCanonical
    <3>5. CASE Interrupt(s)
      BY <3>5, WorkEnds DEF Interrupt
    <3> QED
      BY <1>1, <3>1, <3>2, <3>3, <3>4, <3>5
  <2> QED
    BY <2>1, <2>2, MoveReviewed
<1>2. ASSUME NEW s \in Syncs, LockFingerprint(s) PROVE Reviewed'
  <2>1. /\ sync[s].at = "fingerprint" /\ ledger' = ledger
        /\ \A r \in Syncs : sync[r].at = "insert" => ItemFingerprint(r) # ItemFingerprint(s)
    BY <1>2 DEF LockFingerprint
  <2>2. CASE NextItem(s)
    <3>1. (\A r \in Syncs \ {s} : sync'[r] = sync[r]) /\ sync'[s].at # "insert"
      BY <2>1, <2>2, NextItemMoves
    <3> QED
      BY <2>1, <3>1, MoveReviewed
  <2>3. CASE sync' = [sync EXCEPT ![s].at = "insert", ![s].collides = WithFingerprint(ItemFingerprint(s)) # {}]
    <3>1. /\ \A r \in Syncs \ {s} : sync'[r] = sync[r]
          /\ sync'[s].at = "insert"
          /\ sync'[s].collides = (WithFingerprint(ItemFingerprint(s)) # {})
          /\ sync'[s].batch = sync[s].batch /\ sync'[s].next = sync[s].next /\ sync'[s].account = sync[s].account
      BY <2>3 DEF SyncTyped, WorkTyped, Works
    <3>2. \A r \in Syncs : ItemFingerprint(r)' = ItemFingerprint(r)
      BY <3>1 DEF ItemFingerprint, Item
    <3>3. Exclusive'
      BY <2>1, <3>1, <3>2 DEF Exclusive, Reviewed
    <3>4. \A print : WithFingerprint(print)' = WithFingerprint(print)
      BY <2>1 DEF WithFingerprint, Present
    <3>5. \A r \in Syncs : Looked(r)'
      BY <3>1, <3>2, <3>4 DEF Looked, Reviewed
    <3> QED
      BY <2>1, <3>3, <3>5 DEF Reviewed, LookalikesAreReviewed, Present
  <2> QED
    BY <1>2, <2>2, <2>3 DEF LockFingerprint
<1>3. ASSUME NEW s \in Syncs, InsertReferenced(s) PROVE Reviewed'
  <2> DEFINE row == Row(Item(s), sync[s].account, NoFingerprint, "verified")
  <2>1. /\ sync[s].at = "reference" /\ row \in Rows /\ row.present
        /\ \/ ledger' = ledger
           \/ ledger' = Append(ledger, row) /\ NextItem(s)
    BY <1>3, ReferencedInserts
  <2>2. (\A r \in Syncs \ {s} : sync'[r] = sync[r]) /\ sync'[s].at # "insert"
    <3>1. CASE Goes(s, "canonical")
      BY <3>1 DEF Goes, SyncTyped, WorkTyped, Works
    <3>2. CASE NextItem(s)
      BY <2>1, <3>2, NextItemMoves
    <3>3. CASE Ends(s)
      BY <3>3, WorkEnds
    <3> QED
      BY <1>3, <3>1, <3>2, <3>3 DEF InsertReferenced
  <2>3. CASE ledger' = ledger
    BY <2>2, <2>3, MoveReviewed
  <2>4. CASE ledger' = Append(ledger, row)
    <3>1. row.print = NoFingerprint
      BY DEF Row
    <3> HIDE DEF row
    <3>2. ledger \in Seq(Rows) /\ \A u \in 1..Len(ledger) : Alike(ledger[u], ledger[u])
      BY SelfIsAlike
    <3>3. /\ LookalikesAreReviewed'
          /\ \A print : print # NoFingerprint => WithFingerprint(print)' = WithFingerprint(print)
      BY <2>1, <2>4, <3>1, <3>2, InsertReviewed DEF Reviewed
    <3>4. \A r \in Syncs \ {s} : sync[r].at = "insert" /\ ~sync[r].collides =>
               WithFingerprint(ItemFingerprint(r))' \subseteq WithFingerprint(ItemFingerprint(r))
      <4>1. SUFFICES ASSUME NEW r \in Syncs \ {s}, sync[r].at = "insert"
                     PROVE  WithFingerprint(ItemFingerprint(r))' = WithFingerprint(ItemFingerprint(r))
        OBVIOUS
      <4>2. ItemFingerprint(r)' = ItemFingerprint(r)
        BY <2>2 DEF ItemFingerprint, Item
      <4>3. ItemFingerprint(r) # NoFingerprint
        BY <4>1, PrintsOfItems
      <4> QED
        BY <3>3, <4>2, <4>3
    <3>5. Exclusive' /\ \A r \in Syncs : Looked(r)'
      BY <2>2, <3>4, OthersStayExclusive, OthersHaveLooked DEF Reviewed
    <3> QED
      BY <3>3, <3>5 DEF Reviewed
  <2> QED
    BY <2>1, <2>3, <2>4
<1>4. ASSUME NEW s \in Syncs, InsertFallback(s) PROVE Reviewed'
  <2> DEFINE print == ItemFingerprint(s)
             status == IF sync[s].collides THEN "needs_review" ELSE "verified"
             row == Row(Item(s), sync[s].account, print, status)
             marked == Marked(print, sync[s].collides)
  <2>1. /\ sync[s].at = "insert" /\ row \in Rows /\ row.present
        /\ \/ ledger' = ledger /\ Ends(s)
           \/ ledger' = Append(marked, row) /\ NextItem(s)
    BY <1>4, FallbackInserts
  <2>2. (\A r \in Syncs \ {s} : sync'[r] = sync[r]) /\ sync'[s].at # "insert"
    BY <2>1, NextItemMoves, WorkEnds
  <2>3. CASE ledger' = ledger
    BY <2>2, <2>3, MoveReviewed
  <2>4. CASE ledger' = Append(marked, row)
    <3>1. row.print = print /\ row.status = status /\ sync[s].collides \in BOOLEAN
      BY DEF Row, SyncTyped, WorkTyped, Works
    <3>2. /\ marked \in Seq(Rows) /\ Len(marked) = Len(ledger)
          /\ \A u \in 1..Len(ledger) :
                /\ Alike(marked[u], ledger[u])
                /\ marked[u].status \in {ledger[u].status, "needs_review"}
                /\ sync[s].collides /\ u \in WithFingerprint(print) => marked[u].status = "needs_review"
      BY <3>1, MarkedAreAlike
    <3>3. WithFingerprint(print) \subseteq 1..Len(ledger)
      BY DEF WithFingerprint, Present, RowsTyped
    <3>4. \/ WithFingerprint(row.print) = {}
          \/ /\ row.status = "needs_review"
             /\ \A u \in WithFingerprint(row.print) : marked[u].status = "needs_review"
      <4>1. CASE sync[s].collides
        BY <3>1, <3>2, <3>3, <4>1
      <4>2. CASE ~sync[s].collides
        BY <2>1, <3>1, <4>2 DEF Reviewed, Looked
      <4> QED
        BY <4>1, <4>2
    <3> HIDE DEF row, marked
    <3>5. /\ LookalikesAreReviewed'
          /\ \A p : p # print => WithFingerprint(p)' = WithFingerprint(p)
      BY <2>1, <2>4, <3>1, <3>2, <3>4, InsertReviewed DEF Reviewed
    <3>6. \A r \in Syncs \ {s} : sync[r].at = "insert" /\ ~sync[r].collides =>
               WithFingerprint(ItemFingerprint(r))' \subseteq WithFingerprint(ItemFingerprint(r))
      <4>1. SUFFICES ASSUME NEW r \in Syncs \ {s}, sync[r].at = "insert"
                     PROVE  WithFingerprint(ItemFingerprint(r))' = WithFingerprint(ItemFingerprint(r))
        OBVIOUS
      <4>2. ItemFingerprint(r)' = ItemFingerprint(r)
        BY <2>2 DEF ItemFingerprint, Item
      <4>3. ItemFingerprint(r) # print
        BY <2>1, <4>1 DEF Reviewed, Exclusive
      <4> QED
        BY <3>5, <4>2, <4>3
    <3>7. Exclusive' /\ \A r \in Syncs : Looked(r)'
      BY <2>2, <3>6, OthersStayExclusive, OthersHaveLooked DEF Reviewed
    <3> QED
      BY <3>5, <3>7 DEF Reviewed
  <2> QED
    BY <2>1, <2>3, <2>4
<1>5. ASSUME NEW ref \in References, NEW booked \in BOOLEAN, CreateManualTransaction(ref, booked)
      PROVE  Reviewed'
  <2> DEFINE row == Row([client |-> None, ref |-> ref], booked, NoFingerprint, "verified")
  <2>1. row \in Rows /\ row.present /\ row.print = NoFingerprint
    BY PrintsAreTyped DEF Row, Rows, Statuses
  <2>2. ledger' = Append(ledger, row) /\ sync' = sync
    BY <1>5 DEF CreateManualTransaction
  <2> HIDE DEF row
  <2>3. ledger \in Seq(Rows) /\ \A u \in 1..Len(ledger) : Alike(ledger[u], ledger[u])
    BY SelfIsAlike
  <2>4. /\ LookalikesAreReviewed'
        /\ \A print : print # NoFingerprint => WithFingerprint(print)' = WithFingerprint(print)
    BY <2>1, <2>2, <2>3, InsertReviewed DEF Reviewed
  <2>5. ASSUME NEW r \in Syncs PROVE Looked(r)'
    <3>1. SUFFICES ASSUME sync[r].at = "insert", ~sync[r].collides
                   PROVE  WithFingerprint(ItemFingerprint(r))' = {}
      BY <2>2 DEF Looked
    <3>2. ItemFingerprint(r)' = ItemFingerprint(r) /\ ItemFingerprint(r) # NoFingerprint
      BY <2>2, <3>1, PrintsOfItems DEF ItemFingerprint, Item
    <3> QED
      BY <2>4, <3>1, <3>2 DEF Reviewed, Looked
  <2>6. Exclusive'
    BY <2>2 DEF Reviewed, Exclusive, ItemFingerprint, Item
  <2> QED
    BY <2>4, <2>5, <2>6 DEF Reviewed
<1>6. ASSUME NEW t \in DOMAIN ledger, DeleteTransaction(t) PROVE Reviewed'
  <2>1. Present' \subseteq Present /\ (\A u \in Present' : ledger'[u] = ledger[u]) /\ sync' = sync
    BY <1>6, RowDeleted DEF DeleteTransaction
  <2>2. \A print : WithFingerprint(print)' \subseteq WithFingerprint(print)
    BY <2>1 DEF WithFingerprint
  <2>3. \A r \in Syncs : Looked(r)'
    BY <2>1, <2>2 DEF Reviewed, Looked, ItemFingerprint, Item
  <2> QED
    BY <2>1, <2>3 DEF Reviewed, LookalikesAreReviewed, Exclusive, ItemFingerprint, Item
<1>7. ASSUME NEW t \in DOMAIN ledger, NEW status \in {"needs_review", "confirmed"}, NEW booked \in BOOLEAN,
             UpdateTransaction(t, status, booked)
      PROVE  Reviewed'
  <2>1. /\ t \in Present /\ sync' = sync
        /\ ledger' = [ledger EXCEPT ![t].status = status, ![t].account = booked]
    BY <1>7 DEF UpdateTransaction
  <2>2. status \in Statuses /\ Present \subseteq DOMAIN ledger
    BY DEF Statuses, Present
  <2>3. /\ Present' = Present /\ ledger'[t].print = ledger[t].print /\ ledger'[t].status = status
        /\ \A u \in DOMAIN ledger \ {t} : ledger'[u] = ledger[u]
    BY <2>1, <2>2, RowUpdated
  <2>4. \A print : WithFingerprint(print)' = WithFingerprint(print)
    BY <2>2, <2>3 DEF WithFingerprint
  <2>5. \A r \in Syncs : Looked(r)'
    BY <2>1, <2>4 DEF Reviewed, Looked, ItemFingerprint, Item
  <2>6. LookalikesAreReviewed'
    BY <2>2, <2>3 DEF Reviewed, LookalikesAreReviewed
  <2> QED
    BY <2>1, <2>5, <2>6 DEF Reviewed, Exclusive, ItemFingerprint, Item
<1>8. CASE CreateAccount \/ BeginDeleteAccount \/ FinishDeleteAccount \/ UNCHANGED vars
  BY <1>0, <1>8 DEF CreateAccount, BeginDeleteAccount, FinishDeleteAccount, vars
<1> QED
  BY <1>1, <1>2, <1>3, <1>4, <1>5, <1>6, <1>7, <1>8 DEF Next

(* Observations that look the same are never merged and never pass silently *)
(* (syncTransactions), whoever books them at the same time.                 *)
THEOREM LookalikesWait == Spec => []LookalikesAreReviewed
<1>1. Init => Reviewed
  BY DEF Init, Reviewed, LookalikesAreReviewed, Exclusive, Looked, IdleSync, Present
<1>2. Reviewed => LookalikesAreReviewed
  BY DEF Reviewed
<1> QED
  BY <1>1, <1>2, TypedHolds, StepReviewed, PTL DEF Spec

-----------------------------------------------------------------------------
(* Answers *)

(* An observation is dealt with when it is recorded, or was and the user    *)
(* has deleted its row.                                                     *)
DealtWith(c) == Recorded(c) \/ c \in deleted

(* A batch has dealt with what is behind it.                                *)
Behind(s) ==
    sync[s].at # "idle" => \A n \in 1..(sync[s].next - 1) : DealtWith(sync[s].batch[n].client)

Answered == AnsweredBatchesAreRecorded /\ \A s \in Syncs : Behind(s)

(* A batch that is where it was, or behind a part of what it has done.      *)
LEMMA BatchesStayBehind ==
    ASSUME \A s \in Syncs : Behind(s), \A c \in Clients : DealtWith(c) => DealtWith(c)',
           SyncTyped,
           NEW r \in Syncs, sync[r].at # "idle" \/ sync'[r].next = 1,
           \/ sync'[r].next = 1
           \/ sync'[r].batch = sync[r].batch /\ sync'[r].next = sync[r].next
    PROVE  Behind(r)'
<1> SUFFICES ASSUME sync'[r].at # "idle", NEW n \in 1..(sync'[r].next - 1),
                    NEW c, c = sync'[r].batch[n].client
             PROVE  DealtWith(c)'
  BY DEF Behind
<1>1. CASE sync'[r].next = 1
  BY <1>1
<1>2. CASE sync'[r].next # 1
  <2>1. /\ sync[r].at # "idle" /\ sync[r].batch \in Seq(Items)
        /\ sync[r].next \in 1..Len(sync[r].batch) /\ Len(sync[r].batch) \in Nat
        /\ sync'[r].batch = sync[r].batch /\ sync'[r].next = sync[r].next
    BY <1>2 DEF SyncTyped, WorkTyped, Works
  <2>2. n \in 1..Len(sync[r].batch) /\ n \in 1..(sync[r].next - 1)
    BY <2>1
  <2>3. sync[r].batch[n] \in Items /\ c = sync[r].batch[n].client
    BY <2>1, <2>2
  <2>4. c \in Clients /\ DealtWith(c)
    BY <2>1, <2>2, <2>3 DEF Behind, Clients
  <2> QED
    BY <2>4
<1> QED
  BY <1>1, <1>2

(* Answering what is dealt with, or going on behind it. *)
LEMMA NextItemAnswers ==
    ASSUME Typed, Answered, NEW s \in Syncs, sync[s].at # "idle", NextItem(s),
           \A c \in Clients : Recorded(c) => Recorded(c)', deleted' = deleted,
           \A c \in Clients : c = Item(s).client => Recorded(c)'
    PROVE  Answered'
<1>1. /\ sync[s].batch \in Seq(Items) /\ sync[s].next \in 1..Len(sync[s].batch) /\ Len(sync[s].batch) \in Nat
      /\ SyncTyped /\ owed \subseteq Clients
  BY DEF Typed, SyncTyped, WorkTyped, Works, RestTyped
<1>2. \A c \in Clients : DealtWith(c) => DealtWith(c)'
  BY DEF DealtWith
<1>3. ASSUME NEW n \in 1..sync[s].next, NEW c, c = sync[s].batch[n].client
      PROVE  c \in Clients /\ DealtWith(c)'
  <2>1. sync[s].batch[n] \in Items /\ c \in Clients
    BY <1>1, <1>3 DEF Clients
  <2>2. CASE n = sync[s].next
    BY <1>3, <2>1, <2>2 DEF DealtWith, Item
  <2>3. CASE n # sync[s].next
    <3>1. n \in 1..(sync[s].next - 1)
      BY <1>1, <2>3
    <3>2. DealtWith(c)
      BY <1>3, <3>1 DEF Answered, Behind
    <3> QED
      BY <1>2, <2>1, <3>2
  <2> QED
    BY <2>2, <2>3
<1>4. \A r \in Syncs \ {s} : Behind(r)'
  <2> SUFFICES ASSUME NEW r \in Syncs \ {s} PROVE Behind(r)'
    OBVIOUS
  <2>1. sync'[r] = sync[r]
    BY <1>1, NextItemMoves
  <2>2. CASE sync[r].at = "idle"
    BY <2>1, <2>2 DEF Behind
  <2>3. CASE sync[r].at # "idle"
    BY <1>1, <1>2, <2>1, <2>3, BatchesStayBehind DEF Answered
  <2> QED
    BY <2>2, <2>3
<1>5. CASE /\ sync'[s].at = "idle" /\ sync[s].next = Len(sync[s].batch)
           /\ owed' = owed \cup ({sync[s].batch[n].client : n \in DOMAIN sync[s].batch} \ deleted)
  <2>1. Behind(s)'
    BY <1>5 DEF Behind
  <2>2. \A c \in owed' : Recorded(c)'
    <3> SUFFICES ASSUME NEW c \in owed' PROVE Recorded(c)'
      OBVIOUS
    <3>1. CASE c \in owed
      BY <1>1, <3>1 DEF Answered, AnsweredBatchesAreRecorded
    <3>2. CASE c \notin owed
      <4>1. PICK n \in DOMAIN sync[s].batch : c = sync[s].batch[n].client /\ c \notin deleted
        BY <1>5, <3>2
      <4>2. n \in 1..sync[s].next
        BY <1>1, <1>5, <4>1
      <4> QED
        BY <1>3, <4>1, <4>2 DEF DealtWith
    <3> QED
      BY <3>1, <3>2
  <2> QED
    BY <1>4, <2>1, <2>2 DEF Answered, AnsweredBatchesAreRecorded
<1>6. CASE /\ sync'[s].batch = sync[s].batch /\ sync'[s].next = sync[s].next + 1 /\ owed' = owed
  <2>1. Behind(s)'
    <3> SUFFICES ASSUME NEW n \in 1..(sync'[s].next - 1), NEW c, c = sync'[s].batch[n].client
                 PROVE  DealtWith(c)'
      BY DEF Behind
    <3>1. n \in 1..sync[s].next
      BY <1>1, <1>6
    <3> QED
      BY <1>3, <1>6, <3>1
  <2> QED
    BY <1>1, <1>4, <1>6, <2>1 DEF Answered, AnsweredBatchesAreRecorded
<1> QED
  BY <1>1, <1>5, <1>6, NextItemMoves

(* Whatever else happens takes away a source only with the row, and the     *)
(* observation is then one whose row was deleted.                           *)
LEMMA OthersAnswered ==
    ASSUME Typed, Answered, \A c \in Clients : DealtWith(c) => DealtWith(c)',
           \A c \in owed' : c \in owed /\ (Recorded(c) => Recorded(c)'),
           \A r \in Syncs : \/ sync'[r] = sync[r]
                            \/ sync'[r].at = "idle"
                            \/ sync'[r].next = 1
                            \/ sync[r].at # "idle" /\ sync'[r].batch = sync[r].batch /\ sync'[r].next = sync[r].next
    PROVE  Answered'
<1>1. AnsweredBatchesAreRecorded'
  BY DEF Answered, AnsweredBatchesAreRecorded
<1>2. ASSUME NEW r \in Syncs PROVE Behind(r)'
  <2>1. CASE sync'[r].at = "idle"
    BY <2>1 DEF Behind
  <2>2. CASE sync'[r].at # "idle"
    <3>1. sync[r].at # "idle" \/ sync'[r].next = 1
      BY <2>2
    <3>2. \/ sync'[r].next = 1
          \/ sync'[r].batch = sync[r].batch /\ sync'[r].next = sync[r].next
      BY <2>2
    <3> QED
      BY <3>1, <3>2, BatchesStayBehind DEF Typed, Answered
  <2> QED
    BY <2>1, <2>2
<1> QED
  BY <1>1, <1>2 DEF Answered

(* Each way to finish an observation records it. *)
LEMMA StepAnswered == Typed /\ Answered /\ [Next]_vars => Answered'
<1> SUFFICES ASSUME Typed, Answered, [Next]_vars PROVE Answered'
  OBVIOUS
<1> RowsTyped /\ SyncTyped /\ \A s \in Syncs : sync[s] \in Works
  BY DEF Typed, SyncTyped, WorkTyped
<1>0. ASSUME sources \subseteq sources', deleted' = deleted, owed' = owed,
             \A r \in Syncs : \/ sync'[r] = sync[r]
                              \/ sync'[r].at = "idle"
                              \/ sync'[r].next = 1
                              \/ sync[r].at # "idle" /\ sync'[r].batch = sync[r].batch /\ sync'[r].next = sync[r].next
      PROVE  Answered'
  <2>1. \A c : Recorded(c) => Recorded(c)'
    BY <1>0 DEF Recorded
  <2>2. \A c \in Clients : DealtWith(c) => DealtWith(c)'
    BY <1>0, <2>1 DEF DealtWith
  <2> QED
    BY <1>0, <2>1, <2>2, OthersAnswered
<1>1. ASSUME NEW s \in Syncs, Ends(s), sources' = sources, deleted' = deleted PROVE Answered'
  BY <1>0, <1>1, WorkEnds DEF Ends
<1>2. ASSUME NEW s \in Syncs, sync[s].at # "idle", NextItem(s), deleted' = deleted, sources' = sources,
             Recorded(Item(s).client)
      PROVE  Answered'
  <2>1. \A c \in Clients : Recorded(c) => Recorded(c)'
    BY <1>2 DEF Recorded
  <2>2. \A c \in Clients : c = Item(s).client => Recorded(c)'
    BY <1>2, <2>1
  <2> QED
    BY <1>2, <2>1, <2>2, NextItemAnswers
<1>3. ASSUME NEW s \in Syncs, sync[s].at # "idle", NextItem(s), deleted' = deleted,
             NEW t, sources' = SourceOf(Item(s).client, t)
      PROVE  Answered'
  <2>1. ASSUME NEW c, c = Item(s).client PROVE Recorded(c)' /\ \A d : Recorded(d) => Recorded(d)'
    BY <1>3, <2>1, SourceAdded
  <2>2. \A c \in Clients : c = Item(s).client => Recorded(c)'
    BY <2>1
  <2>3. \A d \in Clients : Recorded(d) => Recorded(d)'
    BY <2>1
  <2> QED
    BY <1>3, <2>2, <2>3, NextItemAnswers
<1>4. ASSUME NEW s \in Syncs, StartSync(s) PROVE Answered'
  <2>1. sync'[s].next = 1 /\ \A r \in Syncs \ {s} : sync'[r] = sync[r]
    <3>1. PICK batch : sync' = [sync EXCEPT ![s] = [sync[s] EXCEPT !.at = "replay", !.batch = batch]]
      BY <1>4 DEF StartSync
    <3>2. PICK work : work = sync[s]
      OBVIOUS
    <3>3. work \in Works /\ work.next = 1
      BY <1>4, <3>2 DEF StartSync, SyncTyped, WorkTyped
    <3>4. PICK new : new = [work EXCEPT !.at = "replay", !.batch = batch]
      OBVIOUS
    <3>5. new.next = 1
      BY <3>3, <3>4 DEF Works
    <3>6. sync' = [sync EXCEPT ![s] = new]
      BY <3>1, <3>2, <3>4
    <3> QED
      BY <3>5, <3>6 DEF SyncTyped
  <2> QED
    BY <1>0, <1>4, <2>1 DEF StartSync
<1>5. ASSUME NEW s \in Syncs, NEW at, Goes(s, at), sync[s].at # "idle",
             sources' = sources, deleted' = deleted, owed' = owed
      PROVE  Answered'
  <2>1. /\ sync'[s].batch = sync[s].batch /\ sync'[s].next = sync[s].next
        /\ \A r \in Syncs \ {s} : sync'[r] = sync[r]
    BY <1>5 DEF Goes, SyncTyped, WorkTyped, Works
  <2> QED
    BY <1>0, <1>5, <2>1
<1>6. ASSUME NEW s \in Syncs, LookForReplay(s) PROVE Answered'
  BY <1>2, <1>5, <1>6 DEF LookForReplay
<1>7. ASSUME NEW s \in Syncs, ResolveAccount(s) PROVE Answered'
  <2>1. /\ sync'[s].batch = sync[s].batch /\ sync'[s].next = sync[s].next
        /\ \A r \in Syncs \ {s} : sync'[r] = sync[r]
    BY <1>7 DEF ResolveAccount, SyncTyped, WorkTyped, Works
  <2> QED
    BY <1>0, <1>7, <2>1 DEF ResolveAccount
<1>8. ASSUME NEW s \in Syncs, InsertReferenced(s) PROVE Answered'
  <2>1. sync[s].at # "idle" /\ deleted' = deleted
    BY <1>8 DEF InsertReferenced
  <2>2. \/ Goes(s, "canonical") /\ sources' = sources /\ owed' = owed
        \/ sources' = SourceOf(Item(s).client, Len(ledger) + 1) /\ NextItem(s)
        \/ Ends(s) /\ sources' = sources
    BY <1>8 DEF InsertReferenced
  <2> QED
    BY <1>1, <1>3, <1>5, <2>1, <2>2
<1>9. ASSUME NEW s \in Syncs, AttachToCanonical(s) PROVE Answered'
  <2>1. sync[s].at # "idle" /\ deleted' = deleted
    BY <1>9 DEF AttachToCanonical
  <2>2. \/ \E t : sources' = SourceOf(Item(s).client, t) /\ NextItem(s)
        \/ Ends(s) /\ sources' = sources
    BY <1>9 DEF AttachToCanonical
  <2> QED
    BY <1>1, <1>3, <2>1, <2>2
<1>10. ASSUME NEW s \in Syncs, LockFingerprint(s) PROVE Answered'
  <2>1. sync[s].at = "fingerprint" /\ deleted' = deleted /\ sources' = sources
    BY <1>10 DEF LockFingerprint
  <2>2. CASE Recorded(Item(s).client)
    BY <1>2, <1>10, <2>1, <2>2 DEF LockFingerprint
  <2>3. CASE ~Recorded(Item(s).client)
    <3>1. /\ sync' = [sync EXCEPT ![s].at = "insert", ![s].collides = WithFingerprint(ItemFingerprint(s)) # {}]
          /\ owed' = owed
      BY <1>10, <2>3 DEF LockFingerprint
    <3>2. /\ sync'[s].batch = sync[s].batch /\ sync'[s].next = sync[s].next
          /\ \A r \in Syncs \ {s} : sync'[r] = sync[r]
      <4>1. PICK work \in Works : work = sync[s]
        BY DEF SyncTyped, WorkTyped
      <4>2. PICK new : new = [work EXCEPT !.at = "insert", !.collides = WithFingerprint(ItemFingerprint(s)) # {}]
        OBVIOUS
      <4>3. new.batch = work.batch /\ new.next = work.next
        BY <4>1, <4>2 DEF Works
      <4>4. sync' = [sync EXCEPT ![s] = new]
        BY <3>1, <4>1, <4>2
      <4> QED
        BY <4>1, <4>3, <4>4 DEF SyncTyped
    <3> QED
      BY <1>0, <2>1, <3>1, <3>2
  <2> QED
    BY <2>2, <2>3
<1>11. ASSUME NEW s \in Syncs, InsertFallback(s) PROVE Answered'
  <2>1. sync[s].at # "idle" /\ deleted' = deleted
    BY <1>11 DEF InsertFallback
  <2>2. \/ sources' = SourceOf(Item(s).client, Len(ledger) + 1) /\ NextItem(s)
        \/ Ends(s) /\ sources' = sources
    BY <1>11 DEF InsertFallback
  <2> QED
    BY <1>1, <1>3, <2>1, <2>2
<1>12. ASSUME NEW s \in Syncs, Interrupt(s) PROVE Answered'
  BY <1>1, <1>12 DEF Interrupt
<1>13. ASSUME NEW t \in DOMAIN ledger, DeleteTransaction(t) PROVE Answered'
  <2> DEFINE gone == {c \in Clients : [client |-> c, row |-> t] \in sources}
  <2>1. /\ sources' = {source \in sources : source.row # t}
        /\ deleted' = deleted \cup gone /\ owed' = owed \ gone /\ sync' = sync
    BY <1>13 DEF DeleteTransaction
  <2>2. ASSUME NEW c \in Clients, Recorded(c) PROVE c \in gone \/ Recorded(c)'
    <3>1. PICK source \in sources : source.client = c
      BY <2>2 DEF Recorded
    <3>2. CASE source.row = t
      BY <3>1, <3>2 DEF RowsTyped
    <3>3. CASE source.row # t
      BY <2>1, <3>1, <3>3 DEF Recorded
    <3> QED
      BY <3>2, <3>3
  <2>3. owed \subseteq Clients
    BY DEF Typed, RestTyped
  <2>4. \A c \in Clients : DealtWith(c) => DealtWith(c)'
    BY <2>1, <2>2 DEF DealtWith
  <2> QED
    BY <2>1, <2>2, <2>3, <2>4, OthersAnswered
<1>14. ASSUME NEW ref \in References, NEW booked \in BOOLEAN, CreateManualTransaction(ref, booked) PROVE Answered'
  BY <1>0, <1>14 DEF CreateManualTransaction
<1>15. ASSUME NEW t \in DOMAIN ledger, NEW status \in {"needs_review", "confirmed"}, NEW booked \in BOOLEAN,
              UpdateTransaction(t, status, booked)
       PROVE  Answered'
  BY <1>0, <1>15 DEF UpdateTransaction
<1>16. CASE CreateAccount \/ BeginDeleteAccount \/ FinishDeleteAccount \/ UNCHANGED vars
  BY <1>0, <1>16 DEF CreateAccount, BeginDeleteAccount, FinishDeleteAccount, vars
<1> QED
  BY <1>4, <1>6, <1>7, <1>8, <1>9, <1>10, <1>11, <1>12, <1>13, <1>14, <1>15, <1>16 DEF Next

(* A batch that is answered is recorded (syncTransactions): its device may  *)
(* forget it, whatever was interrupted and sent again before.               *)
THEOREM AnswersAreRecorded == Spec => []AnsweredBatchesAreRecorded
<1>1. Init => Answered
  BY DEF Init, Answered, AnsweredBatchesAreRecorded, Behind, IdleSync
<1>2. Answered => AnsweredBatchesAreRecorded
  BY DEF Answered
<1> QED
  BY <1>1, <1>2, TypedHolds, StepAnswered, PTL DEF Spec

-----------------------------------------------------------------------------
(* Counting *)

(* A reference has one row. *)
OneRowPerReference ==
    \A t, u \in Present : ledger[t].ref # None /\ ledger[t].ref = ledger[u].ref => t = u

(* A row is the one its observation is recorded for, ... *)
Sourced ==
    \A t \in Present : ledger[t].by \notin straddled => [client |-> ledger[t].by, row |-> t] \in sources

(* ... an observation is recorded once, ... *)
RecordedOnce ==
    \A a, b \in sources : a.client \in Clients /\ a.client = b.client => a = b

(* ... and one that has a reference for the row of that reference. *)
RecordedForItsReference ==
    \A a \in sources, i \in Items :
        a.client = i.client /\ i.ref # None => ledger[a.row].ref = i.ref

(* While an observation without a reference is booked, either the account  *)
(* stays what it was, and it is not recorded until it is inserted, or it   *)
(* straddles the change.                                                   *)
Booked(s) ==
    /\ sync[s].at \in {"fingerprint", "insert"} /\ Item(s).client \notin straddled
          => sync[s].account = (account.state = "open")
    /\ sync[s].at = "insert" /\ Item(s).client \notin straddled => ~Recorded(Item(s).client)

Counted ==
    /\ OneRowPerReference /\ Sourced /\ RecordedOnce /\ RecordedForItsReference
    /\ \A s \in Syncs : Booked(s)

RowsCounted == OneRowPerReference /\ Sourced /\ RecordedOnce /\ RecordedForItsReference

(* A row is inserted for an observation that has none, or one that straddles *)
(* a change of the account.                                                  *)
LEMMA InsertCounted ==
    ASSUME RowsTyped, RowsCounted, NEW marked \in Seq(Rows), Len(marked) = Len(ledger),
           \A u \in 1..Len(ledger) : Alike(marked[u], ledger[u]),
           NEW row \in Rows, row.present, ledger' = Append(marked, row), straddled' = straddled,
           row.ref # None => WithReference(row.ref) = {},
           \A i \in Items : i.client = row.by /\ i.ref # None => row.ref = i.ref,
           \/ /\ sources' = sources \cup {[client |-> row.by, row |-> Len(ledger) + 1]}
              /\ row.by \in Clients => ~Recorded(row.by)
           \/ sources' = sources /\ row.by \in straddled
    PROVE  RowsCounted'
<1>1. /\ \A u \in 1..Len(ledger) : ledger'[u] = marked[u]
      /\ ledger'[Len(ledger) + 1] = row
      /\ Present' = Present \cup {Len(ledger) + 1}
      /\ Present \subseteq 1..Len(ledger)
      /\ Len(ledger) + 1 \notin Present
  BY RowInserted
<1> DEFINE new == Len(ledger) + 1
           source == [client |-> row.by, row |-> new]
<1>2. /\ \/ sources' = sources \cup {source} /\ (row.by \in Clients => ~Recorded(row.by))
         \/ sources' = sources /\ row.by \in straddled
      /\ source.client = row.by /\ source.row = new
  OBVIOUS
<1> HIDE DEF new
<1>3. /\ Present' = Present \cup {new} /\ new \notin Present /\ ledger'[new] = row
      /\ \A u \in Present : ledger'[u].by = ledger[u].by /\ ledger'[u].ref = ledger[u].ref
  BY <1>1 DEF new, Alike
<1>4. Sourced'
  BY <1>2, <1>3 DEF RowsCounted, Sourced
<1>5. \A a \in sources : a.row \in Present
  BY DEF RowsTyped
<1> HIDE DEF source
<1>6. OneRowPerReference'
  <2> SUFFICES ASSUME NEW t \in Present', NEW u \in Present', ledger'[t].ref # None, ledger'[t].ref = ledger'[u].ref
               PROVE  t = u
    BY DEF OneRowPerReference
  <2>1. CASE t \in Present /\ u \in Present
    <3>1. ledger[t].ref # None /\ ledger[t].ref = ledger[u].ref
      BY <1>3, <2>1
    <3>2. OneRowPerReference
      BY DEF RowsCounted
    <3> QED
      BY <2>1, <3>1, <3>2 DEF OneRowPerReference
  <2>2. ASSUME row.ref # None PROVE \A v \in Present : ledger'[v].ref # row.ref
    BY <1>3, <2>2 DEF WithReference
  <2>3. CASE t = new /\ u \in Present
    <3>1. ledger'[t].ref = row.ref
      BY <1>3, <2>3
    <3>2. row.ref # None /\ ledger'[u].ref = row.ref
      BY <3>1
    <3> QED
      BY <2>3, <2>2, <3>2
  <2>4. CASE u = new /\ t \in Present
    <3>1. ledger'[u].ref = row.ref
      BY <1>3, <2>4
    <3>2. row.ref # None /\ ledger'[t].ref = row.ref
      BY <3>1
    <3> QED
      BY <2>4, <2>2, <3>2
  <2> QED
    BY <1>3, <2>1, <2>3, <2>4
<1>7. RecordedOnce'
  <2> SUFFICES ASSUME NEW a \in sources', NEW b \in sources', a.client \in Clients, a.client = b.client
               PROVE  a = b
    BY DEF RecordedOnce
  <2>1. CASE a \in sources /\ b \in sources
    BY <2>1 DEF RowsCounted, RecordedOnce
  <2>2. CASE a \notin sources \/ b \notin sources
    BY <1>2, <2>2 DEF Recorded
  <2> QED
    BY <2>1, <2>2
<1>8. RecordedForItsReference'
  <2> SUFFICES ASSUME NEW a \in sources', NEW i \in Items, a.client = i.client, i.ref # None
               PROVE  ledger'[a.row].ref = i.ref
    BY DEF RecordedForItsReference
  <2>1. CASE a \in sources
    BY ZenonT(30), <1>3, <1>5, <2>1 DEF RowsCounted, RecordedForItsReference
  <2>2. CASE a \notin sources
    BY <1>2, <1>3, <2>2
  <2> QED
    BY <2>1, <2>2
<1> QED
  BY <1>4, <1>6, <1>7, <1>8 DEF RowsCounted

(* What a step does to the bookings of the other batches: nothing, when the *)
(* account stays and it records nothing they are about to insert.           *)
LEMMA OthersStayBooked ==
    ASSUME \A r \in Syncs : Booked(r), NEW r \in Syncs, sync'[r] = sync[r],
           account'.state = account.state, straddled' = straddled,
           \A c : c = Item(r).client /\ c \notin straddled /\ sync[r].at = "insert" /\ Recorded(c)' => Recorded(c)
    PROVE  Booked(r)'
<1> DEFINE c == Item(r).client
<1>1. Item(r)' = Item(r)
  BY DEF Item
<1>2. sync'[r].at = "insert" /\ c \notin straddled => ~Recorded(c) /\ Item(r)'.client = c
  BY <1>1 DEF Booked
<1>3. ASSUME NEW d, d = Item(r)'.client, sync'[r].at = "insert", d \notin straddled PROVE ~Recorded(d)'
  BY <1>1, <1>2, <1>3
<1> QED
  BY <1>1, <1>3 DEF Booked

LEMMA QuietMoveCounted ==
    ASSUME Counted, NEW s \in Syncs, \A r \in Syncs \ {s} : sync'[r] = sync[r],
           ledger' = ledger, sources' = sources, account' = account, straddled' = straddled,
           Booked(s)'
    PROVE  Counted'
<1>1. \A r \in Syncs \ {s} : Booked(r)'
  BY OthersStayBooked DEF Counted, Recorded
<1>2. RowsCounted'
  BY DEF Counted, RowsCounted, OneRowPerReference, Sourced, RecordedOnce, RecordedForItsReference, Present
<1> QED
  BY <1>1, <1>2 DEF Counted, RowsCounted

LEMMA EndCounted ==
    ASSUME Counted, NEW s \in Syncs, \A r \in Syncs \ {s} : sync'[r] = sync[r],
           sync'[s].at \notin {"fingerprint", "insert"},
           ledger' = ledger, sources' = sources, account' = account, straddled' = straddled
    PROVE  Counted'
  BY QuietMoveCounted DEF Booked

(* An observation with a reference is recorded only while that has a row.  *)
LEMMA NotYetRecorded ==
    ASSUME RowsTyped, SyncTyped, RecordedForItsReference, NEW s \in Syncs, sync[s].at = "reference",
           WithReference(Item(s).ref) = {}
    PROVE  ~Recorded(Item(s).client)
<1> SUFFICES ASSUME NEW a \in sources, a.client = Item(s).client PROVE FALSE
  BY DEF Recorded
<1>1. Item(s) \in Items /\ Item(s).ref # None
  BY ItemsAreItems DEF SyncTyped, WorkTyped, Item
<1>2. a.row \in Present /\ ledger[a.row].ref = Item(s).ref
  BY <1>1 DEF RowsTyped, RecordedForItsReference
<1> QED
  BY <1>1, <1>2 DEF WithReference

(* An observation with a reference is not one that is about to be inserted  *)
(* without one.                                                             *)
LEMMA ReferencedApart ==
    ASSUME SyncTyped, NEW s \in Syncs, sync[s].at \in {"reference", "canonical"},
           NEW r \in Syncs, sync[r].at = "insert"
    PROVE  Item(r).client # Item(s).client
<1>1. Item(s) \in Items /\ Item(r) \in Items
  BY ItemsAreItems
<1>2. Item(s).ref # None /\ Item(r).ref = None
  BY DEF SyncTyped, WorkTyped, Item
<1> QED
  BY <1>1, <1>2, ItemsHaveTheirId

(* Two deliveries of one observation insert one after the other, unless it *)
(* straddles a change of the account.                                      *)
LEMMA FallbackApart ==
    ASSUME SyncTyped, Exclusive, \A r \in Syncs : Booked(r),
           NEW s \in Syncs, NEW r \in Syncs \ {s}, sync[s].at = "insert", sync[r].at = "insert",
           Item(r).client = Item(s).client
    PROVE  Item(r).client \in straddled
<1> SUFFICES ASSUME Item(r).client \notin straddled PROVE FALSE
  OBVIOUS
<1>1. Item(r) = Item(s)
  BY ItemsAreItems, ItemsHaveTheirId
<1>2. sync[r].account = sync[s].account
  BY DEF Booked
<1>3. ItemFingerprint(r) = ItemFingerprint(s)
  BY <1>1, <1>2 DEF ItemFingerprint
<1> QED
  BY <1>3 DEF Exclusive

LEMMA StepCounted == Typed /\ Reviewed /\ Counted /\ [Next]_vars => Counted'
<1> SUFFICES ASSUME Typed, Reviewed, Counted, [Next]_vars PROVE Counted'
  OBVIOUS
<1> RowsTyped /\ SyncTyped /\ RowsCounted /\ \A s \in Syncs : sync[s] \in Works
  BY DEF Typed, SyncTyped, WorkTyped, Counted, RowsCounted
<1>1. ASSUME NEW s \in Syncs, StartSync(s) \/ Interrupt(s) PROVE Counted'
  <2>1. (\A r \in Syncs \ {s} : sync'[r] = sync[r]) /\ sync'[s].at \in {"idle", "replay"}
    <3>1. CASE StartSync(s)
      BY <3>1 DEF StartSync, SyncTyped, WorkTyped, Works
    <3>2. CASE Interrupt(s)
      BY <3>2, WorkEnds DEF Interrupt
    <3> QED
      BY <1>1, <3>1, <3>2
  <2> QED
    BY <1>1, <2>1, EndCounted DEF StartSync, Interrupt
<1>2. ASSUME NEW s \in Syncs, LookForReplay(s) PROVE Counted'
  <2>1. (\A r \in Syncs \ {s} : sync'[r] = sync[r]) /\ sync'[s].at \in {"idle", "replay", "account"}
    <3>1. CASE NextItem(s)
      BY <1>2, <3>1, NextItemMoves DEF LookForReplay
    <3>2. CASE Goes(s, "account")
      BY <3>2 DEF Goes, SyncTyped, WorkTyped, Works
    <3> QED
      BY <1>2, <3>1, <3>2 DEF LookForReplay
  <2> QED
    BY <1>2, <2>1, EndCounted DEF LookForReplay
<1>3. ASSUME NEW s \in Syncs, ResolveAccount(s) PROVE Counted'
  <2>1. /\ \A r \in Syncs \ {s} : sync'[r] = sync[r]
        /\ sync'[s].at \in {"fingerprint", "reference"}
        /\ sync'[s].account = (account.state = "open")
    BY <1>3 DEF ResolveAccount, SyncTyped, WorkTyped, Works
  <2>2. Booked(s)'
    BY <1>3, <2>1 DEF Booked, ResolveAccount
  <2> QED
    BY <1>3, <2>1, <2>2, QuietMoveCounted DEF ResolveAccount
<1>4. ASSUME NEW s \in Syncs, InsertReferenced(s) PROVE Counted'
  <2> DEFINE row == Row(Item(s), sync[s].account, NoFingerprint, "verified")
  <2>1. /\ sync[s].at = "reference" /\ row \in Rows /\ row.present
        /\ \/ ledger' = ledger /\ sources' = sources
           \/ /\ WithReference(Item(s).ref) = {}
              /\ ledger' = Append(ledger, row)
              /\ sources' = SourceOf(Item(s).client, Len(ledger) + 1)
              /\ NextItem(s)
    BY <1>4, ReferencedInserts
  <2>2. (\A r \in Syncs \ {s} : sync'[r] = sync[r]) /\ sync'[s].at \in {"idle", "replay", "canonical"}
    <3>1. CASE Goes(s, "canonical")
      BY <3>1 DEF Goes, SyncTyped, WorkTyped, Works
    <3>2. CASE NextItem(s)
      BY <2>1, <3>2, NextItemMoves
    <3>3. CASE Ends(s)
      BY <3>3, WorkEnds
    <3> QED
      BY <1>4, <3>1, <3>2, <3>3 DEF InsertReferenced
  <2>3. account' = account /\ straddled' = straddled
    BY <1>4 DEF InsertReferenced
  <2>4. CASE ledger' = ledger /\ sources' = sources
    BY <2>2, <2>3, <2>4, EndCounted
  <2>5. CASE /\ WithReference(Item(s).ref) = {}
             /\ ledger' = Append(ledger, row)
             /\ sources' = SourceOf(Item(s).client, Len(ledger) + 1)
    <3>1. ~Recorded(Item(s).client)
      BY <2>1, <2>5, NotYetRecorded DEF RowsCounted
    <3>2. /\ sources' = sources \cup {[client |-> Item(s).client, row |-> Len(ledger) + 1]}
          /\ \A d : d # Item(s).client /\ Recorded(d)' => Recorded(d)
      <4> DEFINE client == Item(s).client
      <4> HIDE DEF client
      <4>1. sources' = SourceOf(client, Len(ledger) + 1) /\ ~Recorded(client)
        BY <2>5, <3>1 DEF client
      <4>2. /\ sources' = sources \cup {[client |-> client, row |-> Len(ledger) + 1]}
            /\ \A d : d # client /\ Recorded(d)' => Recorded(d)
        BY <4>1 DEF SourceOf, Recorded
      <4> QED
        BY <4>2 DEF client
    <3>3. Item(s) \in Items
      BY <2>1, ItemsAreItems
    <3>4. row.by = Item(s).client /\ row.ref = Item(s).ref
      BY DEF Row
    <3>5. \A i \in Items : i.client = row.by /\ i.ref # None => row.ref = i.ref
      BY <3>3, <3>4, ItemsHaveTheirId
    <3> HIDE DEF row
    <3>6. RowsCounted'
      BY <2>1, <2>3, <2>5, <3>1, <3>2, <3>4, <3>5, SelfIsAlike, InsertCounted
    <3>7. ASSUME NEW r \in Syncs \ {s} PROVE Booked(r)'
      <4>1. \A c : c = Item(r).client /\ sync[r].at = "insert" /\ Recorded(c)' => Recorded(c)
        BY <2>1, <3>2, ReferencedApart
      <4> QED
        BY <2>2, <2>3, <4>1, OthersStayBooked DEF Counted
    <3>8. Booked(s)'
      BY <2>2 DEF Booked
    <3> QED
      BY <3>6, <3>7, <3>8 DEF Counted, RowsCounted
  <2> QED
    BY <2>1, <2>4, <2>5
<1>5. ASSUME NEW s \in Syncs, AttachToCanonical(s) PROVE Counted'
  <2>1. sync[s].at = "canonical" /\ ledger' = ledger /\ account' = account /\ straddled' = straddled
    BY <1>5 DEF AttachToCanonical
  <2>2. (\A r \in Syncs \ {s} : sync'[r] = sync[r]) /\ sync'[s].at \in {"idle", "replay"}
    BY <1>5, NextItemMoves, WorkEnds DEF AttachToCanonical
  <2>3. CASE sources' = sources
    BY <2>1, <2>2, <2>3, EndCounted
  <2>4. ASSUME NEW t \in WithReference(Item(s).ref), sources' = SourceOf(Item(s).client, t), sources' # sources
        PROVE  Counted'
    <3> DEFINE client == Item(s).client
               source == [client |-> client, row |-> t]
    <3> HIDE DEF client
    <3>1. sources' = SourceOf(client, t) /\ sources' # sources
      BY <2>4 DEF client
    <3>2. /\ sources' = sources \cup {source} /\ ~Recorded(client)
          /\ \A d : d # client /\ Recorded(d)' => Recorded(d)
          /\ source.client = client /\ source.row = t
      BY <3>1 DEF SourceOf, Recorded
    <3>3. Item(s) \in Items /\ client \in Clients /\ ledger[t].ref = Item(s).ref
      BY <2>1, ItemsAreItems DEF WithReference, client
    <3>4. \A i \in Items : i.client = client => ledger[t].ref = i.ref
      BY <3>3, ItemsHaveTheirId DEF client
    <3> HIDE DEF source
    <3>5. RecordedOnce'
      BY <3>2 DEF RowsCounted, RecordedOnce, Recorded
    <3>6. RecordedForItsReference'
      BY <2>1, <3>2, <3>4 DEF RowsCounted, RecordedForItsReference
    <3>7. OneRowPerReference' /\ Sourced'
      BY <2>1, <3>2 DEF RowsCounted, OneRowPerReference, Sourced, Present
    <3>8. ASSUME NEW r \in Syncs \ {s} PROVE Booked(r)'
      <4>1. \A c : c = Item(r).client /\ sync[r].at = "insert" /\ Recorded(c)' => Recorded(c)
        BY <2>1, <3>2, ReferencedApart DEF client
      <4> QED
        BY <2>1, <2>2, <4>1, OthersStayBooked DEF Counted
    <3>9. Booked(s)'
      BY <2>2 DEF Booked
    <3> QED
      BY <3>5, <3>6, <3>7, <3>8, <3>9 DEF Counted
  <2> QED
    BY <1>5, <2>3, <2>4 DEF AttachToCanonical

<1>6. ASSUME NEW s \in Syncs, LockFingerprint(s) PROVE Counted'
  <2>1. /\ sync[s].at = "fingerprint"
        /\ ledger' = ledger /\ sources' = sources /\ account' = account /\ straddled' = straddled
    BY <1>6 DEF LockFingerprint
  <2>2. CASE NextItem(s)
    <3>1. (\A r \in Syncs \ {s} : sync'[r] = sync[r]) /\ sync'[s].at \in {"idle", "replay"}
      BY <2>1, <2>2, NextItemMoves
    <3> QED
      BY <2>1, <3>1, EndCounted
  <2>3. CASE /\ ~Recorded(Item(s).client)
             /\ sync' = [sync EXCEPT ![s].at = "insert", ![s].collides = WithFingerprint(ItemFingerprint(s)) # {}]
    <3>1. /\ \A r \in Syncs \ {s} : sync'[r] = sync[r]
          /\ sync'[s].batch = sync[s].batch /\ sync'[s].next = sync[s].next /\ sync'[s].account = sync[s].account
      BY ZenonT(30), <2>3 DEF SyncTyped, WorkTyped, Works
    <3>2. Item(s)' = Item(s)
      BY <3>1 DEF Item
    <3>3. ~Recorded(Item(s).client)'
      BY <2>1, <2>3, <3>2 DEF Recorded
    <3>4. Booked(s)'
      BY <2>1, <3>1, <3>2, <3>3 DEF Booked, Counted
    <3> QED
      BY <2>1, <3>1, <3>4, QuietMoveCounted
  <2> QED
    BY <1>6, <2>2, <2>3 DEF LockFingerprint
<1>7. ASSUME NEW s \in Syncs, InsertFallback(s) PROVE Counted'
  <2> DEFINE status == IF sync[s].collides THEN "needs_review" ELSE "verified"
             row == Row(Item(s), sync[s].account, ItemFingerprint(s), status)
             marked == Marked(ItemFingerprint(s), sync[s].collides)
  <2>1. /\ sync[s].at = "insert" /\ row \in Rows /\ row.present
        /\ \/ ledger' = ledger /\ sources' = sources /\ Ends(s)
           \/ /\ ledger' = Append(marked, row)
              /\ sources' = SourceOf(Item(s).client, Len(ledger) + 1)
              /\ NextItem(s)
    BY <1>7, FallbackInserts
  <2>2. (\A r \in Syncs \ {s} : sync'[r] = sync[r]) /\ sync'[s].at \in {"idle", "replay"}
    BY <2>1, NextItemMoves, WorkEnds
  <2>3. account' = account /\ straddled' = straddled
    BY <1>7 DEF InsertFallback
  <2>4. CASE ledger' = ledger /\ sources' = sources
    BY <2>2, <2>3, <2>4, EndCounted
  <2>5. CASE ledger' = Append(marked, row) /\ sources' = SourceOf(Item(s).client, Len(ledger) + 1)
    <3>1. Item(s) \in Items /\ Item(s).client \in Clients /\ Item(s).ref = None
      BY <2>1, ItemsAreItems DEF SyncTyped, WorkTyped, Item
    <3>2. row.by = Item(s).client /\ row.ref = None
      BY <3>1 DEF Row
    <3>3. Item(s).client \notin straddled => ~Recorded(Item(s).client)
      BY <2>1 DEF Counted, Booked
    <3>4. /\ \/ /\ sources' = sources \cup {[client |-> row.by, row |-> Len(ledger) + 1]}
                /\ ~Recorded(row.by)
             \/ sources' = sources /\ row.by \in straddled
          /\ \A d : d # Item(s).client /\ Recorded(d)' => Recorded(d)
      <4> DEFINE client == Item(s).client
      <4> HIDE DEF client
      <4>1. sources' = SourceOf(client, Len(ledger) + 1) /\ (client \notin straddled => ~Recorded(client))
        BY <2>5, <3>3 DEF client
      <4>2. /\ \/ sources' = sources \cup {[client |-> client, row |-> Len(ledger) + 1]} /\ ~Recorded(client)
               \/ sources' = sources /\ client \in straddled
            /\ \A d : d # client /\ Recorded(d)' => Recorded(d)
        BY <4>1 DEF SourceOf, Recorded
      <4> QED
        BY <3>2, <4>2 DEF client
    <3>5. \A i \in Items : ~(i.client = row.by /\ i.ref # None)
      BY <3>1, <3>2, ItemsHaveTheirId
    <3>6. sync[s].collides \in BOOLEAN
      BY DEF Works
    <3>7. marked \in Seq(Rows) /\ Len(marked) = Len(ledger) /\ \A u \in 1..Len(ledger) : Alike(marked[u], ledger[u])
      BY <3>6, MarkedAreAlike
    <3> HIDE DEF row, marked
    <3>8. RowsCounted'
      BY <2>1, <2>3, <2>5, <3>2, <3>4, <3>5, <3>7, InsertCounted
    <3>9. ASSUME NEW r \in Syncs \ {s} PROVE Booked(r)'
      <4>1. sync[r].at = "insert" /\ Item(r).client = Item(s).client => Item(r).client \in straddled
        BY <2>1, FallbackApart DEF Counted, Reviewed
      <4>2. \A c : c = Item(r).client /\ c \notin straddled /\ sync[r].at = "insert" /\ Recorded(c)' => Recorded(c)
        BY <3>4, <4>1
      <4> QED
        BY <2>2, <2>3, <4>2, OthersStayBooked DEF Counted
    <3>10. Booked(s)'
      BY <2>2 DEF Booked
    <3> QED
      BY <3>8, <3>9, <3>10 DEF Counted, RowsCounted
  <2> QED
    BY <2>1, <2>4, <2>5
<1>8. ASSUME NEW ref \in References, NEW booked \in BOOLEAN, CreateManualTransaction(ref, booked)
      PROVE  Counted'
  <2> DEFINE row == Row([client |-> None, ref |-> ref], booked, NoFingerprint, "verified")
  <2>1. row \in Rows /\ row.present /\ row.by = None /\ row.ref = ref
    BY PrintsAreTyped DEF Row, Rows, Statuses
  <2>2. /\ ledger' = Append(ledger, row) /\ WithReference(ref) = {}
        /\ sources' = sources \cup {[client |-> None, row |-> Len(ledger) + 1]}
        /\ sync' = sync /\ account' = account /\ straddled' = straddled
    BY <1>8 DEF CreateManualTransaction
  <2>3. None \notin Clients
    BY NoneIsNoName
  <2>4. \A i \in Items : i.client # None
    BY <2>3 DEF Clients
  <2> HIDE DEF row
  <2>5. RowsCounted'
    BY <2>1, <2>2, <2>3, <2>4, SelfIsAlike, InsertCounted
  <2>6. \A d : d # None /\ Recorded(d)' => Recorded(d)
    BY <2>2 DEF Recorded
  <2>7. ASSUME NEW r \in Syncs PROVE Booked(r)'
    <3>1. sync[r].at = "insert" => Item(r).client # None
      BY <2>4, ItemsAreItems
    <3>2. \A c : c = Item(r).client /\ sync[r].at = "insert" /\ Recorded(c)' => Recorded(c)
      BY <2>6, <3>1
    <3> QED
      BY <2>2, <3>2, OthersStayBooked DEF Counted
  <2> QED
    BY <2>5, <2>7 DEF Counted, RowsCounted
<1>9. ASSUME NEW t \in DOMAIN ledger, DeleteTransaction(t) PROVE Counted'
  <2>1. /\ Present' = Present \ {t} /\ \A u \in Present' : ledger'[u] = ledger[u]
        /\ sources' = {source \in sources : source.row # t}
        /\ sync' = sync /\ account' = account /\ straddled' = straddled
    BY <1>9, RowDeleted DEF DeleteTransaction
  <2>2. \A a \in sources' : a \in sources /\ a.row \in Present'
    BY <2>1 DEF RowsTyped
  <2>3. OneRowPerReference' /\ Sourced'
    BY <2>1 DEF RowsCounted, OneRowPerReference, Sourced
  <2>4. RecordedOnce' /\ RecordedForItsReference'
    BY <2>1, <2>2 DEF RowsCounted, RecordedOnce, RecordedForItsReference
  <2>5. \A c : Recorded(c)' => Recorded(c)
    BY <2>2 DEF Recorded
  <2>6. \A r \in Syncs : Booked(r)'
    BY <2>1, <2>5, OthersStayBooked DEF Counted
  <2> QED
    BY <2>3, <2>4, <2>6 DEF Counted
<1>10. ASSUME NEW t \in DOMAIN ledger, NEW status \in {"needs_review", "confirmed"}, NEW booked \in BOOLEAN,
              UpdateTransaction(t, status, booked)
       PROVE  Counted'
  <2>1. /\ t \in Present
        /\ ledger' = [ledger EXCEPT ![t].status = status, ![t].account = booked]
        /\ sources' = sources /\ sync' = sync /\ account' = account /\ straddled' = straddled
    BY <1>10 DEF UpdateTransaction
  <2>2. status \in Statuses /\ Present \subseteq DOMAIN ledger /\ \A a \in sources : a.row \in Present
    BY DEF Statuses, Present, RowsTyped
  <2>3. /\ Present' = Present
        /\ ledger'[t].by = ledger[t].by /\ ledger'[t].ref = ledger[t].ref
        /\ \A u \in DOMAIN ledger \ {t} : ledger'[u] = ledger[u]
    BY <2>1, <2>2, RowUpdated
  <2>4. \A u \in Present : ledger'[u].by = ledger[u].by /\ ledger'[u].ref = ledger[u].ref
    BY <2>2, <2>3
  <2>5. RowsCounted'
    BY <2>1, <2>2, <2>3, <2>4 DEF RowsCounted, OneRowPerReference, Sourced, RecordedOnce, RecordedForItsReference
  <2>6. \A r \in Syncs : Booked(r)'
    BY <2>1, OthersStayBooked DEF Counted, Recorded
  <2> QED
    BY <2>5, <2>6 DEF Counted, RowsCounted
<1>11. CASE CreateAccount \/ FinishDeleteAccount
  <2>1. ledger' = ledger /\ sources' = sources /\ sync' = sync /\ straddled' = straddled \cup Booking
    BY <1>11 DEF CreateAccount, FinishDeleteAccount
  <2>2. ASSUME NEW r \in Syncs PROVE Booked(r)'
    <3>1. Item(r)' = Item(r)
      BY <2>1 DEF Item
    <3>2. sync[r].at \in {"fingerprint", "insert"} => Item(r).client \in straddled'
      BY <2>1 DEF Booking
    <3> QED
      BY <2>1, <3>1, <3>2 DEF Booked
  <2>3. RowsCounted'
    BY <2>1 DEF RowsCounted, OneRowPerReference, Sourced, RecordedOnce, RecordedForItsReference, Present
  <2> QED
    BY <2>2, <2>3 DEF Counted, RowsCounted
<1>12. CASE BeginDeleteAccount \/ UNCHANGED vars
  <2>1. /\ ledger' = ledger /\ sources' = sources /\ sync' = sync /\ straddled' = straddled
        /\ account'.state = account.state
    BY <1>12 DEF BeginDeleteAccount, vars, Typed, RestTyped
  <2>2. RowsCounted'
    BY <2>1 DEF RowsCounted, OneRowPerReference, Sourced, RecordedOnce, RecordedForItsReference, Present
  <2>3. \A r \in Syncs : Booked(r)'
    BY <2>1, OthersStayBooked DEF Counted, Recorded
  <2> QED
    BY <2>2, <2>3 DEF Counted, RowsCounted
<1> QED
  BY <1>1, <1>2, <1>3, <1>4, <1>5, <1>6, <1>7, <1>8, <1>9, <1>10, <1>11, <1>12 DEF Next

LEMMA CountedHolds == Spec => []Counted
<1>1. Init => Counted
  BY DEF Init, Counted, OneRowPerReference, Sourced, RecordedOnce, RecordedForItsReference, Booked, IdleSync, Present
<1>2. Init => Reviewed
  BY DEF Init, Reviewed, LookalikesAreReviewed, Exclusive, Looked, IdleSync, Present
<1> QED
  BY <1>1, <1>2, TypedHolds, StepReviewed, StepCounted, PTL DEF Spec

(* A set in which no two elements differ has at most one. *)
LEMMA AtMostOne ==
    ASSUME NEW S, \A x, y \in S : x = y
    PROVE  Cardinality(S) <= 1
<1>1. CASE S = {}
  BY <1>1, FS_EmptySet
<1>2. CASE S # {}
  <2>1. PICK x \in S : TRUE
    BY <1>2
  <2>2. S = {x}
    BY <2>1
  <2> QED
    BY <2>2, FS_Singleton
<1> QED
  BY <1>1, <1>2

(* However often and by however many requests at a time a batch is sent and *)
(* interrupted, an observation makes at most one row, and every row has the *)
(* source that tells where it comes from (syncTransactions).                *)
THEOREM ObservationsAreCounted == Spec => []ObservationsCountOnce
<1>1. Typed /\ Counted => ObservationsCountOnce
  <2> SUFFICES ASSUME Typed, Counted PROVE ObservationsCountOnce
    OBVIOUS
  <2>1. ASSUME NEW c \in Clients \ straddled
        PROVE  Cardinality({t \in Present : ledger[t].by = c}) <= 1
    <3>1. \A t, u \in {v \in Present : ledger[v].by = c} : t = u
      BY DEF Counted, Sourced, RecordedOnce
    <3> HIDE DEF Present
    <3> QED
      BY <3>1, AtMostOne
  <2>2. \A t \in Present : ledger[t].by \in straddled \/ \E source \in sources : source.row = t
    BY DEF Counted, Sourced
  <2> QED
    BY <2>1, <2>2 DEF ObservationsCountOnce
<1> QED
  BY <1>1, TypedHolds, CountedHolds, PTL

(* Rows are typed, a source refers to a row that is there, and a reference *)
(* has at most one row.                                                    *)
THEOREM LedgerIsTyped == Spec => []TypeOK
<1>1. Typed /\ Counted => TypeOK
  <2> SUFFICES ASSUME Typed, Counted PROVE TypeOK
    OBVIOUS
  <2> RowsTyped /\ SyncTyped /\ RestTyped
    BY DEF Typed
  <2>1. \A t \in DOMAIN ledger : ledger[t] \in Rows
    BY DEF RowsTyped
  <2>2. ASSUME NEW ref \in References PROVE Cardinality(WithReference(ref)) <= 1
    <3>1. \A t, u \in WithReference(ref) : t = u
      BY DEF Counted, OneRowPerReference, WithReference
    <3> QED
      BY <3>1, AtMostOne
  <2>3. ASSUME NEW s \in Syncs
        PROVE  sync[s].at \in Steps /\ (sync[s].at # "idle" => sync[s].next \in DOMAIN sync[s].batch)
    BY DEF SyncTyped, WorkTyped, Works
  <2> QED
    BY <2>1, <2>2, <2>3 DEF TypeOK, RowsTyped, RestTyped, Rows, Prints
<1> QED
  BY <1>1, TypedHolds, CountedHolds, PTL
===============================================================================
