-------------------------- MODULE JobPipeline_proofs --------------------------
(***************************************************************************)
(* No requested work is lost between the database and the queue, and no    *)
(* subscriber misses an event of its run, for any number of events,        *)
(* dispatchers, job slots, connections and faults.                         *)
(*                                                                         *)
(* Handed is about outbox rows, dispatchers and jobs.  SlotsTyped and      *)
(* Numbered are about the slots that append events under a run's advisory  *)
(* lock: its events have no gap.  Following is about connections: what a   *)
(* client has received, and what is on its way, are its run's first events. *)
(***************************************************************************)
EXTENDS JobPipeline, SequenceTheorems, FiniteSetTheorems, TLAPS

(* A job the queue was given is never forgotten: a published event has a   *)
(* job, and so has the one a dispatcher is about to publish.               *)
Handed ==
    /\ job \in [Events -> [state : JobStates, attempts : Nat]]
    /\ outbox \in [Events -> OutboxStates]
    /\ dispatcher \in [Dispatchers -> [batch : SUBSET Events, added : Events \cup {None}]]
    /\ \A d \in Dispatchers :
          dispatcher[d].added # None => job[dispatcher[d].added].state # "absent"
    /\ PublishedWorkIsQueued

LEMMA InitHanded == Init => Handed
<1> SUFFICES ASSUME Init PROVE Handed
  OBVIOUS
<1> USE DEF Init
<1>1. PICK s \in Starts :
        /\ outbox = [e \in Events |-> IF e \in s.new THEN "absent" ELSE "published"]
        /\ job = [e \in Events |->
                    [state |-> IF e \in s.new THEN "absent" ELSE IF e \in s.queued THEN "waiting" ELSE "completed",
                     attempts |-> 0]]
  OBVIOUS
<1>2. job \in [Events -> [state : JobStates, attempts : Nat]] /\ outbox \in [Events -> OutboxStates]
  BY <1>1 DEF JobStates, OutboxStates
<1>3. PublishedWorkIsQueued
  BY <1>1 DEF PublishedWorkIsQueued
<1> QED
  BY <1>2, <1>3 DEF Handed, IdleDispatcher

(* A dispatcher adds a job before it publishes the event. *)
LEMMA DispatchHanded ==
    ASSUME Handed, NEW d \in Dispatchers, Dispatch(d)
    PROVE  Handed'
<1>1. CASE SelectBatch(d)
  BY <1>1 DEF SelectBatch, IdleDispatcher, Handed, PublishedWorkIsQueued
<1>2. CASE AddJob(d)
  BY <1>2 DEF AddJob, Enqueued, Handed, PublishedWorkIsQueued, JobStates
<1>3. CASE MarkPublished(d)
  BY <1>3 DEF MarkPublished, Handed, PublishedWorkIsQueued, OutboxStates
<1> QED
  BY <1>1, <1>2, <1>3 DEF Dispatch

(* A slot serves jobs the queue has given it, or has given to another slot. *)
LEMMA WorkHanded ==
    ASSUME Handed, NEW w \in Slots, Work(w)
    PROVE  Handed'
<1>1. ASSUME NEW e \in Events, TakeJob(w, e) PROVE Handed'
  BY <1>1 DEF TakeJob, Handed, PublishedWorkIsQueued, JobStates
<1>2. CASE FinishJob(w)
  BY ZenonT(30), <1>2 DEF FinishJob, Handed, PublishedWorkIsQueued, JobStates
<1>3. CASE ReadRun(w) \/ StartRun(w) \/ AppendEvent(w) \/ CommitEvent(w) \/ CompleteRun(w)
  BY <1>3 DEF ReadRun, StartRun, AppendEvent, CommitEvent, CompleteRun, Handed, PublishedWorkIsQueued
<1> QED
  BY <1>1, <1>2, <1>3 DEF Work

(* Faults delay work, repeat it or end its attempts. *)
LEMMA FaultsHanded ==
    ASSUME Handed, Faults
    PROVE  Handed'
<1>1. ASSUME NEW d \in Dispatchers, AddJobFails(d) PROVE Handed'
  <2>1. PICK e \in dispatcher[d].batch :
          /\ Enqueued(e) \/ UNCHANGED job
          /\ outbox' = [outbox EXCEPT ![e] = IF @ = "published" THEN @ ELSE "backing_off"]
          /\ dispatcher' = [dispatcher EXCEPT ![d].batch = @ \ {e}]
    BY <1>1 DEF AddJobFails
  <2>2. CASE Enqueued(e)
    BY <1>1, <2>1, <2>2 DEF Enqueued, Handed, PublishedWorkIsQueued, JobStates, OutboxStates
  <2>3. CASE UNCHANGED job
    BY <1>1, <2>1, <2>3 DEF Handed, PublishedWorkIsQueued, OutboxStates
  <2> QED
    BY <2>1, <2>2, <2>3
<1>2. ASSUME NEW d \in Dispatchers, DispatcherCrashes(d) PROVE Handed'
  BY <1>2 DEF DispatcherCrashes, IdleDispatcher, Handed, PublishedWorkIsQueued
<1>3. ASSUME NEW w \in Slots, JobFails(w) PROVE Handed'
  <2> DEFINE e == slot[w].of
             after == IF job[e].attempts < MaxAttempts THEN "delayed" ELSE "failed"
  <2>1. CASE e \in Events /\ job[e].state = "active"
    <3>1. job' = [job EXCEPT ![e].state = after]
      BY <1>3, <2>1 DEF JobFails
    <3>2. after \in JobStates \ {"absent"}
      BY DEF JobStates
    <3> QED
      BY <1>3, <2>1, <3>1, <3>2 DEF JobFails, Handed, PublishedWorkIsQueued
  <2>2. CASE ~(e \in Events /\ job[e].state = "active")
    <3>1. job' = job
      BY <1>3, <2>2 DEF JobFails, Handed
    <3> QED
      BY <1>3, <3>1 DEF JobFails, Handed, PublishedWorkIsQueued
  <2> QED
    BY <2>1, <2>2
<1>4. ASSUME NEW e \in Events, LockIsLost(e) PROVE Handed'
  BY <1>4 DEF LockIsLost, Handed, PublishedWorkIsQueued, JobStates
<1>5. ASSUME NEW w \in Slots, SlotCrashes(w) PROVE Handed'
  BY <1>5 DEF SlotCrashes, Handed, PublishedWorkIsQueued
<1>6. ASSUME NEW s \in Subscribers, Disconnect(s) PROVE Handed'
  BY <1>6 DEF Disconnect, Handed, PublishedWorkIsQueued
<1> QED
  BY <1>1, <1>2, <1>3, <1>4, <1>5, <1>6 DEF Faults

LEMMA NextHanded == Handed /\ [Next]_vars => Handed'
<1> SUFFICES ASSUME Handed, [Next]_vars PROVE Handed'
  OBVIOUS
<1>1. ASSUME NEW e \in Events, Request(e) PROVE Handed'
  BY <1>1 DEF Request, Handed, PublishedWorkIsQueued, OutboxStates
<1>2. ASSUME NEW e \in Events, Timers(e) PROVE Handed'
  BY <1>2 DEF Timers, BackOffEnds, BackOffOver, JobStalls, Handed, PublishedWorkIsQueued, OutboxStates, JobStates
<1>3. ASSUME NEW r \in Runs, CancelRun(r) PROVE Handed'
  BY <1>3 DEF CancelRun, Handed, PublishedWorkIsQueued
<1>4. ASSUME NEW s \in Subscribers, Follow(s) PROVE Handed'
  BY <1>4 DEF Follow, Connect, Poll, Receive, Handed, PublishedWorkIsQueued
<1>5. CASE UNCHANGED vars
  BY <1>5 DEF vars, Handed, PublishedWorkIsQueued
<1> QED
  BY <1>1, <1>2, <1>3, <1>4, <1>5, DispatchHanded, WorkHanded, FaultsHanded DEF Next

(* publishedAt means the queue has the job (OutboxDispatcher.dispatch),    *)
(* whatever the number of dispatchers and whatever fails.                  *)
THEOREM PublishedIsQueued == Spec => []PublishedWorkIsQueued
<1>1. Handed => PublishedWorkIsQueued
  BY DEF Handed
<1> QED
  BY <1>1, InitHanded, NextHanded, PTL DEF Spec

-----------------------------------------------------------------------------
(* Types.  The number of an event that a slot inserts needs the numbers of *)
(* its run's events to be natural, so Typed rests on Numbered below.       *)

SlotRows == [at : SlotSteps, of : Events \cup {None}, type : {"none", "started", "completed"},
             sequence : Nat]
Connections == [run : Runs, open : BOOLEAN, cursor : Nat, wire : Seq(Nat), got : Seq(Nat)]

(* A slot that works has a job, and one that works on a run has a run. *)
SlotsTyped ==
    /\ slot \in [Slots -> SlotRows]
    /\ \A w \in Slots :
          /\ slot[w].at # "idle" => slot[w].of \in Events
          /\ slot[w].at \notin {"idle", "handle"} => slot[w].of \in Runs

(* A dispatcher publishes an event of its batch. *)
BatchesTyped == \A d \in Dispatchers : dispatcher[d].added \in dispatcher[d].batch \cup {None}

RunsTyped ==
    /\ run \in [Runs -> [status : RunStates, cancelRequested : BOOLEAN]]
    /\ faults \in 0..MaxFaults

(* The events of a run are numbered from one, without a gap.  A slot that  *)
(* holds a run's advisory lock inserts the next number, and holds it alone. *)
Numbered ==
    /\ DOMAIN log = Runs
    /\ \A r \in Runs : \E k \in Nat : DOMAIN log[r] = 1..k
    /\ \A w \in Slots : slot[w].at = "commit" =>
          /\ slot[w].sequence # 0
          /\ DOMAIN log[slot[w].of] = 1..(slot[w].sequence - 1)
          /\ \A v \in Slots : slot[v].at = "commit" /\ slot[v].of = slot[w].of => v = w

(* A client has received the first events of its run, and the next ones,   *)
(* up to the cursor, are on their way to it while it is connected.         *)
Followed(s) ==
    LET sub == subscriber[s] IN
    /\ \A i \in 1..Len(sub.got) : sub.got[i] = i
    /\ 1..Len(sub.got) \subseteq DOMAIN log[sub.run]
    /\ sub.open =>
          /\ sub.cursor = Len(sub.got) + Len(sub.wire)
          /\ \A i \in 1..Len(sub.wire) : sub.wire[i] = Len(sub.got) + i
          /\ 1..sub.cursor \subseteq DOMAIN log[sub.run]

Following ==
    /\ subscriber \in [Subscribers -> Connections]
    /\ \A s \in Subscribers : Followed(s)

LEMMA InitFollowing == Init => BatchesTyped /\ SlotsTyped /\ RunsTyped /\ Numbered /\ Following
<1> SUFFICES ASSUME Init PROVE BatchesTyped /\ SlotsTyped /\ RunsTyped /\ Numbered /\ Following
  OBVIOUS
<1>1. BatchesTyped
  BY DEF Init, BatchesTyped, IdleDispatcher
<1>2. SlotsTyped
  BY DEF Init, SlotsTyped, SlotRows, SlotSteps, IdleSlot
<1>3. RunsTyped
  BY BoundsAreNatural DEF Init, RunsTyped, RunStates
<1>4. Numbered
  <2>1. DOMAIN log = Runs /\ \A r \in Runs : DOMAIN log[r] = 1..0
    BY DEF Init
  <2>2. \A w \in Slots : slot[w].at = "idle"
    BY DEF Init, IdleSlot
  <2> QED
    BY <2>1, <2>2 DEF Numbered
<1>5. Following
  <2>1. ASSUME NEW s \in Subscribers
        PROVE  subscriber[s] \in Connections /\ Followed(s)
    <3>1. PICK r \in Runs : subscriber[s] =
            [run |-> r, open |-> FALSE, cursor |-> 0, wire |-> <<>>, got |-> <<>>]
      BY DEF Init
    <3>2. /\ subscriber[s].run = r /\ subscriber[s].open = FALSE /\ subscriber[s].got = <<>>
          /\ subscriber[s] \in Connections
      BY <3>1 DEF Connections
    <3>3. Len(subscriber[s].got) = 0
      BY <3>2
    <3> QED
      BY <3>2, <3>3 DEF Followed
  <2> QED
    BY <2>1 DEF Following, Init
<1> QED
  BY <1>1, <1>2, <1>3, <1>4, <1>5

-----------------------------------------------------------------------------
(* Dispatchers *)

LEMMA NextBatchesTyped ==
    ASSUME Handed, BatchesTyped, [Next]_vars
    PROVE  BatchesTyped'
<1>1. CASE UNCHANGED dispatcher
  BY <1>1 DEF BatchesTyped
<1>2. ASSUME NEW d \in Dispatchers, SelectBatch(d) PROVE BatchesTyped'
  BY <1>2 DEF SelectBatch, IdleDispatcher, Handed, BatchesTyped
<1>3. ASSUME NEW d \in Dispatchers, AddJob(d) PROVE BatchesTyped'
  BY <1>3 DEF AddJob, Handed, BatchesTyped
<1>4. ASSUME NEW d \in Dispatchers, MarkPublished(d) PROVE BatchesTyped'
  BY <1>4 DEF MarkPublished, Handed, BatchesTyped
<1>5. ASSUME NEW d \in Dispatchers, AddJobFails(d) PROVE BatchesTyped'
  BY <1>5 DEF AddJobFails, Handed, BatchesTyped
<1>6. ASSUME NEW d \in Dispatchers, DispatcherCrashes(d) PROVE BatchesTyped'
  BY <1>6 DEF DispatcherCrashes, IdleDispatcher, Handed, BatchesTyped
<1>7. ASSUME NEW w \in Slots, Work(w) PROVE UNCHANGED dispatcher
  BY <1>7 DEF Work, TakeJob, ReadRun, StartRun, AppendEvent, CommitEvent, CompleteRun, FinishJob
<1>8. ASSUME NEW s \in Subscribers, Follow(s) PROVE UNCHANGED dispatcher
  BY <1>8 DEF Follow, Connect, Poll, Receive
<1>9. ASSUME NEW e \in Events, Request(e) \/ Timers(e) \/ LockIsLost(e) PROVE UNCHANGED dispatcher
  BY <1>9 DEF Request, Timers, BackOffEnds, BackOffOver, JobStalls, LockIsLost
<1>10. ASSUME NEW w \in Slots, JobFails(w) \/ SlotCrashes(w) PROVE UNCHANGED dispatcher
  BY <1>10 DEF JobFails, SlotCrashes
<1>11. ASSUME NEW s \in Subscribers, Disconnect(s) PROVE UNCHANGED dispatcher
  BY <1>11 DEF Disconnect
<1>12. ASSUME NEW r \in Runs, CancelRun(r) PROVE UNCHANGED dispatcher
  BY <1>12 DEF CancelRun
<1>13. CASE UNCHANGED vars
  BY <1>1, <1>13 DEF vars
<1> QED
  BY <1>1, <1>2, <1>3, <1>4, <1>5, <1>6, <1>7, <1>8, <1>9, <1>10, <1>11, <1>12, <1>13
     DEF Next, Dispatch, Faults

-----------------------------------------------------------------------------
(* Runs and their events *)

LEMMA LastIsLast ==
    ASSUME NEW r, NEW k \in Nat, DOMAIN log[r] = 1..k
    PROVE  LastSequence(r) = k
<1>1. CASE k = 0
  BY <1>1 DEF LastSequence
<1>2. CASE k # 0
  <2>1. k \in 1..k /\ \A n \in 1..k : n <= k
    BY <1>2
  <2>2. \A m \in 1..k : (\A n \in 1..k : n <= m) => m = k
    BY <2>1
  <2> DEFINE last == CHOOSE m \in DOMAIN log[r] : \A n \in DOMAIN log[r] : n <= m
  <2>3. last \in 1..k /\ \A n \in 1..k : n <= last
    BY <2>1
  <2>4. LastSequence(r) = last
    BY <2>1 DEF LastSequence
  <2> QED
    BY <2>2, <2>3, <2>4
<1> QED
  BY <1>1, <1>2

(* Steps that leave slots at their commits and logs alone. *)
LEMMA NumberedUntouched ==
    ASSUME Numbered, UNCHANGED log,
           \A w \in Slots : slot'[w].at = "commit" => slot'[w] = slot[w]
    PROVE  Numbered'
BY DEF Numbered

LEMMA AppendNumbered ==
    ASSUME SlotsTyped, Numbered, NEW w \in Slots, AppendEvent(w)
    PROVE  SlotsTyped' /\ Numbered'
<1> DEFINE r == slot[w].of
<1>1. r \in Runs /\ slot[w] \in SlotRows /\ slot[w].at = "append"
  BY DEF AppendEvent, SlotsTyped
<1>2. PICK k \in Nat : DOMAIN log[r] = 1..k
  BY <1>1 DEF Numbered
<1>3. LastSequence(r) = k
  BY <1>2, LastIsLast
<1>4. PICK n : n = 1 + LastSequence(r)
  OBVIOUS
<1>5. n \in Nat /\ n # 0 /\ n - 1 = k
  BY <1>3, <1>4
<1>6. slot' = [slot EXCEPT ![w] = [@ EXCEPT !.at = "commit", !.sequence = n]]
  BY <1>4 DEF AppendEvent
<1> HIDE DEF r
<1>7. /\ slot'[w].at = "commit" /\ slot'[w].sequence = n /\ slot'[w].of = slot[w].of
      /\ slot'[w].type = slot[w].type /\ slot'[w] \in SlotRows
      /\ \A v \in Slots \ {w} : slot'[v] = slot[v]
      /\ slot' \in [Slots -> SlotRows]
  BY <1>1, <1>5, <1>6 DEF SlotsTyped, SlotRows, SlotSteps
<1>8. \A v \in Slots : slot[v].of = r => slot[v].at # "commit"
  BY DEF AppendEvent, Appending, r
<1>9. SlotsTyped'
  BY <1>1, <1>7 DEF SlotsTyped, r
<1>10. Numbered'
  <2>1. UNCHANGED log
    BY DEF AppendEvent
  <2> QED
    BY <1>1, <1>2, <1>5, <1>7, <1>8, <2>1 DEF Numbered, r
<1> QED
  BY <1>9, <1>10

(* What a commit does: the run has one more event. *)
LEMMA CommitAdds ==
    ASSUME SlotsTyped, Numbered, NEW w \in Slots, CommitEvent(w)
    PROVE  /\ DOMAIN log' = Runs
           /\ slot[w].of \in Runs
           /\ DOMAIN log'[slot[w].of] = 1..slot[w].sequence
           /\ DOMAIN log[slot[w].of] \subseteq DOMAIN log'[slot[w].of]
           /\ \A q \in Runs \ {slot[w].of} : log'[q] = log[q]
<1> DEFINE r == slot[w].of
           n == slot[w].sequence
<1>1. r \in Runs /\ n \in Nat /\ slot[w].at = "commit"
  BY DEF CommitEvent, SlotsTyped, SlotRows
<1>2. n # 0 /\ DOMAIN log[r] = 1..(n - 1) /\ DOMAIN log = Runs
  BY <1>1 DEF Numbered
<1>3. log' = [log EXCEPT ![r] =
                [m \in DOMAIN log[r] \cup {n} |-> IF m = n THEN slot[w].type ELSE log[r][m]]]
  BY DEF CommitEvent
<1> HIDE DEF r, n
<1>4. DOMAIN log' = Runs /\ DOMAIN log'[r] = (1..(n - 1)) \cup {n} /\ \A q \in Runs \ {r} : log'[q] = log[q]
  BY <1>1, <1>2, <1>3
<1>5. (1..(n - 1)) \cup {n} = 1..n
  BY <1>1, <1>2
<1> QED
  BY <1>1, <1>2, <1>4, <1>5 DEF r, n

LEMMA CommitNumbered ==
    ASSUME SlotsTyped, Numbered, NEW w \in Slots, CommitEvent(w)
    PROVE  SlotsTyped' /\ Numbered'
<1>1. slot[w] \in SlotRows /\ slot[w].at = "commit" /\ slot[w].of \in Runs
  BY DEF CommitEvent, SlotsTyped
<1>2. /\ slot' \in [Slots -> SlotRows]
      /\ slot'[w].at \in {"complete", "done"} /\ slot'[w].of = slot[w].of
      /\ \A v \in Slots \ {w} : slot'[v] = slot[v]
  BY <1>1 DEF CommitEvent, SlotsTyped, SlotRows, SlotSteps
<1>3. SlotsTyped'
  BY <1>1, <1>2 DEF SlotsTyped
<1>4. \A v \in Slots : slot'[v].at = "commit" =>
          v # w /\ slot'[v] = slot[v] /\ slot[v].of # slot[w].of
  BY <1>1, <1>2 DEF Numbered
<1>5. \A v \in Slots : slot'[v].at = "commit" => slot[v].of \in Runs
  BY <1>4 DEF SlotsTyped
<1>6. slot[w].sequence \in Nat
  BY <1>1 DEF SlotRows
<1> QED
  BY <1>1, <1>3, <1>4, <1>5, <1>6, CommitAdds DEF Numbered

(* The other steps of a slot. *)
LEMMA SlotNumbered ==
    ASSUME SlotsTyped, Numbered, NEW w \in Slots,
           \/ \E e \in Events : TakeJob(w, e)
           \/ ReadRun(w) \/ StartRun(w) \/ CompleteRun(w) \/ FinishJob(w)
           \/ JobFails(w) \/ SlotCrashes(w)
    PROVE  SlotsTyped' /\ Numbered'
<1>1. UNCHANGED log /\ slot[w] \in SlotRows
  BY DEF TakeJob, ReadRun, StartRun, CompleteRun, FinishJob, JobFails, SlotCrashes, SlotsTyped
<1>2. /\ slot' \in [Slots -> SlotRows] /\ slot'[w].at # "commit"
      /\ slot'[w].at # "idle" => slot'[w].of \in Events
      /\ slot'[w].at \notin {"idle", "handle"} => slot'[w].of \in Runs
      /\ \A v \in Slots \ {w} : slot'[v] = slot[v]
  <2>1. CASE \E e \in Events : TakeJob(w, e)
    <3>1. PICK e \in Events, at \in {"read", "handle"} :
            /\ slot' = [slot EXCEPT ![w] = [IdleSlot EXCEPT !.of = e, !.at = at]]
            /\ at = "read" => e \in Runs
      BY <2>1 DEF TakeJob
    <3>2. PICK new \in SlotRows : new = [IdleSlot EXCEPT !.of = e, !.at = at]
      BY DEF IdleSlot, SlotRows, SlotSteps
    <3>3. new.of = e /\ new.at = at
      BY <3>2 DEF IdleSlot
    <3> QED
      BY <3>1, <3>2, <3>3 DEF SlotsTyped
  <2>2. CASE FinishJob(w) \/ JobFails(w) \/ SlotCrashes(w)
    BY <2>2 DEF FinishJob, JobFails, SlotCrashes, SlotsTyped, SlotRows, SlotSteps, IdleSlot
  <2>3. CASE ReadRun(w)
    BY <1>1, <2>3 DEF ReadRun, SlotsTyped, SlotRows, SlotSteps, Events
  <2>4. CASE StartRun(w)
    BY <1>1, <2>4 DEF StartRun, SlotsTyped, SlotRows, SlotSteps, Events
  <2>5. CASE CompleteRun(w)
    BY <1>1, <2>5 DEF CompleteRun, SlotsTyped, SlotRows, SlotSteps, Events
  <2> QED
    BY <2>1, <2>2, <2>3, <2>4, <2>5
<1>3. SlotsTyped'
  BY <1>2 DEF SlotsTyped
<1>4. \A v \in Slots : slot'[v].at = "commit" => slot'[v] = slot[v]
  BY <1>2
<1> QED
  BY <1>1, <1>3, <1>4, NumberedUntouched

LEMMA NextNumbered ==
    ASSUME SlotsTyped, Numbered, [Next]_vars
    PROVE  SlotsTyped' /\ Numbered'
<1>1. CASE UNCHANGED <<slot, log>>
  BY <1>1 DEF SlotsTyped, Numbered
<1>2. ASSUME NEW w \in Slots, Work(w) \/ JobFails(w) \/ SlotCrashes(w)
      PROVE  SlotsTyped' /\ Numbered'
  BY <1>2, AppendNumbered, CommitNumbered, SlotNumbered DEF Work
<1>3. ASSUME NEW d \in Dispatchers, Dispatch(d) \/ AddJobFails(d) \/ DispatcherCrashes(d)
      PROVE  UNCHANGED <<slot, log>>
  BY <1>3 DEF Dispatch, SelectBatch, AddJob, MarkPublished, AddJobFails, DispatcherCrashes
<1>4. ASSUME NEW s \in Subscribers, Follow(s) \/ Disconnect(s) PROVE UNCHANGED <<slot, log>>
  BY <1>4 DEF Follow, Connect, Poll, Receive, Disconnect
<1>5. ASSUME NEW e \in Events, Request(e) \/ Timers(e) \/ LockIsLost(e) PROVE UNCHANGED <<slot, log>>
  BY <1>5 DEF Request, Timers, BackOffEnds, BackOffOver, JobStalls, LockIsLost
<1>6. ASSUME NEW r \in Runs, CancelRun(r) PROVE UNCHANGED <<slot, log>>
  BY <1>6 DEF CancelRun
<1>7. CASE UNCHANGED vars
  BY <1>1, <1>7 DEF vars
<1> QED
  BY <1>1, <1>2, <1>3, <1>4, <1>5, <1>6, <1>7 DEF Next, Faults

LEMMA NextRunsTyped ==
    ASSUME Numbered, SlotsTyped, RunsTyped, [Next]_vars
    PROVE  RunsTyped'
<1>1. CASE UNCHANGED <<run, faults>>
  BY <1>1 DEF RunsTyped
<1>2. CASE UNCHANGED run /\ Fault
  BY <1>2, BoundsAreNatural DEF Fault, RunsTyped
<1>3. ASSUME NEW w \in Slots, Work(w) PROVE RunsTyped'
  <2>1. CASE StartRun(w)
    <3>1. slot[w].of \in Runs
      BY <2>1 DEF StartRun, SlotsTyped
    <3> QED
      BY <2>1, <3>1 DEF StartRun, RunsTyped, RunStates
  <2>2. CASE CompleteRun(w)
    <3>1. slot[w].of \in Runs
      BY <2>2 DEF CompleteRun, SlotsTyped
    <3> QED
      BY <2>2, <3>1 DEF CompleteRun, RunsTyped, RunStates
  <2>3. CASE ~StartRun(w) /\ ~CompleteRun(w)
    BY <1>1, <1>3, <2>3 DEF Work, TakeJob, ReadRun, AppendEvent, CommitEvent, FinishJob
  <2> QED
    BY <2>1, <2>2, <2>3
<1>4. ASSUME NEW d \in Dispatchers, Dispatch(d) PROVE RunsTyped'
  BY <1>1, <1>4 DEF Dispatch, SelectBatch, AddJob, MarkPublished
<1>5. ASSUME NEW s \in Subscribers, Follow(s) PROVE RunsTyped'
  BY <1>1, <1>5 DEF Follow, Connect, Poll, Receive
<1>6. ASSUME NEW e \in Events, Request(e) \/ Timers(e) PROVE RunsTyped'
  BY <1>1, <1>6 DEF Request, Timers, BackOffEnds, BackOffOver, JobStalls
<1>7. ASSUME NEW r \in Runs, CancelRun(r) PROVE RunsTyped'
  BY <1>7 DEF CancelRun, RunsTyped, RunStates
<1>8. CASE Faults
  BY <1>2, <1>8 DEF Faults, AddJobFails, DispatcherCrashes, JobFails, SlotCrashes, LockIsLost, Disconnect
<1>9. CASE UNCHANGED vars
  BY <1>1, <1>9 DEF vars
<1> QED
  BY <1>3, <1>4, <1>5, <1>6, <1>7, <1>8, <1>9 DEF Next

-----------------------------------------------------------------------------
(* Subscribers *)

(* A poll returns the events after the cursor, in order and without a gap. *)
LEMMA EventsFollow ==
    ASSUME NEW r, NEW k \in Nat, DOMAIN log[r] = 1..k, NEW c \in 0..k
    PROVE  /\ EventsAfter(r, c) \in Seq(Nat)
           /\ Len(EventsAfter(r, c)) = k - c
           /\ \A i \in 1..(k - c) : EventsAfter(r, c)[i] = c + i
<1> DEFINE later == {n \in DOMAIN log[r] : n > c}
           upto(n) == {m \in later : m <= n}
<1>1. later = (c + 1)..k
  OBVIOUS
<1>2. Cardinality(later) = k - c
  <2>1. Cardinality((c + 1)..k) = IF c + 1 > k THEN 0 ELSE k - (c + 1) + 1
    BY FS_Interval
  <2> HIDE DEF later
  <2> QED
    BY <1>1, <2>1
<1>3. ASSUME NEW n \in later PROVE Cardinality(upto(n)) = n - c
  <2>1. upto(n) = (c + 1)..n
    BY <1>1, <1>3
  <2>2. n \in Nat /\ c + 1 <= n
    BY <1>1, <1>3
  <2>3. Cardinality((c + 1)..n) = IF c + 1 > n THEN 0 ELSE n - (c + 1) + 1
    BY <2>2, FS_Interval
  <2> HIDE DEF later, upto
  <2> QED
    BY <2>1, <2>2, <2>3
<1>4. ASSUME NEW i \in 1..(k - c)
      PROVE  (CHOOSE n \in later : Cardinality(upto(n)) = i) = c + i
  <2>1. c + i \in later
    BY <1>1
  <2>2. \A n \in later : Cardinality(upto(n)) = i <=> n = c + i
    BY SMTT(30), <1>1, <1>3
  <2> HIDE DEF later, upto
  <2> QED
    BY <2>1, <2>2
<1>5. EventsAfter(r, c) =
        [i \in 1..Cardinality(later) |-> CHOOSE n \in later : Cardinality(upto(n)) = i]
  BY DEF EventsAfter
<1> HIDE DEF later, upto
<1>6. EventsAfter(r, c) = [i \in 1..(k - c) |-> c + i]
  BY <1>2, <1>4, <1>5
<1> QED
  BY <1>6

(* Steps that leave subscribers alone, and add events at most. *)
LEMMA FollowingUntouched ==
    ASSUME Following, UNCHANGED subscriber,
           \A r \in Runs : DOMAIN log[r] \subseteq DOMAIN log'[r]
    PROVE  Following'
<1> SUFFICES ASSUME NEW s \in Subscribers PROVE Followed(s)'
  BY DEF Following
<1>1. subscriber[s].run \in Runs /\ Followed(s)
  BY DEF Following, Connections
<1> QED
  BY <1>1 DEF Followed

(* A step that changes one connection has to account for that one only. *)
LEMMA FollowingOne ==
    ASSUME Following, UNCHANGED log, NEW s \in Subscribers, NEW new \in Connections,
           subscriber' = [subscriber EXCEPT ![s] = new], Followed(s)'
    PROVE  Following'
<1>1. /\ subscriber' \in [Subscribers -> Connections]
      /\ \A t \in Subscribers \ {s} : subscriber'[t] = subscriber[t]
  BY DEF Following
<1>2. \A t \in Subscribers \ {s} : Followed(t)'
  BY ZenonT(30), <1>1 DEF Following, Followed
<1> QED
  BY <1>1, <1>2 DEF Following

LEMMA ConnectFollowing ==
    ASSUME Following, NEW s \in Subscribers, Connect(s)
    PROVE  Following'
<1> DEFINE sub == subscriber[s]
<1>1. sub \in Connections /\ Followed(s) /\ UNCHANGED log
  BY DEF Following, Connect
<1>2. PICK c : c = IF sub.got = <<>> THEN 0 ELSE sub.got[Len(sub.got)]
  OBVIOUS
<1>3. c = Len(sub.got) /\ c \in Nat
  <2>1. sub.got \in Seq(Nat) /\ \A i \in 1..Len(sub.got) : sub.got[i] = i
    BY <1>1 DEF Connections, Followed
  <2>2. CASE sub.got = <<>>
    BY <1>2, <2>2
  <2>3. CASE sub.got # <<>>
    <3>1. Len(sub.got) \in 1..Len(sub.got)
      BY <2>1, <2>3
    <3> QED
      BY <1>2, <2>1, <2>3, <3>1
  <2> QED
    BY <2>2, <2>3
<1>4. PICK new : new = [sub EXCEPT !.open = TRUE, !.wire = <<>>, !.cursor = c]
  OBVIOUS
<1>5. subscriber' = [subscriber EXCEPT ![s] = new]
  BY <1>2, <1>4 DEF Connect
<1>6. new \in Connections
  <2>1. <<>> \in Seq(Nat)
    OBVIOUS
  <2> QED
    BY <1>1, <1>3, <1>4, <2>1 DEF Connections
<1>7. /\ new.run = sub.run /\ new.got = sub.got /\ new.open = TRUE
      /\ new.wire = <<>> /\ new.cursor = c
  BY <1>1, <1>4 DEF Connections
<1>8. subscriber'[s] = new
  BY <1>5 DEF Following
<1>9. Followed(s)'
  <2>1. Len(new.wire) = 0 /\ Len(sub.got) \in Nat
    BY <1>1, <1>7 DEF Connections
  <2>2. /\ \A i \in 1..Len(sub.got) : sub.got[i] = i
        /\ 1..Len(sub.got) \subseteq DOMAIN log[sub.run]
    BY <1>1 DEF Followed
  <2>3. /\ subscriber'[s].run = sub.run /\ subscriber'[s].got = sub.got
        /\ subscriber'[s].wire = <<>> /\ subscriber'[s].cursor = Len(sub.got) /\ log' = log
    BY <1>1, <1>3, <1>7, <1>8
  <2>4. Len(<<>>) = 0
    OBVIOUS
  <2>5. PICK got : got = sub.got
    OBVIOUS
  <2> HIDE DEF sub
  <2> QED
    BY <2>1, <2>2, <2>3, <2>4, <2>5 DEF Followed
<1> QED
  BY <1>1, <1>5, <1>6, <1>9, FollowingOne

LEMMA ConcatInOrder ==
    ASSUME NEW a \in Seq(Nat), NEW b \in Seq(Nat)
    PROVE  /\ Len(a \o b) = Len(a) + Len(b)
           /\ \A i \in 1..Len(a) : (a \o b)[i] = a[i]
           /\ \A i \in 1..Len(b) : (a \o b)[Len(a) + i] = b[i]
OBVIOUS

LEMMA PollFollowing ==
    ASSUME Numbered, Following, NEW s \in Subscribers, Poll(s)
    PROVE  Following'
<1> DEFINE sub == subscriber[s]
           events == EventsAfter(sub.run, sub.cursor)
<1>1. sub \in Connections /\ Followed(s) /\ UNCHANGED log /\ sub.open /\ sub.run \in Runs
  BY DEF Following, Poll, Connections
<1>2. PICK k \in Nat : DOMAIN log[sub.run] = 1..k
  BY <1>1 DEF Numbered
<1>3. sub.cursor \in 0..k
  <2>1. sub.cursor \in Nat /\ 1..sub.cursor \subseteq 1..k
    BY <1>1, <1>2 DEF Followed, Connections
  <2> QED
    BY <2>1
<1>4. PICK c : c = sub.cursor
  OBVIOUS
<1>5. /\ events \in Seq(Nat) /\ Len(events) = k - c
      /\ \A i \in 1..(k - c) : events[i] = c + i
  BY <1>2, <1>3, <1>4, EventsFollow
<1>6. events # <<>>
  BY DEF Poll
<1> HIDE DEF events
<1>7. PICK last : last = events[Len(events)]
  OBVIOUS
<1>8. last = k
  <2>1. Len(events) # 0
    BY <1>5, <1>6
  <2>2. k - c \in 1..(k - c)
    BY <1>3, <1>4, <1>5, <2>1
  <2> QED
    BY <1>3, <1>4, <1>5, <1>7, <2>2
<1>9. PICK wire : wire = sub.wire \o events
  OBVIOUS
<1>10. PICK new : new = [sub EXCEPT !.wire = wire, !.cursor = last]
  OBVIOUS
<1>11. subscriber' = [subscriber EXCEPT ![s] = new]
  BY <1>7, <1>9, <1>10 DEF Poll, events
<1>12. sub.wire \in Seq(Nat) /\ sub.got \in Seq(Nat) /\ wire \in Seq(Nat)
  BY <1>1, <1>5, <1>9 DEF Connections
<1>13. /\ new \in Connections /\ new.run = sub.run /\ new.got = sub.got /\ new.open = TRUE
       /\ new.wire = wire /\ new.cursor = k
  BY <1>1, <1>8, <1>10, <1>12 DEF Connections
<1>14. subscriber'[s] = new
  BY <1>11 DEF Following
<1>15. PICK old, got : old = sub.wire /\ got = sub.got
  OBVIOUS
<1>16. /\ got \in Seq(Nat) /\ old \in Seq(Nat) /\ Len(got) \in Nat /\ Len(old) \in Nat
       /\ wire = old \o events
  BY <1>9, <1>12, <1>15
<1>17. /\ \A i \in 1..Len(got) : got[i] = i
       /\ 1..Len(got) \subseteq DOMAIN log[sub.run]
       /\ c = Len(got) + Len(old)
       /\ \A i \in 1..Len(old) : old[i] = Len(got) + i
  BY <1>1, <1>4, <1>15 DEF Followed
<1>18. /\ Len(wire) = Len(old) + Len(events)
       /\ \A i \in 1..Len(old) : wire[i] = old[i]
       /\ \A i \in 1..Len(events) : wire[Len(old) + i] = events[i]
  BY <1>5, <1>16, ConcatInOrder
<1>19. k = Len(got) + Len(wire)
  <2>1. c \in 0..k /\ Len(events) = k - c /\ c = Len(got) + Len(old)
    BY <1>3, <1>4, <1>5, <1>17
  <2> QED
    BY <1>16, <1>18, <2>1
<1>20. ASSUME NEW i \in 1..Len(wire) PROVE wire[i] = Len(got) + i
  <2>1. CASE i \in 1..Len(old)
    BY <1>17, <1>18, <2>1
  <2>2. CASE i \notin 1..Len(old)
    <3>1. PICK j : j = i - Len(old)
      OBVIOUS
    <3>2. i \in Nat /\ j \in 1..Len(events) /\ Len(old) + j = i
      BY <1>5, <1>16, <1>18, <1>20, <2>2, <3>1
    <3>3. wire[Len(old) + j] = events[j] /\ events[j] = c + j
      BY <1>5, <1>18, <3>2
    <3> QED
      BY <1>16, <1>17, <3>1, <3>2, <3>3
  <2> QED
    BY <2>1, <2>2
<1>21. Followed(s)'
  <2>1. /\ subscriber'[s].run = sub.run /\ subscriber'[s].got = got /\ subscriber'[s].wire = wire
        /\ subscriber'[s].cursor = k /\ log' = log
    BY <1>1, <1>13, <1>14, <1>15
  <2> HIDE DEF sub
  <2> QED
    BY <1>2, <1>17, <1>19, <1>20, <2>1 DEF Followed
<1> QED
  BY <1>1, <1>11, <1>13, <1>21, FollowingOne

LEMMA TakeInOrder ==
    ASSUME NEW a \in Seq(Nat), NEW b \in Seq(Nat), b # <<>>
    PROVE  /\ Append(a, Head(b)) \in Seq(Nat) /\ Len(Append(a, Head(b))) = Len(a) + 1
           /\ \A i \in 1..Len(a) : Append(a, Head(b))[i] = a[i]
           /\ Append(a, Head(b))[Len(a) + 1] = b[1]
           /\ Tail(b) \in Seq(Nat) /\ Len(b) = Len(Tail(b)) + 1
           /\ \A i \in 1..Len(Tail(b)) : Tail(b)[i] = b[i + 1]
<1>1. Head(b) = b[1] /\ Head(b) \in Nat
  OBVIOUS
<1>2. Tail(b) \in Seq(Nat) /\ Len(Tail(b)) = Len(b) - 1 /\ Len(b) \in Nat
  OBVIOUS
<1>3. \A i \in 1..Len(Tail(b)) : Tail(b)[i] = b[i + 1]
  OBVIOUS
<1> QED
  BY <1>1, <1>2, <1>3

LEMMA ReceiveFollowing ==
    ASSUME Following, NEW s \in Subscribers, Receive(s)
    PROVE  Following'
<1> DEFINE sub == subscriber[s]
<1>1. sub \in Connections /\ Followed(s) /\ UNCHANGED log /\ sub.open
  BY DEF Following, Receive
<1>2. PICK old, got, wire, new :
        old = sub.got /\ wire = sub.wire /\ got = Append(sub.got, Head(sub.wire)) /\ new = Tail(sub.wire)
  OBVIOUS
<1>3. old \in Seq(Nat) /\ wire \in Seq(Nat) /\ wire # <<>> /\ Len(old) \in Nat
  BY <1>1, <1>2 DEF Connections, Receive
<1>4. /\ got \in Seq(Nat) /\ Len(got) = Len(old) + 1
      /\ \A i \in 1..Len(old) : got[i] = old[i]
      /\ got[Len(old) + 1] = wire[1]
      /\ new \in Seq(Nat) /\ Len(wire) = Len(new) + 1 /\ Len(new) \in Nat
      /\ \A i \in 1..Len(new) : new[i] = wire[i + 1]
  BY SMTT(30), <1>2, <1>3, TakeInOrder
<1>5. PICK row : row = [sub EXCEPT !.got = got, !.wire = new]
  OBVIOUS
<1>6. subscriber' = [subscriber EXCEPT ![s] = row]
  BY <1>2, <1>5 DEF Receive
<1>7. /\ row \in Connections /\ row.run = sub.run /\ row.got = got /\ row.wire = new
      /\ row.cursor = sub.cursor
  BY <1>1, <1>4, <1>5 DEF Connections
<1>8. /\ \A i \in 1..Len(old) : old[i] = i
      /\ sub.cursor = Len(old) + Len(wire)
      /\ \A i \in 1..Len(wire) : wire[i] = Len(old) + i
      /\ 1..sub.cursor \subseteq DOMAIN log[sub.run]
  BY <1>1, <1>2 DEF Followed
<1>9. \A i \in 1..Len(got) : got[i] = i
  <2>1. 1 \in 1..Len(wire) /\ wire[1] = Len(old) + 1
    BY <1>4, <1>8
  <2>2. \A i \in 1..Len(got) : i \in 1..Len(old) \/ i = Len(old) + 1
    BY <1>3, <1>4
  <2> QED
    BY <1>4, <1>8, <2>1, <2>2
<1>10. \A i \in 1..Len(new) : new[i] = Len(got) + i
  <2>1. \A i \in 1..Len(new) : i + 1 \in 1..Len(wire)
    BY <1>4
  <2>2. \A i \in 1..Len(new) : new[i] = Len(old) + (i + 1)
    BY <1>4, <1>8, <2>1
  <2> QED
    BY <1>3, <1>4, <2>2
<1>11. sub.cursor = Len(got) + Len(new)
  BY <1>3, <1>4, <1>8
<1>12. Followed(s)'
  <2>1. /\ subscriber'[s].run = sub.run /\ subscriber'[s].got = got /\ subscriber'[s].wire = new
        /\ subscriber'[s].cursor = sub.cursor /\ log' = log
    BY <1>1, <1>6, <1>7 DEF Following
  <2>2. 1..Len(got) \subseteq 1..sub.cursor
    BY <1>4, <1>11
  <2> HIDE DEF sub
  <2> QED
    BY <1>8, <1>9, <1>10, <1>11, <2>1, <2>2 DEF Followed
<1> QED
  BY <1>1, <1>6, <1>7, <1>12, FollowingOne

(* What was written to a connection is lost with it. *)
LEMMA DisconnectFollowing ==
    ASSUME Following, NEW s \in Subscribers, Disconnect(s)
    PROVE  Following'
<1>1. subscriber[s] \in Connections /\ Followed(s) /\ UNCHANGED log
  BY DEF Following, Disconnect
<1>2. PICK new : new = [subscriber[s] EXCEPT !.open = FALSE]
  OBVIOUS
<1>3. subscriber' = [subscriber EXCEPT ![s] = new]
  BY <1>2 DEF Disconnect
<1>4. /\ new \in Connections /\ new.open = FALSE
      /\ new.run = subscriber[s].run /\ new.got = subscriber[s].got
  BY <1>1, <1>2 DEF Connections
<1>5. subscriber'[s] = new
  BY <1>3 DEF Following
<1>6. Followed(s)'
  BY <1>1, <1>4, <1>5 DEF Followed
<1> QED
  BY <1>1, <1>3, <1>4, <1>6, FollowingOne

LEMMA NextFollowing ==
    ASSUME SlotsTyped, Numbered, Following, [Next]_vars
    PROVE  Following'
<1>1. CASE UNCHANGED <<subscriber, log>>
  BY <1>1, FollowingUntouched
<1>2. ASSUME NEW w \in Slots, Work(w) PROVE Following'
  <2>1. CASE CommitEvent(w)
    <3>1. UNCHANGED subscriber
      BY <2>1 DEF CommitEvent
    <3> QED
      BY <2>1, <3>1, CommitAdds, FollowingUntouched
  <2>2. CASE ~CommitEvent(w)
    BY <1>1, <1>2, <2>2 DEF Work, TakeJob, ReadRun, StartRun, AppendEvent, CompleteRun, FinishJob
  <2> QED
    BY <2>1, <2>2
<1>3. ASSUME NEW s \in Subscribers, Follow(s) \/ Disconnect(s) PROVE Following'
  BY <1>3, ConnectFollowing, PollFollowing, ReceiveFollowing, DisconnectFollowing DEF Follow
<1>4. ASSUME NEW d \in Dispatchers, Dispatch(d) \/ AddJobFails(d) \/ DispatcherCrashes(d)
      PROVE  Following'
  BY <1>1, <1>4 DEF Dispatch, SelectBatch, AddJob, MarkPublished, AddJobFails, DispatcherCrashes
<1>5. ASSUME NEW e \in Events, Request(e) \/ Timers(e) \/ LockIsLost(e) PROVE Following'
  BY <1>1, <1>5 DEF Request, Timers, BackOffEnds, BackOffOver, JobStalls, LockIsLost
<1>6. ASSUME NEW r \in Runs, CancelRun(r) PROVE Following'
  BY <1>1, <1>6 DEF CancelRun
<1>7. ASSUME NEW w \in Slots, JobFails(w) \/ SlotCrashes(w) PROVE Following'
  BY <1>1, <1>7 DEF JobFails, SlotCrashes
<1>8. CASE UNCHANGED vars
  BY <1>1, <1>8 DEF vars
<1> QED
  BY <1>2, <1>3, <1>4, <1>5, <1>6, <1>7, <1>8 DEF Next, Faults

-----------------------------------------------------------------------------
(* Everything together. *)
Delivered == Handed /\ BatchesTyped /\ SlotsTyped /\ RunsTyped /\ Numbered /\ Following

LEMMA AlwaysDelivered == Spec => []Delivered
<1>1. Init => Delivered
  BY InitHanded, InitFollowing DEF Delivered
<1>2. Delivered /\ [Next]_vars => Delivered'
  BY NextHanded, NextBatchesTyped, NextNumbered, NextRunsTyped, NextFollowing DEF Delivered
<1> QED
  BY <1>1, <1>2, PTL DEF Spec

(* Every row, job and connection is one the code can write, and a          *)
(* dispatcher publishes an event of the batch it selected.                 *)
THEOREM PipelineIsTyped == Spec => []TypeOK
<1>1. Delivered => TypeOK
  <2> SUFFICES ASSUME Delivered PROVE TypeOK
    OBVIOUS
  <2>1. \A d \in Dispatchers : dispatcher[d].batch \subseteq Events
    BY DEF Delivered, Handed
  <2>2. \A r \in Runs : DOMAIN log[r] \subseteq Nat
    BY DEF Delivered, Numbered
  <2>3. \A s \in Subscribers : subscriber[s].cursor \in Nat
    BY DEF Delivered, Following, Connections
  <2> QED
    BY <2>1, <2>2, <2>3 DEF TypeOK, Delivered, Handed, BatchesTyped, SlotsTyped, SlotRows, RunsTyped
<1> QED
  BY <1>1, AlwaysDelivered, PTL

(* A subscriber receives the events of its run in order, none twice and    *)
(* none left out (RunService.append under its advisory lock, eventsAfter   *)
(* and the Last-Event-ID of a reconnecting client), whatever the number of *)
(* slots that serve the run and of connections that break.                 *)
THEOREM NothingIsMissed == Spec => []SubscribersMissNothing
<1>1. Delivered => SubscribersMissNothing
  BY DEF Delivered, Following, Followed, SubscribersMissNothing
<1> QED
  BY <1>1, AlwaysDelivered, PTL

-----------------------------------------------------------------------------
(* The abstract stream. *)

Reported == {"started", "completed"}
ReportsStart(events) == \E n \in DOMAIN events : events[n] = "started"

(* What a slot appends is a start or a completion, and it has reported the *)
(* start before it completes the run.                                      *)
MayReport(row, events) ==
    /\ row.at \in {"append", "commit"} => row.type \in Reported
    /\ row.at = "complete" => ReportsStart(events)
    /\ row.at \in {"append", "commit"} /\ row.type = "completed" => ReportsStart(events)

(* So every completion follows a start. *)
CompletionsFollowStarts(events) ==
    \A n \in DOMAIN events : events[n] = "completed" => \E m \in 1..n : events[m] = "started"

Announced ==
    /\ log \in [Runs -> Seq(Reported)]
    /\ \A w \in Slots : MayReport(slot[w], log[slot[w].of])
    /\ \A r \in Runs : CompletionsFollowStarts(log[r])

LEMMA InitAnnounced == Init => Announced
<1> SUFFICES ASSUME Init PROVE Announced
  OBVIOUS
<1>1. <<>> \in Seq(Reported) /\ DOMAIN <<>> = {}
  OBVIOUS
<1>2. log = [r \in Runs |-> <<>>] /\ slot = [w \in Slots |-> IdleSlot]
  BY DEF Init
<1>3. log \in [Runs -> Seq(Reported)] /\ \A r \in Runs : DOMAIN log[r] = {}
  BY <1>1, <1>2
<1> QED
  BY <1>2, <1>3 DEF Announced, IdleSlot, MayReport, CompletionsFollowStarts

(* A slot that takes a step owes its place to what it did before. *)
LEMMA SlotAnnounced ==
    ASSUME SlotsTyped, Announced, UNCHANGED log, NEW w \in Slots, NEW new,
           slot' = [slot EXCEPT ![w] = new], MayReport(new, log[new.of])
    PROVE  Announced'
<1>1. slot'[w] = new /\ \A v \in Slots \ {w} : slot'[v] = slot[v]
  BY DEF SlotsTyped
<1>2. ASSUME NEW v \in Slots PROVE MayReport(slot'[v], log'[slot'[v].of])
  <2>1. CASE v = w
    BY <1>1, <2>1
  <2>2. CASE v # w
    BY <1>1, <2>2 DEF Announced
  <2> QED
    BY <2>1, <2>2
<1> QED
  BY <1>2 DEF Announced

(* What a subscriber has received stays what it is while the committed     *)
(* events stay.                                                            *)
LEMMA ReceivedStays ==
    ASSUME Following, \A s \in Subscribers : /\ subscriber'[s].run = subscriber[s].run
                                             /\ subscriber'[s].got = subscriber[s].got,
           \A r \in Runs : \A n \in DOMAIN log[r] : log'[r][n] = log[r][n]
    PROVE  UNCHANGED <<[s \in Subscribers |-> subscriber[s].run], Received>>
<1>1. ASSUME NEW s \in Subscribers
      PROVE  [i \in DOMAIN subscriber'[s].got |->
                [id |-> subscriber'[s].got[i], type |-> log'[subscriber'[s].run][subscriber'[s].got[i]]]]
               = [i \in DOMAIN subscriber[s].got |->
                [id |-> subscriber[s].got[i], type |-> log[subscriber[s].run][subscriber[s].got[i]]]]
  <2>1. PICK got, r : got = subscriber[s].got /\ r = subscriber[s].run
    OBVIOUS
  <2>2. subscriber'[s].got = got /\ subscriber'[s].run = r
    BY <2>1
  <2>3. got \in Seq(Nat) /\ r \in Runs /\ \A i \in 1..Len(got) : got[i] = i /\ i \in DOMAIN log[r]
    BY <2>1 DEF Following, Connections, Followed
  <2>4. \A i \in DOMAIN got : log'[r][got[i]] = log[r][got[i]]
    BY <2>3
  <2> QED
    BY <2>1, <2>2, <2>4
<1> QED
  BY <1>1 DEF Received

LEMMA AppendReported ==
    ASSUME NEW h \in Seq(Reported), NEW type \in Reported
    PROVE  Append(h, type) \in Seq(Reported)
<1> HIDE DEF Reported
<1> QED
  OBVIOUS

(* A slot's step on a run's log: the committed event is the next one. *)
LEMMA CommitAppends ==
    ASSUME SlotsTyped, Numbered, Announced, NEW w \in Slots, CommitEvent(w)
    PROVE  /\ slot[w].of \in Runs /\ slot[w].type \in Reported
           /\ log' = [log EXCEPT ![slot[w].of] = Append(log[slot[w].of], slot[w].type)]
           /\ slot[w].type = "completed" => ReportsStart(log[slot[w].of])
<1>1. slot[w].at = "commit" /\ slot[w] \in SlotRows /\ slot[w].of \in Runs
  BY DEF CommitEvent, SlotsTyped
<1>2. PICK r, type, added : r = slot[w].of /\ type = slot[w].type /\ added = slot[w].sequence
  OBVIOUS
<1> r \in Runs /\ added \in Nat
  BY <1>1, <1>2 DEF SlotRows
<1>3. type \in Reported /\ (type = "completed" => ReportsStart(log[r]))
  BY <1>1, <1>2 DEF Announced, MayReport
<1>4. PICK h \in Seq(Reported) : h = log[r]
  BY DEF Announced
<1>5. added # 0 /\ DOMAIN h = 1..(added - 1)
  BY <1>1, <1>2, <1>4 DEF Numbered
<1>6. Len(h) = added - 1
  BY <1>5
<1>7. PICK new : new = [n \in DOMAIN h \cup {added} |-> IF n = added THEN type ELSE h[n]]
  OBVIOUS
<1>8. new = Append(h, type)
  <2>1. DOMAIN h \cup {added} = 1..added
    BY <1>5
  <2>2. Append(h, type) \in Seq(Reported)
    BY <1>3, AppendReported
  <2>3. PICK longer \in Seq(Reported) : longer = Append(h, type)
    BY <2>2
  <2>4. DOMAIN longer = 1..added /\ longer[added] = type /\ \A n \in 1..(added - 1) : longer[n] = h[n]
    BY <1>5, <1>6, <2>3
  <2>5. longer = [n \in DOMAIN longer |-> longer[n]]
    OBVIOUS
  <2>6. \A n \in 1..added : longer[n] = IF n = added THEN type ELSE h[n]
    BY <2>4
  <2>7. longer = new
    BY <1>7, <2>1, <2>4, <2>5, <2>6
  <2> QED
    BY <2>3, <2>7
<1>9. log' = [log EXCEPT ![r] = new]
  BY <1>2, <1>4, <1>7 DEF CommitEvent
<1> QED
  BY <1>1, <1>2, <1>3, <1>4, <1>8, <1>9

(* What append does to a log. *)
LEMMA ReportsGrow ==
    ASSUME NEW h \in Seq(Reported), NEW type \in Reported, CompletionsFollowStarts(h),
           type = "completed" => ReportsStart(h)
    PROVE  /\ Append(h, type) \in Seq(Reported)
           /\ CompletionsFollowStarts(Append(h, type))
           /\ ReportsStart(h) \/ type = "started" => ReportsStart(Append(h, type))
           /\ \A n \in DOMAIN h : Append(h, type)[n] = h[n]
<1>1. PICK k \in Nat : k = Len(h)
  OBVIOUS
<1>2. PICK new \in Seq(Reported) : new = Append(h, type)
  BY AppendReported
<1>3. /\ DOMAIN h = 1..k /\ DOMAIN new = 1..(k + 1)
      /\ \A n \in 1..k : new[n] = h[n]
      /\ new[k + 1] = type
  BY <1>1, <1>2
<1>4. ReportsStart(h) \/ type = "started" => ReportsStart(new)
  BY <1>3 DEF ReportsStart
<1>5. ASSUME NEW n \in 1..(k + 1), new[n] = "completed" PROVE \E m \in 1..n : new[m] = "started"
  <2>1. CASE n = k + 1
    <3>1. PICK m \in 1..k : h[m] = "started"
      BY <1>3, <1>5, <2>1 DEF ReportsStart
    <3> QED
      BY <1>3, <2>1, <3>1
  <2>2. CASE n # k + 1
    <3>1. n \in 1..k
      BY <2>2
    <3>2. PICK m \in 1..n : h[m] = "started"
      BY <1>3, <1>5, <3>1 DEF CompletionsFollowStarts
    <3> QED
      BY <1>3, <3>1, <3>2
  <2> QED
    BY <2>1, <2>2
<1> QED
  BY <1>2, <1>3, <1>4, <1>5 DEF CompletionsFollowStarts

LEMMA CommitAnnounced ==
    ASSUME SlotsTyped, Numbered, Announced, NEW w \in Slots, CommitEvent(w)
    PROVE  Announced'
<1>1. PICK r \in Runs, type \in Reported :
        /\ r = slot[w].of /\ type = slot[w].type
        /\ log' = [log EXCEPT ![r] = Append(log[r], type)]
        /\ type = "completed" => ReportsStart(log[r])
  BY CommitAppends
<1>2. PICK h \in Seq(Reported) : h = log[r] /\ CompletionsFollowStarts(h)
  BY DEF Announced
<1>3. PICK new \in Seq(Reported) :
        /\ new = Append(h, type) /\ CompletionsFollowStarts(new)
        /\ ReportsStart(h) \/ type = "started" => ReportsStart(new)
  BY <1>1, <1>2, ReportsGrow
<1>4. /\ log \in [Runs -> Seq(Reported)] /\ log' = [log EXCEPT ![r] = new]
  BY <1>1, <1>2, <1>3 DEF Announced
<1>5. /\ log' \in [Runs -> Seq(Reported)] /\ log'[r] = new
      /\ \A q \in Runs \ {r} : log'[q] = log[q]
  BY <1>4
<1>6. PICK row : row = [slot[w] EXCEPT !.at = IF type = "started" THEN "complete" ELSE "done"]
  OBVIOUS
<1>7. slot' = [slot EXCEPT ![w] = row] /\ slot[w] \in SlotRows
  BY <1>1, <1>6 DEF CommitEvent, SlotsTyped
<1>8. /\ row.of = r /\ row.at \in {"complete", "done"}
      /\ row.at = "complete" => type = "started"
  BY <1>1, <1>6, <1>7 DEF SlotRows
<1>9. slot'[w] = row /\ \A v \in Slots \ {w} : slot'[v] = slot[v]
  BY <1>7 DEF SlotsTyped
<1>10. ASSUME NEW v \in Slots PROVE MayReport(slot'[v], log'[slot'[v].of])
  <2>1. CASE v = w
    <3>1. MayReport(row, new)
      BY <1>3, <1>8 DEF MayReport
    <3> QED
      BY <1>5, <1>8, <1>9, <2>1, <3>1
  <2>2. CASE v # w
    <3>1. PICK old : old = slot[v] /\ slot'[v] = old
      BY <1>9, <2>2
    <3>2. MayReport(old, log[old.of])
      BY <3>1 DEF Announced
    <3>3. CASE old.of = r
      <4>1. MayReport(old, h)
        BY <1>2, <3>2, <3>3
      <4>2. MayReport(old, new)
        BY <1>3, <4>1 DEF MayReport
      <4> QED
        BY <1>5, <3>1, <3>3, <4>2
    <3>4. CASE old.of # r /\ old.of \in Runs
      BY <1>5, <3>1, <3>2, <3>4
    <3>5. CASE old.of \notin Runs
      <4>1. old.at \in {"idle", "handle"}
        BY <3>1, <3>5 DEF SlotsTyped
      <4>2. MayReport(old, log'[old.of])
        BY <4>1 DEF MayReport
      <4> QED
        BY <3>1, <4>2
    <3> QED
      BY <3>3, <3>4, <3>5
  <2> QED
    BY <2>1, <2>2
<1>11. \A q \in Runs : CompletionsFollowStarts(log'[q])
  BY <1>3, <1>5 DEF Announced
<1> QED
  BY <1>5, <1>10, <1>11 DEF Announced

LEMMA NextAnnounced ==
    ASSUME SlotsTyped, Numbered, Announced, [Next]_vars
    PROVE  Announced'
<1>1. CASE UNCHANGED <<slot, log>>
  BY <1>1 DEF Announced
<1>2. ASSUME NEW w \in Slots, Work(w) \/ JobFails(w) \/ SlotCrashes(w) PROVE Announced'
  <2>1. PICK old \in SlotRows : old = slot[w] /\ MayReport(old, log[old.of])
    BY DEF SlotsTyped, Announced
  <2>2. ASSUME NEW new, slot' = [slot EXCEPT ![w] = new], UNCHANGED log, MayReport(new, log[new.of])
        PROVE  Announced'
    BY <2>2, SlotAnnounced
  <2>3. MayReport(IdleSlot, log[IdleSlot.of])
    BY DEF MayReport, IdleSlot
  <2>4. ASSUME NEW e \in Events, TakeJob(w, e) PROVE Announced'
    <3>1. PICK new : new = [IdleSlot EXCEPT !.of = e, !.at = IF e \in Runs THEN "read" ELSE "handle"]
      OBVIOUS
    <3>2. new.at \in {"read", "handle"}
      BY <3>1 DEF IdleSlot
    <3>3. MayReport(new, log[new.of])
      BY <3>2 DEF MayReport
    <3>4. slot' = [slot EXCEPT ![w] = new] /\ UNCHANGED log
      BY <2>4, <3>1 DEF TakeJob
    <3> QED
      BY <2>2, <3>3, <3>4
  <2>5. CASE ReadRun(w)
    <3>1. PICK new : new = [slot[w] EXCEPT !.at = IF run[slot[w].of].cancelRequested THEN "done" ELSE "start"]
      OBVIOUS
    <3>2. new.at \in {"done", "start"}
      BY <2>1, <3>1 DEF SlotRows
    <3>3. MayReport(new, log[new.of])
      BY <3>2 DEF MayReport
    <3>4. slot' = [slot EXCEPT ![w] = new] /\ UNCHANGED log
      BY <2>5, <3>1 DEF ReadRun
    <3> QED
      BY <2>2, <3>3, <3>4
  <2>6. CASE StartRun(w)
    <3>1. PICK new : new = [slot[w] EXCEPT !.at = "append", !.type = "started"]
      OBVIOUS
    <3>2. new.at = "append" /\ new.type = "started"
      BY <2>1, <3>1 DEF SlotRows
    <3>3. MayReport(new, log[new.of])
      BY <3>2 DEF MayReport, Reported
    <3>4. slot' = [slot EXCEPT ![w] = new] /\ UNCHANGED log
      BY <2>1, <2>6, <3>1 DEF StartRun, SlotsTyped, SlotRows
    <3> QED
      BY <2>2, <3>3, <3>4
  <2>7. CASE AppendEvent(w)
    <3>1. PICK new : new = [slot[w] EXCEPT !.at = "commit", !.sequence = 1 + LastSequence(slot[w].of)]
      OBVIOUS
    <3>2. new.at = "commit" /\ new.type = old.type /\ new.of = old.of /\ old.at = "append"
      BY <2>1, <2>7, <3>1 DEF SlotRows, AppendEvent
    <3>3. MayReport(new, log[new.of])
      BY <2>1, <3>2 DEF MayReport
    <3>4. slot' = [slot EXCEPT ![w] = new] /\ UNCHANGED log
      BY <2>1, <2>7, <3>1 DEF AppendEvent, SlotsTyped, SlotRows
    <3> QED
      BY <2>2, <3>3, <3>4
  <2>8. CASE CommitEvent(w)
    BY <2>8, CommitAnnounced
  <2>9. CASE CompleteRun(w)
    <3>1. PICK new : new = [slot[w] EXCEPT !.at = "append", !.type = "completed"]
      OBVIOUS
    <3>2. new.at = "append" /\ new.type = "completed" /\ new.of = old.of /\ old.at = "complete"
      BY <2>1, <2>9, <3>1 DEF SlotRows, CompleteRun
    <3>3. MayReport(new, log[new.of])
      BY <2>1, <3>2 DEF MayReport, Reported
    <3>4. slot' = [slot EXCEPT ![w] = new] /\ UNCHANGED log
      BY <2>1, <2>9, <3>1 DEF CompleteRun, SlotsTyped, SlotRows
    <3> QED
      BY <2>2, <3>3, <3>4
  <2>10. CASE FinishJob(w) \/ JobFails(w) \/ SlotCrashes(w)
    <3>1. slot' = [slot EXCEPT ![w] = IdleSlot] /\ UNCHANGED log
      BY <2>10 DEF FinishJob, JobFails, SlotCrashes
    <3> QED
      BY <2>2, <2>3, <3>1
  <2> QED
    BY <1>2, <2>4, <2>5, <2>6, <2>7, <2>8, <2>9, <2>10 DEF Work
<1>3. ASSUME NEW s \in Subscribers, Follow(s) \/ Disconnect(s) PROVE Announced'
  BY <1>1, <1>3 DEF Follow, Connect, Poll, Receive, Disconnect
<1>4. ASSUME NEW d \in Dispatchers, Dispatch(d) \/ AddJobFails(d) \/ DispatcherCrashes(d)
      PROVE  Announced'
  BY <1>1, <1>4 DEF Dispatch, SelectBatch, AddJob, MarkPublished, AddJobFails, DispatcherCrashes
<1>5. ASSUME NEW e \in Events, Request(e) \/ Timers(e) \/ LockIsLost(e) PROVE Announced'
  BY <1>1, <1>5 DEF Request, Timers, BackOffEnds, BackOffOver, JobStalls, LockIsLost
<1>6. ASSUME NEW r \in Runs, CancelRun(r) PROVE Announced'
  BY <1>1, <1>6 DEF CancelRun
<1>7. CASE UNCHANGED vars
  BY <1>1, <1>7 DEF vars
<1> QED
  BY <1>2, <1>3, <1>4, <1>5, <1>6, <1>7 DEF Next, Faults

LEMMA AlwaysAnnounced == Spec => [](Delivered /\ Announced)
<1>1. Delivered /\ Announced /\ [Next]_vars => Announced'
  BY NextAnnounced DEF Delivered
<1> QED
  BY <1>1, InitAnnounced, AlwaysDelivered, PTL DEF Spec

(* What the events of a subscriber's numbers are. *)
Heard(got, events) == [i \in DOMAIN got |-> [id |-> got[i], type |-> events[got[i]]]]

LEMMA HeardNext ==
    ASSUME NEW got \in Seq(Nat), NEW events, NEW next \in Nat, next = Len(got) + 1
    PROVE  /\ Len(Heard(got, events)) = Len(got)
           /\ Heard(Append(got, next), events)
                = Append(Heard(got, events), [id |-> next, type |-> events[next]])
<1>1. PICK event : event = [id |-> next, type |-> events[next]]
  OBVIOUS
<1>2. PICK longer \in Seq(Nat) : longer = Append(got, next)
  <2>1. Append(got, next) \in Seq(Nat)
    OBVIOUS
  <2> QED
    BY <2>1
<1>3. PICK k \in Nat : k = Len(got)
  OBVIOUS
<1>4. /\ DOMAIN got = 1..k /\ DOMAIN longer = 1..next /\ next = k + 1
      /\ longer[next] = next /\ \A i \in 1..k : longer[i] = got[i]
  BY <1>2, <1>3
<1> DEFINE S == {event} \cup {[id |-> got[i], type |-> events[got[i]]] : i \in 1..k}
<1>5. PICK old : old = Heard(got, events)
  OBVIOUS
<1>6. old \in [1..k -> S] /\ \A i \in 1..k : old[i] = [id |-> got[i], type |-> events[got[i]]]
  BY <1>4, <1>5 DEF Heard
<1>7. event \in S
  OBVIOUS
<1> HIDE DEF S
<1>8. old \in Seq(S) /\ Len(old) = k
  BY <1>6
<1>9. PICK new : new = Append(old, event)
  OBVIOUS
<1>10. /\ new \in Seq(S) /\ DOMAIN new = 1..next /\ new[next] = event
       /\ \A i \in 1..k : new[i] = old[i]
  BY <1>4, <1>7, <1>8, <1>9
<1>11. Heard(longer, events) = new
  <2>1. \A i \in 1..next : new[i] = [id |-> longer[i], type |-> events[longer[i]]]
    <3>1. ASSUME NEW i \in 1..k PROVE new[i] = [id |-> longer[i], type |-> events[longer[i]]]
      BY <1>4, <1>6, <1>10
    <3>2. new[next] = [id |-> longer[next], type |-> events[longer[next]]]
      BY <1>1, <1>4, <1>10
    <3>3. \A i \in 1..next : i \in 1..k \/ i = next
      BY <1>4
    <3> QED
      BY <3>1, <3>2, <3>3
  <2>2. new = [i \in DOMAIN new |-> new[i]]
    BY <1>10
  <2> QED
    BY <1>4, <1>10, <2>1, <2>2 DEF Heard
<1> QED
  BY <1>1, <1>2, <1>3, <1>5, <1>8, <1>9, <1>11

(* The committed event is appended to its run's history. *)
LEMMA CommitStreams ==
    ASSUME Delivered, Announced, NEW w \in Slots, CommitEvent(w)
    PROVE  Stream!Next
<1>1. PICK r \in Runs, type \in Reported :
        /\ r = slot[w].of /\ type = slot[w].type
        /\ log' = [log EXCEPT ![r] = Append(log[r], type)]
        /\ type = "completed" => ReportsStart(log[r])
  BY CommitAppends DEF Delivered
<1>2. \A q \in Runs : \A n \in DOMAIN log[q] : log'[q][n] = log[q][n]
  <2> SUFFICES ASSUME NEW q \in Runs, NEW n \in DOMAIN log[q] PROVE log'[q][n] = log[q][n]
    OBVIOUS
  <2>1. PICK h \in Seq(Reported) : h = log[r]
    BY DEF Announced
  <2>2. \A m \in DOMAIN h : Append(h, type)[m] = h[m]
    BY <1>1
  <2>3. log'[r] = Append(h, type) /\ (q # r => log'[q] = log[q])
    BY <1>1, <2>1 DEF Announced
  <2> QED
    BY <2>1, <2>2, <2>3
<1>3. UNCHANGED subscriber
  BY DEF CommitEvent
<1>4. UNCHANGED <<[s \in Subscribers |-> subscriber[s].run], Received>>
  BY <1>2, <1>3, ReceivedStays DEF Delivered
<1>5. Stream!Add(r, type)
  BY <1>1, <1>4 DEF Stream!Add
<1>6. CASE type = "started"
  BY <1>5, <1>6 DEF Stream!Next, Stream!Start
<1>7. CASE type = "completed"
  BY <1>1, <1>5, <1>7 DEF Stream!Next, Stream!Complete, ReportsStart
<1> QED
  BY <1>6, <1>7 DEF Reported

(* What arrives at a client is the next event of its run. *)
LEMMA ReceiveStreams ==
    ASSUME Delivered, NEW s \in Subscribers, Receive(s)
    PROVE  Stream!Deliver(s)
<1>1. subscriber[s] \in Connections /\ Followed(s) /\ subscriber[s].open /\ UNCHANGED log
  BY DEF Delivered, Following, Receive
<1>2. PICK got \in Seq(Nat), wire \in Seq(Nat) : got = subscriber[s].got /\ wire = subscriber[s].wire
  BY <1>1 DEF Connections
<1>3. PICK events : events = log[subscriber[s].run]
  OBVIOUS
<1>4. PICK next \in Nat : next = Len(got) + 1
  BY <1>2
<1>5. Head(wire) = next /\ next \in DOMAIN events
  <2>1. wire # <<>>
    BY <1>2 DEF Receive
  <2>5. wire \in Seq(Nat) /\ got \in Seq(Nat)
    OBVIOUS
  <2>6. Len(wire) \in Nat /\ Len(wire) # 0
    BY <2>1, <2>5
  <2>2. 1 \in 1..Len(wire) /\ Head(wire) = wire[1] /\ Len(wire) \in Nat /\ Len(got) \in Nat
    BY <2>1, <2>5, <2>6
  <2>3. /\ subscriber[s].cursor = Len(got) + Len(wire) /\ wire[1] = Len(got) + 1
        /\ 1..subscriber[s].cursor \subseteq DOMAIN events
    BY <1>1, <1>2, <1>3, <2>2 DEF Followed
  <2>4. next \in 1..(Len(got) + Len(wire))
    BY <1>4, <2>2
  <2> QED
    BY <1>4, <2>2, <2>3, <2>4
<1>6. PICK row : row = [subscriber[s] EXCEPT !.got = Append(got, next), !.wire = Tail(wire)]
  OBVIOUS
<1>7. subscriber' = [subscriber EXCEPT ![s] = row]
  BY <1>2, <1>5, <1>6 DEF Receive
<1>8. row.run = subscriber[s].run /\ row.got = Append(got, next)
  BY <1>1, <1>6 DEF Connections
<1>9. /\ subscriber'[s] = row /\ \A t \in Subscribers \ {s} : subscriber'[t] = subscriber[t]
  BY <1>7 DEF Delivered, Following
<1>10. Received = [t \in Subscribers |-> Heard(subscriber[t].got, log[subscriber[t].run])]
  BY DEF Received, Heard
<1>11. Received' = [t \in Subscribers |-> Heard(subscriber'[t].got, log'[subscriber'[t].run])]
  BY DEF Received, Heard
<1>12. Received[s] = Heard(got, events)
  BY <1>2, <1>3, <1>10
<1>13. Received'[s] = Append(Received[s], Stream!Event(next, events[next]))
  <2>1. Received'[s] = Heard(Append(got, next), events)
    BY <1>1, <1>3, <1>8, <1>9, <1>11
  <2>2. Heard(Append(got, next), events) = Append(Heard(got, events), [id |-> next, type |-> events[next]])
    BY <1>4, HeardNext
  <2> QED
    BY <1>12, <2>1, <2>2 DEF Stream!Event
<1>14. \A t \in Subscribers \ {s} : Received'[t] = Received[t]
  BY <1>1, <1>9, <1>10, <1>11
<1>15. Received' = [Received EXCEPT ![s] = Append(Received[s], Stream!Event(next, events[next]))]
  <2>1. Received = [t \in Subscribers |-> Received[t]] /\ Received' = [t \in Subscribers |-> Received'[t]]
    BY <1>10, <1>11
  <2> QED
    BY <1>13, <1>14, <2>1
<1>16. Len(Received[s]) + 1 = next
  BY <1>4, <1>12, HeardNext
<1>17. UNCHANGED [t \in Subscribers |-> subscriber[t].run]
  BY <1>8, <1>9
<1>18. [t \in Subscribers |-> subscriber[t].run][s] = subscriber[s].run
  OBVIOUS
<1> QED
  BY <1>1, <1>3, <1>5, <1>15, <1>16, <1>17, <1>18 DEF Stream!Deliver

(* Every other step leaves history and receipts as they are. *)
LEMMA NextStreams ==
    ASSUME Delivered, Announced, [Next]_vars
    PROVE  [Stream!Next]_Stream!vars
<1>1. ASSUME UNCHANGED log, \A s \in Subscribers : /\ subscriber'[s].run = subscriber[s].run
                                                   /\ subscriber'[s].got = subscriber[s].got
      PROVE  UNCHANGED Stream!vars
  BY <1>1, ReceivedStays DEF Delivered, Stream!vars
<1>2. CASE UNCHANGED <<subscriber, log>>
  BY <1>1, <1>2
<1>3. ASSUME NEW w \in Slots, Work(w) PROVE [Stream!Next]_Stream!vars
  <2>1. CASE CommitEvent(w)
    BY <2>1, CommitStreams
  <2>2. CASE ~CommitEvent(w)
    <3>1. ASSUME NEW e \in Events, TakeJob(w, e) PROVE UNCHANGED <<subscriber, log>>
      BY <3>1 DEF TakeJob
    <3>2. ReadRun(w) \/ StartRun(w) => UNCHANGED <<subscriber, log>>
      BY DEF ReadRun, StartRun
    <3>3. AppendEvent(w) \/ CompleteRun(w) => UNCHANGED <<subscriber, log>>
      BY DEF AppendEvent, CompleteRun
    <3>4. FinishJob(w) => UNCHANGED <<subscriber, log>>
      BY DEF FinishJob
    <3>5. UNCHANGED <<subscriber, log>>
      BY <1>3, <2>2, <3>1, <3>2, <3>3, <3>4 DEF Work
    <3> QED
      BY <1>2, <3>5
  <2> QED
    BY <2>1, <2>2
<1>4. ASSUME NEW s \in Subscribers, Connect(s) \/ Poll(s) \/ Disconnect(s)
      PROVE  [Stream!Next]_Stream!vars
  <2>1. subscriber \in [Subscribers -> Connections] /\ UNCHANGED log
    BY <1>4 DEF Delivered, Following, Connect, Poll, Disconnect
  <2>2. subscriber[s] \in Connections
    BY <2>1
  <2>3. ASSUME NEW new, subscriber' = [subscriber EXCEPT ![s] = new],
               new.run = subscriber[s].run, new.got = subscriber[s].got
        PROVE  [Stream!Next]_Stream!vars
    <3>1. \A t \in Subscribers : /\ subscriber'[t].run = subscriber[t].run
                                 /\ subscriber'[t].got = subscriber[t].got
      BY <2>1, <2>3
    <3> QED
      BY <1>1, <2>1, <3>1
  <2>4. CASE Connect(s)
    <3>1. PICK c : c = IF subscriber[s].got = <<>> THEN 0 ELSE subscriber[s].got[Len(subscriber[s].got)]
      OBVIOUS
    <3>2. PICK new : new = [subscriber[s] EXCEPT !.open = TRUE, !.wire = <<>>, !.cursor = c]
      OBVIOUS
    <3>3. new.run = subscriber[s].run /\ new.got = subscriber[s].got
      BY <2>2, <3>2 DEF Connections
    <3>4. subscriber' = [subscriber EXCEPT ![s] = new]
      BY <2>4, <3>1, <3>2 DEF Connect
    <3> QED
      BY <2>3, <3>3, <3>4
  <2>5. CASE Poll(s)
    <3>1. PICK later : later = EventsAfter(subscriber[s].run, subscriber[s].cursor)
      OBVIOUS
    <3>2. PICK wire, c : wire = subscriber[s].wire \o later /\ c = later[Len(later)]
      OBVIOUS
    <3>3. PICK new : new = [subscriber[s] EXCEPT !.wire = wire, !.cursor = c]
      OBVIOUS
    <3>4. new.run = subscriber[s].run /\ new.got = subscriber[s].got
      BY <2>2, <3>3 DEF Connections
    <3>5. subscriber' = [subscriber EXCEPT ![s] = new]
      BY <2>5, <3>1, <3>2, <3>3 DEF Poll
    <3> QED
      BY <2>3, <3>4, <3>5
  <2>6. CASE Disconnect(s)
    <3>1. PICK new : new = [subscriber[s] EXCEPT !.open = FALSE]
      OBVIOUS
    <3>2. new.run = subscriber[s].run /\ new.got = subscriber[s].got
      BY <2>2, <3>1 DEF Connections
    <3>3. subscriber' = [subscriber EXCEPT ![s] = new]
      BY <2>6, <3>1 DEF Disconnect
    <3> QED
      BY <2>3, <3>2, <3>3
  <2> QED
    BY <1>4, <2>4, <2>5, <2>6
<1>5. ASSUME NEW s \in Subscribers, Receive(s) PROVE [Stream!Next]_Stream!vars
  BY <1>5, ReceiveStreams DEF Stream!Next
<1>6. ASSUME NEW d \in Dispatchers, Dispatch(d) \/ AddJobFails(d) \/ DispatcherCrashes(d)
      PROVE  [Stream!Next]_Stream!vars
  BY <1>2, <1>6 DEF Dispatch, SelectBatch, AddJob, MarkPublished, AddJobFails, DispatcherCrashes
<1>7. ASSUME NEW e \in Events, Request(e) \/ Timers(e) \/ LockIsLost(e) PROVE [Stream!Next]_Stream!vars
  BY <1>2, <1>7 DEF Request, Timers, BackOffEnds, BackOffOver, JobStalls, LockIsLost
<1>8. ASSUME NEW r \in Runs, CancelRun(r) PROVE [Stream!Next]_Stream!vars
  BY <1>2, <1>8 DEF CancelRun
<1>9. ASSUME NEW w \in Slots, JobFails(w) \/ SlotCrashes(w) PROVE [Stream!Next]_Stream!vars
  BY <1>2, <1>9 DEF JobFails, SlotCrashes
<1>10. CASE UNCHANGED vars
  BY <1>2, <1>10 DEF vars
<1> QED
  BY <1>3, <1>4, <1>5, <1>6, <1>7, <1>8, <1>9, <1>10 DEF Next, Faults, Follow

LEMMA InitStreams == Init => Stream!Init
<1> SUFFICES ASSUME Init PROVE Stream!Init
  OBVIOUS
<1>1. \A s \in Subscribers : subscriber[s].run \in Runs /\ subscriber[s].got = <<>>
  BY DEF Init
<1>2. \A s \in Subscribers : Received[s] = <<>>
  BY <1>1 DEF Received
<1>3. Received = [s \in Subscribers |-> <<>>]
  <2>1. Received = [s \in Subscribers |-> Received[s]]
    BY DEF Received
  <2> QED
    BY <1>2, <2>1
<1>4. log = [r \in Runs |-> <<>>]
  BY DEF Init
<1>5. [s \in Subscribers |-> subscriber[s].run] \in [Subscribers -> Runs]
  BY <1>1
<1> QED
  BY <1>3, <1>4, <1>5 DEF Stream!Init

(* The committed events of the runs and what the clients received of them  *)
(* are a behaviour of the abstract stream: the log is only appended to, in *)
(* the order of its numbers, a completion follows a start, and a client    *)
(* receives one event after the other from the beginning, whatever breaks  *)
(* in between (RunService.append, eventsAfter, the route of the events).   *)
THEOREM StreamIsImplemented == Spec => ImplementsStream
<1>1. Delivered /\ Announced /\ [Next]_vars => [Stream!Next]_Stream!vars
  BY NextStreams
<1> QED
  BY <1>1, InitStreams, AlwaysAnnounced, PTL DEF Spec, ImplementsStream, Stream!Spec

(* What a client has received is how the history of its run begins, and no *)
(* client learns of a completion without having learned of a start.        *)
THEOREM ReceiptsAreInOrder == Spec => []Stream!ReceivedInOrder
<1>1. Delivered /\ Announced => Stream!ReceivedInOrder
  <2> SUFFICES ASSUME Delivered, Announced, NEW s \in Subscribers
               PROVE  /\ Len(Received[s]) <= Len(log[subscriber[s].run])
                      /\ \A i \in 1..Len(Received[s]) :
                           Received[s][i] = Stream!Event(i, log[subscriber[s].run][i])
                      /\ \A i \in 1..Len(Received[s]) : Received[s][i].type = "completed" =>
                           \E j \in 1..i : Received[s][j].type = "started"
    BY DEF Stream!ReceivedInOrder
  <2>1. PICK got \in Seq(Nat), r \in Runs :
          /\ got = subscriber[s].got /\ r = subscriber[s].run
          /\ \A i \in 1..Len(got) : got[i] = i
          /\ 1..Len(got) \subseteq DOMAIN log[r]
    BY DEF Delivered, Following, Connections, Followed
  <2>2. PICK events \in Seq(Reported) : events = log[r] /\ CompletionsFollowStarts(events)
    BY DEF Announced
  <2>3. PICK k \in Nat, n \in Nat : k = Len(got) /\ n = Len(events)
    OBVIOUS
  <2>4. DOMAIN got = 1..k /\ DOMAIN events = 1..n
    BY <2>3
  <2>5. k <= n
    <3>1. 1..k \subseteq 1..n
      BY <2>1, <2>2, <2>3, <2>4
    <3>2. k # 0 => k \in 1..k
      OBVIOUS
    <3> QED
      BY <3>1, <3>2
  <2>6. PICK heard : heard = Received[s]
    OBVIOUS
  <2>7. Len(heard) = k
    <3>1. heard = Heard(got, events)
      BY <2>1, <2>2, <2>6 DEF Received, Heard
    <3>2. k + 1 \in Nat
      OBVIOUS
    <3> QED
      BY <2>3, <3>1, <3>2, HeardNext
  <2>8. \A i \in 1..k : heard[i] = [id |-> i, type |-> events[i]]
    <3>1. heard = [i \in DOMAIN got |-> [id |-> got[i], type |-> events[got[i]]]]
      BY <2>1, <2>2, <2>6 DEF Received
    <3> QED
      BY <2>1, <2>3, <2>4, <3>1
  <2>9. ASSUME NEW i \in 1..k PROVE heard[i].type = events[i]
    <3>1. PICK event : event = heard[i]
      OBVIOUS
    <3>2. event = [id |-> i, type |-> events[i]]
      BY <2>8, <3>1
    <3>3. event.type = events[i]
      BY <3>2
    <3> QED
      BY <3>1, <3>3
  <2>10. ASSUME NEW i \in 1..k, heard[i].type = "completed"
         PROVE  \E j \in 1..i : heard[j].type = "started"
    <3>1. events[i] = "completed" /\ i \in DOMAIN events
      BY <2>4, <2>5, <2>9, <2>10
    <3>2. PICK j \in 1..i : events[j] = "started"
      BY <2>2, <3>1 DEF CompletionsFollowStarts
    <3>3. j \in 1..k
      OBVIOUS
    <3> QED
      BY <2>9, <3>2, <3>3
  <2>11. /\ k <= n
         /\ \A i \in 1..k : heard[i] = Stream!Event(i, events[i])
         /\ \A i \in 1..k : heard[i].type = "completed" => \E j \in 1..i : heard[j].type = "started"
    BY <2>5, <2>8, <2>10 DEF Stream!Event
  <2>12. log[subscriber[s].run] = events
    BY <2>1, <2>2
  <2> QED
    BY <2>3, <2>6, <2>7, <2>11, <2>12
<1> QED
  BY <1>1, AlwaysAnnounced, PTL
===============================================================================
