------------------------------ MODULE JobPipeline ------------------------------
(***************************************************************************)
(* How work leaves a database transaction and reaches a worker, and how a  *)
(* client watches it (modules/jobs, worker-composition and modules/runs):  *)
(* the outbox rows, the dispatchers that copy them to the BullMQ queue,    *)
(* the job slots that serve the queue, the runs some jobs carry out and    *)
(* the server-sent events a subscriber follows a run by.                   *)
(*                                                                         *)
(* BullMQ and Redis are external: a job id that the queue holds is not     *)
(* added again, a job is given to one slot, given out again when its slot  *)
(* stops renewing its lock (it may still be working) and retried after a   *)
(* back-off while it has attempts left.  A job is named by its outbox row, *)
(* as durableJobOptions does.  What the handlers of drift checks, exports  *)
(* and deletions do is the subject of LivingPlan and Privacy: here such a  *)
(* job is done or fails in one step.  Event ids are their run's sequence   *)
(* numbers.                                                                *)
(***************************************************************************)
EXTENDS Integers, Sequences, FiniteSets

CONSTANTS
    Aggregates,   \* drift checks, exports and deletions: one outbox row each
    Runs,         \* runs: one outbox row each
    Dispatchers,  \* worker processes, each with an outbox dispatcher
    Slots,        \* job slots of all worker processes
    Subscribers,  \* clients that follow the events of a run
    None,
    Starts,       \* bound: the [new, queued] events when we begin to look
    MaxAttempts,  \* attempts of a job (5 in createDomainQueue)
    MaxFaults     \* bound: faults that happen while we look

Events == Aggregates \cup Runs

ASSUME EventsAreDistinct == Aggregates \cap Runs = {} /\ None \notin Events
ASSUME StartsAreEvents ==
    \A s \in Starts : s.new \subseteq Events /\ s.queued \subseteq Events \ s.new
ASSUME BoundsAreNatural == MaxAttempts \in Nat \ {0} /\ MaxFaults \in Nat

VARIABLES
    outbox,      \* outbox_events by event
    job,         \* the queue's jobs by event
    dispatcher,  \* the batch each dispatcher has selected and where it is
    slot,        \* what each job slot is doing
    run,         \* job_runs
    log,         \* the committed run_events of each run: type by sequence
    subscriber,  \* the connections of the subscribers
    faults       \* how many faults have happened

vars == <<outbox, job, dispatcher, slot, run, log, subscriber, faults>>

-----------------------------------------------------------------------------
OutboxStates == {"absent", "available", "backing_off", "published"}
JobStates == {"absent", "waiting", "active", "delayed", "completed", "failed"}
RunStates == {"queued", "running", "completed", "cancelled"}
SlotSteps == {"idle", "handle", "read", "start", "append", "commit", "complete", "done"}

IdleSlot == [at |-> "idle", of |-> None, type |-> "none", sequence |-> 0]
IdleDispatcher == [batch |-> {}, added |-> None]

(* The sequence numbers of a run's committed events are the domain of log. *)
LastSequence(r) ==
    IF DOMAIN log[r] = {} THEN 0 ELSE CHOOSE m \in DOMAIN log[r] : \A n \in DOMAIN log[r] : n <= m

Fault == faults < MaxFaults /\ faults' = faults + 1

-----------------------------------------------------------------------------
(* Outbox *)

(* The row is inserted by the transaction that requests the work. *)
Request(e) ==
    /\ outbox[e] = "absent"
    /\ outbox' = [outbox EXCEPT ![e] = "available"]
    /\ UNCHANGED <<job, dispatcher, slot, run, log, subscriber, faults>>

(* A dispatcher starts no batch while it works on one. *)
SelectBatch(d) ==
    LET due == {e \in Events : outbox[e] = "available"} IN
    /\ dispatcher[d] = IdleDispatcher
    /\ due # {}
    /\ dispatcher' = [dispatcher EXCEPT ![d].batch = due]
    /\ UNCHANGED <<outbox, job, slot, run, log, subscriber, faults>>

Enqueued(e) ==
    job' = [job EXCEPT ![e] = IF @.state = "absent" THEN [@ EXCEPT !.state = "waiting"] ELSE @]

AddJob(d) ==
    /\ dispatcher[d].added = None
    /\ \E e \in dispatcher[d].batch :
          /\ Enqueued(e)
          /\ dispatcher' = [dispatcher EXCEPT ![d].added = e]
    /\ UNCHANGED <<outbox, slot, run, log, subscriber, faults>>

MarkPublishedAgain(d) ==
    LET e == dispatcher[d].added IN
    /\ e # None
    /\ outbox' = [outbox EXCEPT ![e] = "published"]
    /\ dispatcher' = [dispatcher EXCEPT ![d].batch = @ \ {e}]
    /\ UNCHANGED <<job, slot, run, log, subscriber, faults>>

MarkPublished(d) ==
    LET e == dispatcher[d].added IN
    /\ e # None
    /\ outbox' = [outbox EXCEPT ![e] = "published"]
    /\ dispatcher' = [dispatcher EXCEPT ![d] = [batch |-> @.batch \ {e}, added |-> None]]
    /\ UNCHANGED <<job, slot, run, log, subscriber, faults>>

(* publishedAt is written although the queue refused the job. *)
AddJobRefusedSilently(d) ==
    /\ Fault
    /\ dispatcher[d].added = None
    /\ \E e \in dispatcher[d].batch :
          /\ outbox' = [outbox EXCEPT ![e] = "published"]
          /\ dispatcher' = [dispatcher EXCEPT ![d].batch = @ \ {e}]
    /\ UNCHANGED <<job, slot, run, log, subscriber>>

(* The queue is unreachable, or the answer is lost: the row becomes        *)
(* available again in five seconds, published or not.                      *)
AddJobFails(d) ==
    /\ Fault
    /\ dispatcher[d].added = None
    /\ \E e \in dispatcher[d].batch :
          /\ Enqueued(e) \/ UNCHANGED job
          /\ outbox' = [outbox EXCEPT ![e] = IF @ = "published" THEN @ ELSE "backing_off"]
          /\ dispatcher' = [dispatcher EXCEPT ![d].batch = @ \ {e}]
    /\ UNCHANGED <<slot, run, log, subscriber>>

BackOffNeverEnds(e) ==
    /\ outbox[e] = "published"
    /\ outbox' = [outbox EXCEPT ![e] = "available"]
    /\ UNCHANGED <<job, dispatcher, slot, run, log, subscriber, faults>>

BackOffEnds(e) ==
    /\ outbox[e] = "backing_off"
    /\ outbox' = [outbox EXCEPT ![e] = "available"]
    /\ UNCHANGED <<job, dispatcher, slot, run, log, subscriber, faults>>

DispatcherCrashes(d) ==
    /\ Fault
    /\ dispatcher[d] # IdleDispatcher
    /\ dispatcher' = [dispatcher EXCEPT ![d] = IdleDispatcher]
    /\ UNCHANGED <<outbox, job, slot, run, log, subscriber>>

-----------------------------------------------------------------------------
(* Queue *)

TakeJob(w, e) ==
    /\ slot[w] = IdleSlot
    /\ job[e].state = "waiting"
    /\ job' = [job EXCEPT ![e].state = "active", ![e].attempts = @ + 1]
    /\ slot' = [slot EXCEPT ![w] = [IdleSlot EXCEPT !.of = e, !.at = IF e \in Runs THEN "read" ELSE "handle"]]
    /\ UNCHANGED <<outbox, dispatcher, run, log, subscriber, faults>>

(* The lock on a job whose slot is gone expires: it is given out again.    *)
JobStalls(e) ==
    /\ job[e].state = "active"
    /\ \A w \in Slots : slot[w].of # e
    /\ job' = [job EXCEPT ![e].state = "waiting"]
    /\ UNCHANGED <<outbox, dispatcher, slot, run, log, subscriber, faults>>

(* A slot that pauses loses its lock while it goes on.                     *)
LockIsLost(e) ==
    /\ Fault
    /\ job[e].state = "active"
    /\ \E w \in Slots : slot[w].of = e
    /\ job' = [job EXCEPT ![e].state = "waiting"]
    /\ UNCHANGED <<outbox, dispatcher, slot, run, log, subscriber>>

BackOffOver(e) ==
    /\ job[e].state = "delayed"
    /\ job' = [job EXCEPT ![e].state = "waiting"]
    /\ UNCHANGED <<outbox, dispatcher, slot, run, log, subscriber, faults>>

(* The handler returned.  A slot that lost its job cannot settle it.       *)
FinishJob(w) ==
    /\ slot[w].at \in {"handle", "done"}
    /\ job' = [job EXCEPT ![slot[w].of].state = IF @ = "active" THEN "completed" ELSE @]
    /\ slot' = [slot EXCEPT ![w] = IdleSlot]
    /\ UNCHANGED <<outbox, dispatcher, run, log, subscriber, faults>>

(* The handler threw, which rolls back the transaction it was in. *)
JobFails(w) ==
    LET e == slot[w].of IN
    /\ Fault
    /\ slot[w] # IdleSlot
    /\ job' = [job EXCEPT ![e].state =
                 IF @ # "active" THEN @ ELSE IF job[e].attempts < MaxAttempts THEN "delayed" ELSE "failed"]
    /\ slot' = [slot EXCEPT ![w] = IdleSlot]
    /\ UNCHANGED <<outbox, dispatcher, run, log, subscriber>>

SlotCrashes(w) ==
    /\ Fault
    /\ slot[w] # IdleSlot
    /\ slot' = [slot EXCEPT ![w] = IdleSlot]
    /\ UNCHANGED <<outbox, job, dispatcher, run, log, subscriber>>

-----------------------------------------------------------------------------
(* Runs *)

ReadRun(w) ==
    LET r == slot[w].of IN
    /\ slot[w].at = "read"
    /\ slot' = [slot EXCEPT ![w].at = IF run[r].cancelRequested THEN "done" ELSE "start"]
    /\ UNCHANGED <<outbox, job, dispatcher, run, log, subscriber, faults>>

(* The update is by id: a cancellation since the read is overwritten. *)
StartRun(w) ==
    /\ slot[w].at = "start"
    /\ run' = [run EXCEPT ![slot[w].of].status = "running"]
    /\ slot' = [slot EXCEPT ![w].at = "append", ![w].type = "started"]
    /\ UNCHANGED <<outbox, job, dispatcher, log, subscriber, faults>>

(* pg_advisory_xact_lock(hashtext(runId)) is held until the commit. *)
Appending(r) == {w \in Slots : slot[w].of = r /\ slot[w].at = "commit"}

AppendEventUnlocked(w) ==
    LET r == slot[w].of IN
    /\ slot[w].at = "append"
    /\ slot' = [slot EXCEPT ![w].at = "commit",
                            ![w].sequence = 1 + LastSequence(r) + Cardinality(Appending(r))]
    /\ UNCHANGED <<outbox, job, dispatcher, run, log, subscriber, faults>>

(* The insert computes coalesce(max(sequence), 0) + 1 under the lock. *)
AppendEvent(w) ==
    LET r == slot[w].of IN
    /\ slot[w].at = "append"
    /\ Appending(r) = {}
    /\ slot' = [slot EXCEPT ![w].at = "commit", ![w].sequence = 1 + LastSequence(r)]
    /\ UNCHANGED <<outbox, job, dispatcher, run, log, subscriber, faults>>

CommitEvent(w) ==
    LET r == slot[w].of
        added == slot[w].sequence IN
    /\ slot[w].at = "commit"
    /\ log' = [log EXCEPT ![r] =
                 [n \in DOMAIN @ \cup {added} |-> IF n = added THEN slot[w].type ELSE @[n]]]
    /\ slot' = [slot EXCEPT ![w].at = IF slot[w].type = "started" THEN "complete" ELSE "done"]
    /\ UNCHANGED <<outbox, job, dispatcher, run, subscriber, faults>>

CompleteRun(w) ==
    /\ slot[w].at = "complete"
    /\ run' = [run EXCEPT ![slot[w].of].status = "completed"]
    /\ slot' = [slot EXCEPT ![w].at = "append", ![w].type = "completed"]
    /\ UNCHANGED <<outbox, job, dispatcher, log, subscriber, faults>>

(* A run that is neither queued nor running is returned as it is. *)
CancelRun(r) ==
    /\ outbox[r] # "absent"
    /\ run[r].status \in {"queued", "running"}
    /\ run' = [run EXCEPT ![r] = [status |-> "cancelled", cancelRequested |-> TRUE]]
    /\ UNCHANGED <<outbox, job, dispatcher, slot, log, subscriber, faults>>

-----------------------------------------------------------------------------
(* Server-sent events.  wire is what was written to the connection and has *)
(* not arrived, got what the client has received of the run it follows.    *)

ConnectAfterServer(s) ==
    /\ ~subscriber[s].open
    /\ subscriber' = [subscriber EXCEPT ![s].open = TRUE, ![s].wire = <<>>]
    /\ UNCHANGED <<outbox, job, dispatcher, slot, run, log, faults>>

(* The client names the last event it received. *)
Connect(s) ==
    LET got == subscriber[s].got IN
    /\ ~subscriber[s].open
    /\ subscriber' = [subscriber EXCEPT ![s] =
                        [@ EXCEPT !.open = TRUE, !.wire = <<>>,
                                  !.cursor = IF got = <<>> THEN 0 ELSE got[Len(got)]]]
    /\ UNCHANGED <<outbox, job, dispatcher, slot, run, log, faults>>

(* eventsAfter in the order of their sequence numbers: the i-th of them is *)
(* the one that i of them come up to.                                      *)
EventsAfter(r, cursor) ==
    LET later == {n \in DOMAIN log[r] : n > cursor} IN
    [i \in 1..Cardinality(later) |-> CHOOSE n \in later : Cardinality({m \in later : m <= n}) = i]

Poll(s) ==
    LET new == EventsAfter(subscriber[s].run, subscriber[s].cursor) IN
    /\ subscriber[s].open
    /\ new # <<>>
    /\ subscriber' = [subscriber EXCEPT ![s] =
                        [@ EXCEPT !.wire = subscriber[s].wire \o new, !.cursor = new[Len(new)]]]
    /\ UNCHANGED <<outbox, job, dispatcher, slot, run, log, faults>>

Receive(s) ==
    /\ subscriber[s].open
    /\ subscriber[s].wire # <<>>
    /\ subscriber' = [subscriber EXCEPT ![s] =
                        [@ EXCEPT !.got = Append(subscriber[s].got, Head(subscriber[s].wire)), !.wire = Tail(subscriber[s].wire)]]
    /\ UNCHANGED <<outbox, job, dispatcher, slot, run, log, faults>>

(* The client disconnects, or a poll fails and the response is ended. *)
Disconnect(s) ==
    /\ Fault
    /\ subscriber[s].open
    /\ subscriber' = [subscriber EXCEPT ![s].open = FALSE]
    /\ UNCHANGED <<outbox, job, dispatcher, slot, run, log>>

-----------------------------------------------------------------------------
(* Events that are neither new nor queued were dealt with before. *)
Init ==
    /\ \E s \in Starts :
          /\ outbox = [e \in Events |-> IF e \in s.new THEN "absent" ELSE "published"]
          /\ job = [e \in Events |->
                      [state |-> IF e \in s.new THEN "absent" ELSE IF e \in s.queued THEN "waiting" ELSE "completed",
                       attempts |-> 0]]
    /\ dispatcher = [d \in Dispatchers |-> IdleDispatcher]
    /\ slot = [w \in Slots |-> IdleSlot]
    /\ run = [r \in Runs |-> [status |-> "queued", cancelRequested |-> FALSE]]
    /\ log = [r \in Runs |-> <<>>]
    /\ subscriber \in [Subscribers -> {[run |-> r, open |-> FALSE, cursor |-> 0, wire |-> <<>>, got |-> <<>>] : r \in Runs}]
    /\ faults = 0

Dispatch(d) == SelectBatch(d) \/ AddJob(d) \/ MarkPublished(d)
Work(w) ==
    \/ \E e \in Events : TakeJob(w, e)
    \/ ReadRun(w) \/ StartRun(w) \/ AppendEvent(w) \/ CommitEvent(w) \/ CompleteRun(w) \/ FinishJob(w)
Follow(s) == Connect(s) \/ Poll(s) \/ Receive(s)
Timers(e) == BackOffEnds(e) \/ BackOffOver(e) \/ JobStalls(e)
Faults ==
    \/ \E d \in Dispatchers : AddJobFails(d) \/ DispatcherCrashes(d)
    \/ \E w \in Slots : JobFails(w) \/ SlotCrashes(w)
    \/ \E e \in Events : LockIsLost(e)
    \/ \E s \in Subscribers : Disconnect(s)

Next ==
    \/ \E e \in Events : Request(e) \/ Timers(e)
    \/ \E d \in Dispatchers : Dispatch(d)
    \/ \E w \in Slots : Work(w)
    \/ \E r \in Runs : CancelRun(r)
    \/ \E s \in Subscribers : Follow(s)
    \/ Faults

Spec == Init /\ [][Next]_vars

(* The dispatch interval, the slots, BullMQ's timers and the polling of a  *)
(* connected client keep going; a new request, a cancellation and a fault  *)
(* need not happen.                                                        *)
FairSpec ==
    /\ Spec
    /\ \A d \in Dispatchers : WF_vars(Dispatch(d))
    /\ \A w \in Slots : WF_vars(Work(w))
    /\ \A s \in Subscribers : WF_vars(Follow(s))
    /\ \A e \in Events : WF_vars(Timers(e))

-----------------------------------------------------------------------------
(* Properties *)

(* Every row, job and connection is one the code can write.                *)
TypeOK ==
    /\ outbox \in [Events -> OutboxStates]
    /\ job \in [Events -> [state : JobStates, attempts : Nat]]
    /\ \A d \in Dispatchers :
          dispatcher[d].batch \subseteq Events /\ dispatcher[d].added \in dispatcher[d].batch \cup {None}
    /\ slot \in [Slots -> [at : SlotSteps, of : Events \cup {None},
                           type : {"none", "started", "completed"}, sequence : Nat]]
    /\ run \in [Runs -> [status : RunStates, cancelRequested : BOOLEAN]]
    /\ \A r \in Runs : DOMAIN log[r] \subseteq Nat
    /\ \A s \in Subscribers : subscriber[s].cursor \in Nat
    /\ faults \in 0..MaxFaults

(* publishedAt means the queue has the job, whichever of the dispatchers   *)
(* wrote it and whatever failed before: work that was requested is never   *)
(* lost between the two stores.                                            *)
PublishedWorkIsQueued ==
    \A e \in Events : outbox[e] = "published" => job[e].state # "absent"

(* A subscriber receives a run's events in order, none twice and none      *)
(* left out, although two slots may append to the run, what was written to *)
(* a connection may be lost with it and the client resumes.                *)
SubscribersMissNothing ==
    \A s \in Subscribers :
        LET got == subscriber[s].got IN
        /\ \A i \in 1..Len(got) : got[i] = i
        /\ 1..Len(got) \subseteq DOMAIN log[subscriber[s].run]

(* The committed events and what the clients received of them implement    *)
(* the abstract stream: nothing committed is ever changed, renumbered or   *)
(* slipped in behind what a subscriber has read.                           *)
Received ==
    [s \in Subscribers |->
        LET sub == subscriber[s] IN
        [i \in DOMAIN sub.got |-> [id |-> sub.got[i], type |-> log[sub.run][sub.got[i]]]]]

Stream ==
    INSTANCE EventStream WITH
        history <- log, follows <- [s \in Subscribers |-> subscriber[s].run], received <- Received

ImplementsStream == Stream!Spec

(* Requested work is done or has used up its attempts, however the         *)
(* dispatchers, the queue and the slots fail meanwhile.                    *)
RequestedWorkIsSettled ==
    \A e \in Events : outbox[e] # "absent" ~> job[e].state \in {"completed", "failed"}

(* A subscriber that stays sees every event of its run in the end.         *)
SubscribersCatchUp ==
    \A s \in Subscribers, n \in 1..2 :
        n \in DOMAIN log[subscriber[s].run] ~> n <= Len(subscriber[s].got)
=============================================================================
