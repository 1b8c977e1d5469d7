------------------------------ MODULE LivingPlan ------------------------------
(***************************************************************************)
(* The living plan of one household: plan versions, scenarios and drift    *)
(* (modules/plans, modules/scenarios and modules/drift of the backend), as *)
(* concurrent PostgreSQL transactions.  A request of an API client or a    *)
(* job of a queue worker is a process that takes its locks one by one,     *)
(* reads the rows it locked, and commits; between two of its steps any     *)
(* other process may step, the process may fail (its transaction rolls     *)
(* back) and the retention cleanup may run.  Rows of other households are  *)
(* never read or written by these operations, so one household is enough.  *)
(*                                                                         *)
(* Abstractions.  A version, scenario or check id is a uuid in the code:   *)
(* here a version is its position in the order of insertion and the other  *)
(* ids are drawn from the fixed sets Scenarios and Checks.  A drift event  *)
(* is named by its check (unique index drift_events_check_uidx).  Inputs   *)
(* are functions from a few fields to amounts.  mode and revision enter    *)
(* the comparisons of a check exactly as the hash of its inputs does and   *)
(* are left out.  The wall clock appears only as the moment a retention    *)
(* deadline passes.                                                        *)
(***************************************************************************)
EXTENDS Integers, Sequences, FiniteSets

CONSTANTS
    Clients,         \* connections that serve API requests
    Workers,         \* job slots of the queue worker
    Scenarios,       \* ids of scenarios
    Checks,          \* ids of drift checks (and of their events)
    Fields,          \* input fields
    Amounts,         \* their values
    None,            \* no value, no owner, no origin
    Recalculations,  \* the [inputs, asOf] clients recalculate with
    Overlays,        \* the overlays clients create scenarios with
    CheckRequests,   \* the [key, inputs, asOf] clients request checks with
    Material,        \* the <<baseline, observed>> inputs that differ materially
    Aging,           \* bound: the checks whose retention ends while we look
    BatchSize,       \* rows one cleanup statement deletes at most
    MaxVersions,     \* bound: recalculations start below this many versions
    MaxAttempts      \* bound: no delivery starts for a check attempted this often

Processes == Clients \cup Workers
Inputs == [Fields -> Amounts \cup {None}]
Dates == {r.asOf : r \in Recalculations} \cup {r.asOf : r \in CheckRequests}
Keys == {r.key : r \in CheckRequests}

ASSUME ProcessesAreDistinct == Clients \cap Workers = {} /\ None \notin Processes
ASSUME ProposalsAreDistinct ==
    Scenarios \cap Checks = {} /\ None \notin Scenarios \cup Checks
ASSUME RequestsAreTyped ==
    /\ \A r \in Recalculations : r = [inputs |-> r.inputs, asOf |-> r.asOf]
    /\ \A r \in Recalculations : r.inputs \in Inputs
    /\ Overlays \subseteq Inputs
    /\ \A r \in CheckRequests : r = [key |-> r.key, inputs |-> r.inputs, asOf |-> r.asOf]
    /\ \A r \in CheckRequests : r.inputs \in Inputs
ASSUME AgingAreChecks == Aging \subseteq Checks
ASSUME BoundsAreNatural == {BatchSize, MaxVersions, MaxAttempts} \subseteq Nat

VARIABLES
    versions,  \* plan_versions joined with their financial_snapshots
    current,   \* plans.current_version_id; 0 while the household has no plan row
    scenario,  \* scenarios
    check,     \* drift_checks
    event,     \* drift_events
    lock,      \* who holds the advisory lock and the row locks
    stage,     \* how far each process is in its transaction
    op,        \* the request or job a process serves
    seen,      \* what its transaction has read under its locks
    reply      \* what the request is answered with

tables == <<versions, current, scenario, check, event>>
process == <<stage, op, seen, reply>>
vars == <<versions, current, scenario, check, event, lock, stage, op, seen, reply>>

-----------------------------------------------------------------------------
(* Rows.  "absent" is an id not used yet, "deleted" a row the cleanup has  *)
(* removed: a uuid is never used again.  origin is not a column: it is the *)
(* scenario or event whose transaction inserted the version.               *)

Versions ==
    [number : Nat, inputs : Inputs, asOf : Dates, origin : Scenarios \cup Checks \cup {None}]

ScenarioRows ==
    [status : {"absent", "draft", "applied"}, baseline : Nat,
     overlay : Inputs, appliedVersion : Nat]

CheckRows ==
    [status : {"absent", "queued", "completed", "failed", "deleted"}, baseline : Nat,
     key : Keys \cup {None}, inputs : Inputs, asOf : Dates \cup {None},
     attempts : Nat, expired : BOOLEAN]

EventRows ==
    [status : {"absent", "pending", "no_change", "kept", "accepted", "deleted"},
     baseline : Nat, inputs : Inputs, createdVersion : Nat, expired : BOOLEAN]

Blank == [f \in Fields |-> None]
NoScenario ==
    [status |-> "absent", baseline |-> 0, overlay |-> Blank, appliedVersion |-> 0]
NoCheck ==
    [status |-> "absent", baseline |-> 0, key |-> None, inputs |-> Blank, asOf |-> None,
     attempts |-> 0, expired |-> FALSE]
NoEvent ==
    [status |-> "absent", baseline |-> 0, inputs |-> Blank, createdVersion |-> 0,
     expired |-> FALSE]

(* mergeScenarioInputs: a field the overlay gives replaces the baseline's. *)
Merge(base, overlay) ==
    [f \in Fields |-> IF overlay[f] = None THEN base[f] ELSE overlay[f]]

(* coalesce(max(version_number), 0) + 1 *)
NextVersionNumber ==
    LET numbers == {versions[i].number : i \in 1..Len(versions)} \cup {0}
    IN  1 + CHOOSE m \in numbers : \A n \in numbers : n <= m

-----------------------------------------------------------------------------
(* Requests and jobs *)

Requests ==
    [kind : {"recalculate"}, inputs : Inputs, asOf : Dates]
    \cup [kind : {"create_scenario"}, overlay : Inputs]
    \cup [kind : {"apply"}, scenario : Scenarios]
    \cup [kind : {"create_check"}, baseline : Nat, key : Keys, inputs : Inputs, asOf : Dates]
    \cup [kind : {"accept", "keep"}, check : Checks]

Jobs == [kind : {"process"}, check : Checks]
Idle == [kind |-> "none"]

Nothing == [current |-> 0, number |-> 0, status |-> "absent"]
NoReply == [code |-> "none", version |-> 0, check |-> None]

Live(c) == check[c].status \notin {"absent", "deleted"}

WithKey(o) == {c \in Checks : Live(c) /\ check[c].key = o.key}

(* drift_checks_canonical_uidx *)
Canonical(o) ==
    {c \in Checks : Live(c) /\ check[c].baseline = o.baseline /\ check[c].inputs = o.inputs}

SameRequest(c, o) ==
    /\ check[c].baseline = o.baseline
    /\ check[c].inputs = o.inputs
    /\ check[c].asOf = o.asOf

(* Bounds: requests under way use up the versions and ids that are left. *)
UnderWay(kind) == {p \in Clients : op[p].kind = kind /\ stage[p] # "replied"}
SpareVersions == Len(versions) + Cardinality(UnderWay("recalculate")) < MaxVersions
SpareScenarios ==
    Cardinality(UnderWay("create_scenario"))
        < Cardinality({s \in Scenarios : scenario[s].status = "absent"})
SpareChecks ==
    Cardinality(UnderWay("create_check"))
        < Cardinality({c \in Checks : check[c].status = "absent"})

(* The requests a client can send now: it names versions, scenarios and    *)
(* events it has seen in earlier answers.                                  *)
Sendable ==
    {[kind |-> "recalculate", inputs |-> r.inputs, asOf |-> r.asOf] :
        r \in IF SpareVersions THEN Recalculations ELSE {}}
    \cup {[kind |-> "create_scenario", overlay |-> o] :
             o \in IF SpareScenarios THEN Overlays ELSE {}}
    \cup {[kind |-> "apply", scenario |-> s] :
             s \in {x \in Scenarios : scenario[x].status # "absent"}}
    \cup {o \in {[kind |-> "create_check", baseline |-> v, key |-> r.key,
                  inputs |-> r.inputs, asOf |-> r.asOf] :
                     v \in 1..Len(versions), r \in CheckRequests} :
             SpareChecks \/ WithKey(o) # {} \/ Canonical(o) # {}}
    \cup {[kind |-> k, check |-> c] :
             k \in {"accept", "keep"}, c \in {x \in Checks : event[x].status # "absent"}}

(* The outbox row is inserted with the check, so every check is delivered, *)
(* and delivered again after a failed attempt or a lost acknowledgement.   *)
(* A job does not survive until the 90-day retention of its check ends.    *)
Deliverable ==
    {[kind |-> "process", check |-> c] :
        c \in {x \in Checks : /\ check[x].status \in {"queued", "failed", "completed"}
                              /\ check[x].attempts < MaxAttempts
                              /\ ~check[x].expired}}

-----------------------------------------------------------------------------
(* Locks *)

Household == <<"household", None>>
PlanRow == <<"plan", None>>
ScenarioRow(s) == <<"scenario", s>>
CheckRow(c) == <<"check", c>>
EventRow(c) == <<"event", c>>

Resources ==
    {Household, PlanRow} \cup {ScenarioRow(s) : s \in Scenarios}
    \cup {CheckRow(c) : c \in Checks} \cup {EventRow(c) : c \in Checks}

(* pg_advisory_xact_lock(hashtext(householdId)) is the first statement of  *)
(* these operations.                                                       *)
HouseholdKinds == {"recalculate", "apply", "create_check", "accept"}

(* The row an operation selects FOR UPDATE besides the plan row. *)
TargetRow(o) ==
    CASE o.kind = "apply" -> ScenarioRow(o.scenario)
      [] o.kind \in {"accept", "keep"} -> EventRow(o.check)
      [] o.kind = "process" -> CheckRow(o.check)

StatusOf(o) ==
    CASE o.kind = "apply" -> scenario[o.scenario].status
      [] o.kind \in {"accept", "keep"} -> event[o.check].status
      [] o.kind = "process" -> check[o.check].status

Free(r) == lock[r] = None
Take(p, r) == Free(r) /\ lock' = [lock EXCEPT ![r] = p]

(* Mutant: a session-level advisory lock, which no commit releases. *)
ReleaseRows(p) ==
    lock' = [r \in Resources |-> IF lock[r] = p /\ r # Household THEN None ELSE lock[r]]

(* Commit and rollback release every lock of the transaction. *)
Release(p) == lock' = [r \in Resources |-> IF lock[r] = p THEN None ELSE lock[r]]

LockHousehold(p) ==
    /\ stage[p] = "begun"
    /\ op[p].kind \in HouseholdKinds
    /\ Take(p, Household)
    /\ stage' = [stage EXCEPT ![p] = "household"]
    /\ UNCHANGED <<tables, op, seen, reply>>

(* Mutants: the event, or the check, is selected without FOR UPDATE. *)
LockRowKeepUnlocked(p) ==
    /\ \/ stage[p] = "household" /\ op[p].kind \in {"apply", "accept"}
       \/ stage[p] = "begun" /\ op[p].kind \in {"keep", "process"}
    /\ IF op[p].kind = "keep" THEN UNCHANGED lock ELSE Take(p, TargetRow(op[p]))
    /\ seen' = [seen EXCEPT ![p].status = StatusOf(op[p])]
    /\ stage' = [stage EXCEPT ![p] = "row"]
    /\ UNCHANGED <<tables, op, reply>>

LockRowCheckUnlocked(p) ==
    /\ \/ stage[p] = "household" /\ op[p].kind \in {"apply", "accept"}
       \/ stage[p] = "begun" /\ op[p].kind \in {"keep", "process"}
    /\ IF op[p].kind = "process" THEN UNCHANGED lock ELSE Take(p, TargetRow(op[p]))
    /\ seen' = [seen EXCEPT ![p].status = StatusOf(op[p])]
    /\ stage' = [stage EXCEPT ![p] = "row"]
    /\ UNCHANGED <<tables, op, reply>>

LockRow(p) ==
    /\ \/ stage[p] = "household" /\ op[p].kind \in {"apply", "accept"}
       \/ stage[p] = "begun" /\ op[p].kind \in {"keep", "process"}
    /\ Take(p, TargetRow(op[p]))
    /\ seen' = [seen EXCEPT ![p].status = StatusOf(op[p])]
    /\ stage' = [stage EXCEPT ![p] = "row"]
    /\ UNCHANGED <<tables, op, reply>>

(* Selecting the plan row FOR UPDATE locks nothing while there is none. *)
LockPlan(p) ==
    /\ \/ stage[p] = "household" /\ op[p].kind \in {"recalculate", "create_check"}
       \/ stage[p] = "row" /\ op[p].kind \in {"apply", "accept"}
    /\ IF current = 0 THEN UNCHANGED lock ELSE Take(p, PlanRow)
    /\ seen' = [seen EXCEPT ![p].current = current, ![p].number = NextVersionNumber]
    /\ stage' = [stage EXCEPT ![p] = "plan"]
    /\ UNCHANGED <<tables, op, reply>>

(* createScenario reads the plan outside any transaction and lock. *)
ReadPlan(p) ==
    /\ stage[p] = "begun"
    /\ op[p].kind = "create_scenario"
    /\ seen' = [seen EXCEPT ![p].current = current]
    /\ stage' = [stage EXCEPT ![p] = "plan"]
    /\ UNCHANGED <<tables, lock, op, reply>>

-----------------------------------------------------------------------------
(* Requests *)

Begin(p, o) ==
    /\ stage[p] = "idle"
    /\ op' = [op EXCEPT ![p] = o]
    /\ stage' = [stage EXCEPT ![p] = "begun"]
    /\ UNCHANGED <<tables, lock, seen, reply>>

(* The transaction ends and the request is answered. *)
Answer(p, code, version, c) ==
    /\ reply' = [reply EXCEPT ![p] = [code |-> code, version |-> version, check |-> c]]
    /\ stage' = [stage EXCEPT ![p] = "replied"]
    /\ Release(p)
    /\ UNCHANGED <<op, seen>>

Refuse(p, code) ==
    /\ Answer(p, code, 0, None)
    /\ UNCHANGED tables

Forget(p) ==
    /\ stage' = [stage EXCEPT ![p] = "idle"]
    /\ op' = [op EXCEPT ![p] = Idle]
    /\ seen' = [seen EXCEPT ![p] = Nothing]
    /\ reply' = [reply EXCEPT ![p] = NoReply]

Finish(p) ==
    /\ stage[p] = "replied"
    /\ Forget(p)
    /\ UNCHANGED <<tables, lock>>

(* A statement fails, the connection breaks or the process dies: the open  *)
(* transaction rolls back and the caller gets no answer it can trust.      *)
Crash(p) ==
    /\ stage[p] \in {"begun", "household", "row", "plan", "failing"}
    /\ Forget(p)
    /\ Release(p)
    /\ UNCHANGED <<tables>>

(* The unique index on (plan_id, version_number) and the one plan per      *)
(* household: a violation fails the transaction, which Crash covers.       *)
Publishable(p) ==
    /\ \A i \in 1..Len(versions) : versions[i].number # seen[p].number
    /\ seen[p].current = 0 => current = 0

(* Insert snapshot and version, then point the plan at the new version. *)
PublishVersion(p, inputs, asOf, origin) ==
    /\ Publishable(p)
    /\ versions' = Append(versions, [number |-> seen[p].number, inputs |-> inputs,
                                     asOf |-> asOf, origin |-> origin])
    /\ current' = Len(versions) + 1

RecalculatePlan(p) ==
    /\ stage[p] = "plan"
    /\ op[p].kind = "recalculate"
    /\ PublishVersion(p, op[p].inputs, op[p].asOf, None)
    /\ Answer(p, "ok", Len(versions) + 1, None)
    /\ UNCHANGED <<scenario, check, event>>

(* Mutant: no NO_CURRENT_PLAN. *)
CreateScenarioUnchecked(p) ==
    /\ stage[p] = "plan"
    /\ op[p].kind = "create_scenario"
    /\ \E s \in Scenarios :
          /\ scenario[s].status = "absent"
          /\ scenario' = [scenario EXCEPT ![s] =
                            [status |-> "draft", baseline |-> seen[p].current,
                             overlay |-> op[p].overlay, appliedVersion |-> 0]]
    /\ Answer(p, "ok", 0, None)
    /\ UNCHANGED <<versions, current, check, event>>

CreateScenario(p) ==
    /\ stage[p] = "plan"
    /\ op[p].kind = "create_scenario"
    /\ seen[p].current # 0
    /\ \E s \in Scenarios :
          /\ scenario[s].status = "absent"
          /\ scenario' = [scenario EXCEPT ![s] =
                            [status |-> "draft", baseline |-> seen[p].current,
                             overlay |-> op[p].overlay, appliedVersion |-> 0]]
    /\ Answer(p, "ok", 0, None)
    /\ UNCHANGED <<versions, current, check, event>>

NoCurrentPlan(p) ==
    /\ stage[p] = "plan"
    /\ op[p].kind = "create_scenario"
    /\ seen[p].current = 0
    /\ Refuse(p, "NO_CURRENT_PLAN")

(* Mutant: a scenario is applied whatever the plan has become. *)
ApplyScenarioStale(p) ==
    LET s == op[p].scenario
    IN  /\ stage[p] = "plan"
        /\ op[p].kind = "apply"
        /\ seen[p].status = "draft"
        /\ PublishVersion(p, Merge(versions[scenario[s].baseline].inputs, scenario[s].overlay),
                          versions[scenario[s].baseline].asOf, s)
        /\ scenario' = [scenario EXCEPT ![s].status = "applied",
                                        ![s].appliedVersion = Len(versions) + 1]
        /\ Answer(p, "ok", Len(versions) + 1, None)
        /\ UNCHANGED <<check, event>>

ApplyScenario(p) ==
    LET s == op[p].scenario
    IN  /\ stage[p] = "plan"
        /\ op[p].kind = "apply"
        /\ seen[p].status = "draft"
        /\ scenario[s].baseline = seen[p].current
        /\ PublishVersion(p, Merge(versions[scenario[s].baseline].inputs, scenario[s].overlay),
                          versions[scenario[s].baseline].asOf, s)
        /\ scenario' = [scenario EXCEPT ![s].status = "applied",
                                        ![s].appliedVersion = Len(versions) + 1]
        /\ Answer(p, "ok", Len(versions) + 1, None)
        /\ UNCHANGED <<check, event>>

(* Mutant: the retry answers with the current version. *)
ApplyReplayedCurrent(p) ==
    /\ stage[p] = "plan"
    /\ op[p].kind = "apply"
    /\ seen[p].status = "applied"
    /\ Answer(p, "ok", current, None)
    /\ UNCHANGED tables

(* Applying a scenario again answers with the version it created. *)
ApplyReplayed(p) ==
    /\ stage[p] = "plan"
    /\ op[p].kind = "apply"
    /\ seen[p].status = "applied"
    /\ Answer(p, "ok", scenario[op[p].scenario].appliedVersion, None)
    /\ UNCHANGED tables

ApplyRefused(p) ==
    /\ stage[p] = "plan"
    /\ op[p].kind = "apply"
    /\ seen[p].status = "draft"
    /\ scenario[op[p].scenario].baseline # seen[p].current
    /\ Refuse(p, "SCENARIO_BASELINE_STALE")

-----------------------------------------------------------------------------
(* Drift checks *)

(* Mutant: no look-up of the canonical identity. *)
CreateCheckByKey(p) ==
    /\ stage[p] = "plan"
    /\ op[p].kind = "create_check"
    /\ op[p].baseline = seen[p].current
    /\ WithKey(op[p]) = {}
    /\ \E c \in Checks :
          /\ check[c].status = "absent"
          /\ check' = [check EXCEPT ![c] =
                         [status |-> "queued", baseline |-> op[p].baseline, key |-> op[p].key,
                          inputs |-> op[p].inputs, asOf |-> op[p].asOf, attempts |-> 0,
                          expired |-> FALSE]]
          /\ Answer(p, "ok", 0, c)
    /\ UNCHANGED <<versions, current, scenario, event>>

CreateCheck(p) ==
    /\ stage[p] = "plan"
    /\ op[p].kind = "create_check"
    /\ op[p].baseline = seen[p].current
    /\ WithKey(op[p]) = {}
    /\ Canonical(op[p]) = {}
    /\ \E c \in Checks :
          /\ check[c].status = "absent"
          /\ check' = [check EXCEPT ![c] =
                         [status |-> "queued", baseline |-> op[p].baseline, key |-> op[p].key,
                          inputs |-> op[p].inputs, asOf |-> op[p].asOf, attempts |-> 0,
                          expired |-> FALSE]]
          /\ Answer(p, "ok", 0, c)
    /\ UNCHANGED <<versions, current, scenario, event>>

(* An equal request, or an equal observation under another key, answers    *)
(* with the check that exists.                                             *)
CheckReplayed(p) ==
    /\ stage[p] = "plan"
    /\ op[p].kind = "create_check"
    /\ op[p].baseline = seen[p].current
    /\ \E c \in Checks :
          /\ \/ c \in WithKey(op[p]) /\ SameRequest(c, op[p])
             \/ WithKey(op[p]) = {} /\ c \in Canonical(op[p])
          /\ Answer(p, "ok", 0, c)
    /\ UNCHANGED tables

(* The baseline is compared before the idempotency key is looked up. *)
CheckRefused(p) ==
    /\ stage[p] = "plan"
    /\ op[p].kind = "create_check"
    /\ \/ /\ op[p].baseline # seen[p].current
          /\ Refuse(p, "DRIFT_BASELINE_STALE")
       \/ /\ op[p].baseline = seen[p].current
          /\ \E c \in WithKey(op[p]) : ~SameRequest(c, op[p])
          /\ Refuse(p, "DRIFT_IDEMPOTENCY_CONFLICT")

(* Mutant: every comparison becomes a pending event. *)
ProcessDriftCheckAlarming(w) ==
    LET c == op[w].check
    IN  /\ stage[w] = "row"
        /\ op[w].kind = "process"
        /\ \/ seen[w].status \in {"completed", "deleted"} /\ UNCHANGED <<check, event>>
           \/ /\ seen[w].status \in {"queued", "failed"}
              /\ check' = [check EXCEPT ![c].status = "completed", ![c].attempts = @ + 1]
              /\ event' = IF event[c].status \notin {"absent", "deleted"} THEN event
                          ELSE [event EXCEPT ![c] =
                                  [status |-> "pending",
                                   baseline |-> check[c].baseline, inputs |-> check[c].inputs,
                                   createdVersion |-> 0, expired |-> FALSE]]
        /\ Forget(w)
        /\ Release(w)
        /\ UNCHANGED <<versions, current, scenario>>

(* processDriftCheck, its transaction: the check row is locked and its     *)
(* status is known.  "running" is written and overwritten before the       *)
(* commit, so no other transaction ever reads it.  The baseline snapshot   *)
(* and the inputs of the check never change, and neither does the verdict. *)
(* When the connection breaks during the commit, the worker takes a        *)
(* committed transaction for a failed one (outcome "failing").             *)
ProcessDriftCheck(w) ==
    LET c == op[w].check
        material == <<versions[check[c].baseline].inputs, check[c].inputs>> \in Material
    IN  /\ stage[w] = "row"
        /\ op[w].kind = "process"
        /\ \/ seen[w].status \in {"completed", "deleted"} /\ UNCHANGED <<check, event>>
           \/ /\ seen[w].status \in {"queued", "failed"}
              /\ check' = [check EXCEPT ![c].status = "completed", ![c].attempts = @ + 1]
              /\ event' = IF event[c].status \notin {"absent", "deleted"} THEN event
                          ELSE [event EXCEPT ![c] =
                                  [status |-> IF material THEN "pending" ELSE "no_change",
                                   baseline |-> check[c].baseline, inputs |-> check[c].inputs,
                                   createdVersion |-> 0, expired |-> FALSE]]
        /\ \/ Forget(w)
           \/ stage' = [stage EXCEPT ![w] = "failing"] /\ UNCHANGED <<op, seen, reply>>
        /\ Release(w)
        /\ UNCHANGED <<versions, current, scenario>>

(* The evaluation or a statement throws: everything so far rolls back. *)
RollBack(w) ==
    /\ stage[w] \in {"begun", "row"}
    /\ op[w].kind = "process"
    /\ stage' = [stage EXCEPT ![w] = "failing"]
    /\ Release(w)
    /\ UNCHANGED <<tables, op, seen, reply>>

(* The catch block: one UPDATE outside the transaction, by id alone. *)
MarkFailed(w) ==
    LET c == op[w].check
    IN  /\ stage[w] = "failing"
        /\ op[w].kind = "process"
        /\ Free(CheckRow(c))
        /\ check' = IF Live(c)
                    THEN [check EXCEPT ![c].status = "failed", ![c].attempts = @ + 1]
                    ELSE check
        /\ Forget(w)
        /\ UNCHANGED <<versions, current, scenario, event, lock>>

-----------------------------------------------------------------------------
(* Drift events *)

(* Mutant: an event is accepted whatever the plan has become. *)
AcceptDriftEventStale(p) ==
    LET c == op[p].check
    IN  /\ stage[p] = "plan"
        /\ op[p].kind = "accept"
        /\ seen[p].status = "pending"
        /\ check[c].status = "completed"
        /\ PublishVersion(p, event[c].inputs, check[c].asOf, c)
        /\ event' = [event EXCEPT ![c].status = "accepted", ![c].expired = FALSE,
                                  ![c].createdVersion = Len(versions) + 1]
        /\ Answer(p, "ok", Len(versions) + 1, None)
        /\ UNCHANGED <<scenario, check>>

AcceptDriftEvent(p) ==
    LET c == op[p].check
    IN  /\ stage[p] = "plan"
        /\ op[p].kind = "accept"
        /\ seen[p].status = "pending"
        /\ event[c].baseline = seen[p].current
        /\ check[c].status = "completed"
        /\ check[c].baseline = event[c].baseline
        /\ check[c].inputs = event[c].inputs
        /\ <<versions[event[c].baseline].inputs, event[c].inputs>> \in Material
        /\ PublishVersion(p, event[c].inputs, check[c].asOf, c)
        /\ event' = [event EXCEPT ![c].status = "accepted", ![c].expired = FALSE,
                                  ![c].createdVersion = Len(versions) + 1]
        /\ Answer(p, "ok", Len(versions) + 1, None)
        /\ UNCHANGED <<scenario, check>>

(* Accepting an event again answers with the version it created. *)
AcceptReplayed(p) ==
    /\ stage[p] = "plan"
    /\ op[p].kind = "accept"
    /\ seen[p].status = "accepted"
    /\ Answer(p, "ok", event[op[p].check].createdVersion, None)
    /\ UNCHANGED tables

AcceptRefused(p) ==
    LET c == op[p].check
    IN  /\ stage[p] = "plan"
        /\ op[p].kind = "accept"
        /\ \/ /\ seen[p].status = "deleted"
              /\ Refuse(p, "DRIFT_EVENT_NOT_FOUND")
           \/ /\ seen[p].status \in {"kept", "no_change"}
              /\ Refuse(p, "DRIFT_ALREADY_RESOLVED")
           \/ /\ seen[p].status = "pending"
              /\ event[c].baseline # seen[p].current
              /\ Refuse(p, "DRIFT_BASELINE_STALE")
           \/ /\ seen[p].status = "pending"
              /\ event[c].baseline = seen[p].current
              /\ check[c].status # "completed"
              /\ Refuse(p, "DRIFT_CHECK_NOT_COMPLETED")

(* Keeping takes the lock of the event row and no other. *)
KeepDriftEvent(p) ==
    /\ stage[p] = "row"
    /\ op[p].kind = "keep"
    /\ seen[p].status = "pending"
    /\ event' = [event EXCEPT ![op[p].check].status = "kept"]
    /\ Answer(p, "ok", 0, None)
    /\ UNCHANGED <<versions, current, scenario, check>>

KeepReplayed(p) ==
    /\ stage[p] = "row"
    /\ op[p].kind = "keep"
    /\ seen[p].status = "kept"
    /\ Answer(p, "ok", 0, None)
    /\ UNCHANGED tables

KeepRefused(p) ==
    /\ stage[p] = "row"
    /\ op[p].kind = "keep"
    /\ seen[p].status \in {"accepted", "no_change", "deleted"}
    /\ Refuse(p, IF seen[p].status = "deleted" THEN "DRIFT_EVENT_NOT_FOUND"
                 ELSE "DRIFT_ALREADY_RESOLVED")

-----------------------------------------------------------------------------
(* Retention.  A check is stamped for 90 days when it is created, its      *)
(* event when it is inserted, so the event's deadline is the later one; an *)
(* accepted event has none.  A job is finished long before the deadline.   *)

Processing(c) == \E w \in Workers : stage[w] # "idle" /\ op[w].check = c

ExpireCheck(c) ==
    /\ Live(c)
    /\ c \in Aging
    /\ ~check[c].expired
    /\ ~Processing(c)
    /\ check' = [check EXCEPT ![c].expired = TRUE]
    /\ UNCHANGED <<versions, current, scenario, event, lock, process>>

ExpireEvent(c) ==
    /\ event[c].status \notin {"absent", "accepted", "deleted"}
    /\ ~event[c].expired
    /\ check[c].expired
    /\ event' = [event EXCEPT ![c].expired = TRUE]
    /\ UNCHANGED <<versions, current, scenario, check, lock, process>>

(* The cleanup is two statements, each a SELECT of a batch and a DELETE    *)
(* that checks its WHERE clause again, on rows nobody holds; what became   *)
(* unfit in between is left out of the batch.  The cleanup may die between *)
(* its statements, and rows expire between them, so they come in any order.*)
Batches(S) == {B \in SUBSET S : B # {} /\ Cardinality(B) <= BatchSize}

CleanupEvents ==
    /\ \E B \in Batches({c \in Checks : event[c].status \in {"kept", "no_change"}
                                      /\ event[c].expired}) :
          /\ \A c \in B : Free(EventRow(c))
          /\ event' = [c \in Checks |->
                         IF c \in B THEN [event[c] EXCEPT !.status = "deleted"] ELSE event[c]]
    /\ UNCHANGED <<versions, current, scenario, check, lock, process>>

(* Mutant: a check goes although its event waits for a decision. *)
CleanupChecksUnlinked ==
    /\ \E B \in Batches({c \in Checks : check[c].status \in {"completed", "failed"}
                                      /\ check[c].expired}) :
          /\ \A c \in B : Free(CheckRow(c)) /\ Free(EventRow(c))
          /\ check' = [c \in Checks |->
                         IF c \in B THEN [check[c] EXCEPT !.status = "deleted"] ELSE check[c]]
          /\ event' = [c \in Checks |->
                         IF c \in B /\ event[c].status # "absent"
                         THEN [event[c] EXCEPT !.status = "deleted"] ELSE event[c]]
    /\ UNCHANGED <<versions, current, scenario, lock, process>>

(* Deleting a check deletes its event (on delete cascade). *)
CleanupChecks ==
    /\ \E B \in Batches({c \in Checks : /\ check[c].status \in {"completed", "failed"}
                                      /\ check[c].expired
                                      /\ event[c].status \notin {"pending", "accepted"}}) :
          /\ \A c \in B : Free(CheckRow(c)) /\ Free(EventRow(c))
          /\ check' = [c \in Checks |->
                         IF c \in B THEN [check[c] EXCEPT !.status = "deleted"] ELSE check[c]]
          /\ event' = [c \in Checks |->
                         IF c \in B /\ event[c].status # "absent"
                         THEN [event[c] EXCEPT !.status = "deleted"] ELSE event[c]]
    /\ UNCHANGED <<versions, current, scenario, lock, process>>

-----------------------------------------------------------------------------

Init ==
    /\ versions = <<>>
    /\ current = 0
    /\ scenario = [s \in Scenarios |-> NoScenario]
    /\ check = [c \in Checks |-> NoCheck]
    /\ event = [c \in Checks |-> NoEvent]
    /\ lock = [r \in Resources |-> None]
    /\ stage = [p \in Processes |-> "idle"]
    /\ op = [p \in Processes |-> Idle]
    /\ seen = [p \in Processes |-> Nothing]
    /\ reply = [p \in Processes |-> NoReply]

Commit(p) ==
    \/ RecalculatePlan(p)
    \/ CreateScenario(p) \/ NoCurrentPlan(p)
    \/ ApplyScenario(p) \/ ApplyReplayed(p) \/ ApplyRefused(p)
    \/ CreateCheck(p) \/ CheckReplayed(p) \/ CheckRefused(p)
    \/ AcceptDriftEvent(p) \/ AcceptReplayed(p) \/ AcceptRefused(p)
    \/ KeepDriftEvent(p) \/ KeepReplayed(p) \/ KeepRefused(p)

Locking(p) == LockHousehold(p) \/ LockRow(p) \/ LockPlan(p)

Next ==
    \/ \E p \in Clients :
          \/ \E o \in Sendable : Begin(p, o)
          \/ Locking(p) \/ ReadPlan(p) \/ Commit(p)
          \/ Finish(p) \/ Crash(p)
    \/ \E w \in Workers :
          \/ \E o \in Deliverable : Begin(w, o)
          \/ LockRow(w) \/ ProcessDriftCheck(w) \/ RollBack(w) \/ MarkFailed(w) \/ Crash(w)
    \/ \E c \in Checks : ExpireCheck(c) \/ ExpireEvent(c)
    \/ CleanupEvents
    \/ CleanupChecks

Spec == Init /\ [][Next]_vars

(* PostgreSQL queues the waiters of a lock, so nobody waits for one that   *)
(* is released again and again; a transaction that has its locks and a     *)
(* worker in its catch block go on.  Nothing forces a client to send a     *)
(* request, and any process may still crash.                               *)
Fairness ==
    /\ \A p \in Clients :
          /\ SF_vars(LockHousehold(p))
          /\ SF_vars(LockRow(p))
          /\ SF_vars(LockPlan(p))
          /\ WF_vars(ReadPlan(p))
          /\ WF_vars(Commit(p))
    /\ \A w \in Workers :
          /\ WF_vars(ProcessDriftCheck(w))
          /\ SF_vars(MarkFailed(w))

FairSpec == Spec /\ Fairness

-----------------------------------------------------------------------------
(* Properties *)

Stages == {"idle", "begun", "household", "row", "plan", "replied", "failing"}
Statuses ==
    {"absent", "draft", "applied", "queued", "completed", "failed", "pending", "no_change",
     "kept", "accepted", "deleted"}
Codes ==
    {"none", "ok", "NO_CURRENT_PLAN", "SCENARIO_BASELINE_STALE", "DRIFT_BASELINE_STALE",
     "DRIFT_IDEMPOTENCY_CONFLICT", "DRIFT_EVENT_NOT_FOUND", "DRIFT_ALREADY_RESOLVED",
     "DRIFT_CHECK_NOT_COMPLETED"}

(* Every row has the shape of its table, and what a row refers to exists:  *)
(* a scenario, check or event has a version as its baseline, and a live    *)
(* check has its date.                                                     *)
TablesTyped ==
    /\ versions \in Seq(Versions)
    /\ current \in Nat
    /\ scenario \in [Scenarios -> ScenarioRows]
    /\ check \in [Checks -> CheckRows]
    /\ event \in [Checks -> EventRows]
    /\ \A s \in Scenarios :
          scenario[s].status # "absent" => scenario[s].baseline \in 1..Len(versions)
    /\ \A c \in Checks :
          /\ check[c].status # "absent" =>
                check[c].baseline \in 1..Len(versions) /\ check[c].asOf \in Dates
          /\ event[c].status # "absent" => event[c].baseline \in 1..Len(versions)

ProcessesTyped ==
    /\ lock \in [Resources -> Processes \cup {None}]
    /\ stage \in [Processes -> Stages]
    /\ op \in [Processes -> Requests \cup Jobs \cup {Idle}]
    /\ seen \in [Processes -> [current : Nat, number : Nat, status : Statuses]]
    /\ reply \in [Processes -> [code : Codes, version : Nat, check : Checks \cup {None}]]

TypeOK == TablesTyped /\ ProcessesTyped

(* The version a decision published directly follows the version it was    *)
(* proposed against, and holds what was decided on: that version's inputs  *)
(* under the overlay, or the observation of the check.                     *)
FollowsItsBasis(i) ==
    LET v == versions[i]
    IN  /\ v.number = i
        /\ v.origin \in Scenarios =>
              /\ i > 1
              /\ scenario[v.origin].baseline = i - 1
              /\ v.inputs = Merge(versions[i - 1].inputs, scenario[v.origin].overlay)
              /\ v.asOf = versions[i - 1].asOf
        /\ v.origin \in Checks =>
              /\ i > 1
              /\ event[v.origin].baseline = i - 1
              /\ v.inputs = event[v.origin].inputs
              /\ v.asOf = check[v.origin].asOf

(* Nobody's decision overwrites a plan its author had not seen, whatever   *)
(* applyScenario, acceptDriftEvent and recalculatePlan run side by side,   *)
(* and the plan points at its last version.                                *)
DecisionsFollowTheirBasis ==
    /\ current = Len(versions)
    /\ \A i \in 1..Len(versions) : FollowsItsBasis(i)

(* A scenario is applied, and an event accepted, exactly when one version  *)
(* came from it, and its row names that version: no retry makes a second   *)
(* one, and an event that was kept never changes the plan.                 *)
OneVersionPerDecision ==
    /\ \A i, j \in 1..Len(versions) :
          versions[i].origin = versions[j].origin => i = j \/ versions[i].origin = None
    /\ \A s \in Scenarios :
          scenario[s].status = "applied" <=> \E i \in 1..Len(versions) : versions[i].origin = s
    /\ \A c \in Checks :
          event[c].status = "accepted" <=> \E i \in 1..Len(versions) : versions[i].origin = c
    /\ \A s \in Scenarios : scenario[s].status = "applied" =>
          /\ scenario[s].appliedVersion \in 1..Len(versions)
          /\ versions[scenario[s].appliedVersion].origin = s
    /\ \A c \in Checks : event[c].status = "accepted" =>
          /\ event[c].createdVersion \in 1..Len(versions)
          /\ versions[event[c].createdVersion].origin = c

(* What a successful answer names is what this request asked for, however  *)
(* often it was retried and whatever happened to the plan since: the       *)
(* version of this scenario or event, a check of this observation.         *)
AnswersNameTheirDecision ==
    \A p \in Clients : stage[p] = "replied" /\ reply[p].code = "ok" =>
        /\ op[p].kind = "apply" =>
              /\ reply[p].version \in 1..Len(versions)
              /\ versions[reply[p].version].origin = op[p].scenario
        /\ op[p].kind = "accept" =>
              /\ reply[p].version \in 1..Len(versions)
              /\ versions[reply[p].version].origin = op[p].check
        /\ op[p].kind = "create_check" =>
              /\ reply[p].check \in Checks
              /\ check[reply[p].check].baseline = op[p].baseline
              /\ check[reply[p].check].inputs = op[p].inputs

(* Two live checks never stand for the same observation or the same key.   *)
ChecksAreDistinct ==
    \A c, d \in Checks : c # d /\ Live(c) /\ Live(d) =>
        /\ check[c].key # check[d].key
        /\ check[c].baseline # check[d].baseline \/ check[c].inputs # check[d].inputs

(* An event carries the observation of its check, and as long as somebody  *)
(* may still decide on it, or has accepted it, the cleanup leaves both     *)
(* rows alone and the user's verdict is about a material change.           *)
EventMatchesItsCheck ==
    \A c \in Checks :
        /\ event[c].status # "absent" =>
              event[c].baseline = check[c].baseline /\ event[c].inputs = check[c].inputs
        /\ event[c].status \in {"pending", "kept", "accepted"} =>
              <<versions[event[c].baseline].inputs, event[c].inputs>> \in Material
        /\ event[c].status \in {"pending", "accepted"} => Live(c)

(* An event is inserted once and resolved once: pending becomes kept or    *)
(* accepted and nothing else, and only the cleanup removes what was kept   *)
(* or immaterial.                                                          *)
Resolution ==
    {<<"absent", "pending">>, <<"absent", "no_change">>, <<"pending", "kept">>,
     <<"pending", "accepted">>, <<"kept", "deleted">>, <<"no_change", "deleted">>}

EventsResolveOnce ==
    [][\A c \in Checks :
          \/ event'[c].status = event[c].status
          \/ <<event[c].status, event'[c].status>> \in Resolution]_event

(* The tables implement the abstract history: the origins of the versions, *)
(* the pointer, and the baselines of scenarios and events.                 *)
Origins == [i \in 1..Len(versions) |-> versions[i].origin]
Basis ==
    [x \in Scenarios \cup Checks |->
        IF x \in Scenarios THEN scenario[x].baseline ELSE event[x].baseline]

History ==
    INSTANCE PlanHistory WITH
        Proposals <- Scenarios \cup Checks, history <- Origins, basis <- Basis

ImplementsHistory == History!Spec

(* What the operations rely on between their steps.  The kinds of request  *)
(* each process serves, and the rows its request names, which never vanish *)
(* back to "absent":                                                       *)
Naming ==
    /\ \A p \in Clients : op[p] \in Requests \cup {Idle}
    /\ \A w \in Workers : op[w] \in Jobs \cup {Idle}
    /\ \A p \in Processes :
          /\ op[p].kind = "apply" => scenario[op[p].scenario].status # "absent"
          /\ op[p].kind \in {"accept", "keep"} => event[op[p].check].status # "absent"
          /\ op[p].kind = "process" => check[op[p].check].status # "absent"
          /\ op[p].kind = "create_check" => op[p].baseline \in 1..Len(versions)
    /\ \A c \in Checks : event[c].status # "absent" => check[c].status # "absent"

(* The locks a process holds at each stage. *)
Targeting == {"apply", "accept", "keep", "process"}

Holds(p) ==
    /\ stage[p] \in {"household", "row", "plan"} /\ op[p].kind \in HouseholdKinds =>
          lock[Household] = p
    /\ stage[p] \in {"row", "plan"} /\ op[p].kind \in Targeting => lock[TargetRow(op[p])] = p

Holding == \A p \in Processes : Holds(p)

(* What a transaction has read under its locks is still so when it         *)
(* commits, whatever other requests, workers and the cleanup did since; an *)
(* event it found deleted may have been inserted again.                    *)
SeesTruth(p) ==
    /\ seen[p].current \in 0..Len(versions)
    /\ stage[p] = "plan" /\ op[p].kind \in HouseholdKinds =>
          seen[p].current = current /\ seen[p].number = Len(versions) + 1
    /\ stage[p] \in {"row", "plan"} /\ op[p].kind \in Targeting =>
          \/ seen[p].status = StatusOf(op[p])
          \/ op[p].kind \in {"accept", "keep"} /\ seen[p].status = "deleted"

ReadsStayTrue == \A p \in Processes : SeesTruth(p)

(* No two operations wait for each other's locks and no lock is lost: a    *)
(* request that was received is answered, or its process failed.           *)
RequestsAreAnswered ==
    \A p \in Clients : stage[p] = "begun" ~> stage[p] \in {"replied", "idle"}

(* U7-SPEC.md:33, "Failed checks create no event".                         *)
FailedChecksHaveNoEvent ==
    \A c \in Checks : check[c].status = "failed" => event[c].status = "absent"

(* U7-SPEC.md:63, "the same key and same canonical request returns the     *)
(* original check".                                                        *)
ReplayReturnsTheCheck ==
    \A p \in Clients :
        /\ stage[p] = "replied"
        /\ op[p].kind = "create_check"
        /\ \E c \in WithKey(op[p]) : SameRequest(c, op[p])
        => reply[p].code = "ok"

=============================================================================
