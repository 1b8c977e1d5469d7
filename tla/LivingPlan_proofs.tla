--------------------------- MODULE LivingPlan_proofs ---------------------------
(***************************************************************************)
(* The living plan, for any number of clients, workers, scenarios and      *)
(* checks.  The first part proves its inductive invariant, Basics: every   *)
(* operation keeps rows and processes typed, and a transaction's reads     *)
(* stay true, because a step that changes something another transaction    *)
(* has read holds the lock of it, which the other would have to hold too.  *)
(* The second part proves what the plan promises on top of it: at the      *)
(* moment a transaction publishes, what it has read under its locks is     *)
(* still so; hence every decision follows the version it was made against  *)
(* and makes no second one, and the tables implement the abstract plan     *)
(* history.                                                                *)
(***************************************************************************)
EXTENDS LivingPlan, TLAPS

(* The plan points at its last version, and numbers have no gaps. *)
Counting ==
    /\ current = Len(versions)
    /\ \A i \in 1..Len(versions) : versions[i].number = i

(* The largest of 0..n is n. *)
LEMMA LargestOfInterval ==
    ASSUME NEW n \in Nat
    PROVE  (CHOOSE m \in 0..n : \A k \in 0..n : k <= m) = n
<1> DEFINE P(m) == m \in 0..n /\ \A k \in 0..n : k <= m
<1>1. P(n)
  OBVIOUS
<1>2. P(CHOOSE m : P(m))
  <2> HIDE DEF P
  <2> QED BY <1>1
<1>3. (CHOOSE m \in 0..n : \A k \in 0..n : k <= m) = (CHOOSE m : P(m))
  OBVIOUS
<1> QED
  BY <1>2, <1>3

(* While version numbers count the versions, the next number is the length plus one. *)
LEMMA NextNumber ==
    ASSUME versions \in Seq(Versions), Counting
    PROVE  NextVersionNumber = Len(versions) + 1
<1>1. Len(versions) \in Nat
  OBVIOUS
<1>2. {versions[i].number : i \in 1..Len(versions)} \cup {0} = 0..Len(versions)
  BY <1>1 DEF Counting
<1>3. NextVersionNumber = 1 + CHOOSE m \in 0..Len(versions) : \A n \in 0..Len(versions) : n <= m
  BY <1>2 DEF NextVersionNumber
<1> QED
  BY <1>1, <1>3, LargestOfInterval

(* mergeScenarioInputs returns inputs. *)
LEMMA MergeType ==
    ASSUME NEW a \in Inputs, NEW b \in Inputs
    PROVE  Merge(a, b) \in Inputs
BY DEF Merge, Inputs

(* A row not inserted yet has the shape of its table. *)
LEMMA BlankRows ==
    /\ Blank \in Inputs
    /\ NoScenario \in ScenarioRows
    /\ NoCheck \in CheckRows
    /\ NoEvent \in EventRows
<1>1. Blank \in Inputs
  BY DEF Blank, Inputs
<1> QED
  BY <1>1 DEF NoScenario, NoCheck, NoEvent, ScenarioRows, CheckRows, EventRows

(* The empty database is typed. *)
LEMMA InitTypeOK == Init => TypeOK
<1> SUFFICES ASSUME Init PROVE TypeOK
  OBVIOUS
<1> USE DEF Init
<1>1. versions \in Seq(Versions) /\ current \in Nat
  OBVIOUS
<1>2. scenario \in [Scenarios -> ScenarioRows] /\ check \in [Checks -> CheckRows] /\ event \in [Checks -> EventRows]
  BY BlankRows
<1>3. lock \in [Resources -> Processes \cup {None}]
  OBVIOUS
<1>4. op \in [Processes -> Requests \cup Jobs \cup {Idle}] /\ stage \in [Processes -> Stages]
  BY DEF Stages
<1>5. seen \in [Processes -> [current : Nat, number : Nat, status : Statuses]]
  BY DEF Nothing, Statuses
<1>6. reply \in [Processes -> [code : Codes, version : Nat, check : Checks \cup {None}]]
  BY DEF NoReply, Codes
<1> QED BY <1>1, <1>2, <1>3, <1>4, <1>5, <1>6 DEF TypeOK, TablesTyped, ProcessesTyped, NoScenario, NoCheck, NoEvent

(* Answering a request keeps the processes typed. *)
LEMMA AnswerTyped ==
    ASSUME ProcessesTyped, NEW p \in Processes, NEW code \in Codes, NEW v \in Nat,
           NEW c \in Checks \cup {None}, Answer(p, code, v, c)
    PROVE  ProcessesTyped'
BY DEF Answer, Release, ProcessesTyped, Stages

(* So does ending a transaction without an answer. *)
LEMMA ForgetTyped ==
    ASSUME ProcessesTyped, NEW p \in Processes, Forget(p), Release(p) \/ UNCHANGED lock
    PROVE  ProcessesTyped'
<1>1. Nothing \in [current : Nat, number : Nat, status : Statuses]
  BY DEF Nothing, Statuses
<1>2. NoReply \in [code : Codes, version : Nat, check : Checks \cup {None}]
  BY DEF NoReply, Codes
<1> QED
  BY <1>1, <1>2 DEF Forget, Release, ProcessesTyped, Stages

(* Taking the advisory lock. *)
LEMMA LockHouseholdTyped ==
    ASSUME ProcessesTyped, NEW p \in Processes, LockHousehold(p)
    PROVE  ProcessesTyped'
BY DEF LockHousehold, Take, ProcessesTyped, Stages, Resources

(* The fields of a request or job, by its kind. *)
LEMMA OperationShape ==
    ASSUME NEW o \in Requests \cup Jobs \cup {Idle}
    PROVE  /\ o.kind \in {"recalculate", "create_scenario", "apply", "create_check", "accept",
                          "keep", "process", "none"}
           /\ o.kind = "recalculate" => o.inputs \in Inputs /\ o.asOf \in Dates
           /\ o.kind = "create_scenario" => o.overlay \in Inputs
           /\ o.kind = "apply" => o.scenario \in Scenarios
           /\ o.kind = "create_check" =>
                 o.baseline \in Nat /\ o.key \in Keys /\ o.inputs \in Inputs /\ o.asOf \in Dates
           /\ o.kind \in {"accept", "keep", "process"} => o.check \in Checks
BY DEF Requests, Jobs, Idle

(* The row an operation locks is one, and its status is a status. *)
LEMMA TargetTyped ==
    ASSUME TypeOK, NEW o \in Requests \cup Jobs \cup {Idle},
           o.kind \in {"apply", "accept", "keep", "process"}
    PROVE  TargetRow(o) \in Resources /\ StatusOf(o) \in Statuses
<1>1. CASE o.kind = "apply"
  <2>1. o.scenario \in Scenarios
    BY <1>1, OperationShape
  <2>2. TargetRow(o) = ScenarioRow(o.scenario) /\ StatusOf(o) = scenario[o.scenario].status
    BY <1>1 DEF TargetRow, StatusOf
  <2>3. scenario[o.scenario] \in ScenarioRows
    BY <2>1 DEF TypeOK, TablesTyped
  <2> QED
    BY <2>1, <2>2, <2>3 DEF Resources, ScenarioRows, Statuses
<1>2. CASE o.kind \in {"accept", "keep"}
  <2>1. o.check \in Checks
    BY <1>2, OperationShape
  <2>2. TargetRow(o) = EventRow(o.check) /\ StatusOf(o) = event[o.check].status
    BY <1>2 DEF TargetRow, StatusOf
  <2>3. event[o.check] \in EventRows
    BY <2>1 DEF TypeOK, TablesTyped
  <2> QED
    BY <2>1, <2>2, <2>3 DEF Resources, EventRows, Statuses
<1>3. CASE o.kind = "process"
  <2>1. o.check \in Checks
    BY <1>3, OperationShape
  <2>2. TargetRow(o) = CheckRow(o.check) /\ StatusOf(o) = check[o.check].status
    BY <1>3 DEF TargetRow, StatusOf
  <2>3. check[o.check] \in CheckRows
    BY <2>1 DEF TypeOK, TablesTyped
  <2> QED
    BY <2>1, <2>2, <2>3 DEF Resources, CheckRows, Statuses
<1> QED
  BY <1>1, <1>2, <1>3

(* Taking the lock of a scenario, event or check. *)
LEMMA LockRowTyped ==
    ASSUME TypeOK, NEW p \in Processes, LockRow(p)
    PROVE  ProcessesTyped'
<1>1. op[p] \in Requests \cup Jobs \cup {Idle} /\ op[p].kind \in {"apply", "accept", "keep", "process"}
  BY DEF LockRow, TypeOK, ProcessesTyped
<1>2. TargetRow(op[p]) \in Resources /\ StatusOf(op[p]) \in Statuses
  BY <1>1, TargetTyped
<1> QED
  BY <1>2 DEF LockRow, Take, TypeOK, ProcessesTyped, Stages

(* Taking the lock of the plan row. *)
LEMMA LockPlanTyped ==
    ASSUME TypeOK, Counting, NEW p \in Processes, LockPlan(p)
    PROVE  ProcessesTyped'
<1>1. NextVersionNumber \in Nat
  BY NextNumber DEF TypeOK, TablesTyped
<1> QED
  BY ZenonT(30), <1>1 DEF LockPlan, Take, TypeOK, TablesTyped, ProcessesTyped, Stages, Resources

(* Reading the plan without a lock. *)
LEMMA ReadPlanTyped ==
    ASSUME TypeOK, NEW p \in Processes, ReadPlan(p)
    PROVE  ProcessesTyped'
BY DEF ReadPlan, TypeOK, TablesTyped, ProcessesTyped, Stages

(* A request a client can send is typed and names rows that exist. *)
LEMMA SendableNamed ==
    ASSUME TypeOK, NEW o \in Sendable
    PROVE  /\ o \in Requests
           /\ o.kind = "apply" => scenario[o.scenario].status # "absent"
           /\ o.kind \in {"accept", "keep"} => event[o.check].status # "absent"
           /\ o.kind # "process"
           /\ o.kind = "create_check" => o.baseline \in 1..Len(versions)
<1> USE DEF Requests
<1>1. CASE o \in {[kind |-> "recalculate", inputs |-> r.inputs, asOf |-> r.asOf] :
                     r \in IF SpareVersions THEN Recalculations ELSE {}}
  BY <1>1, RequestsAreTyped DEF Dates
<1>2. CASE o \in {[kind |-> "create_scenario", overlay |-> v] :
                     v \in IF SpareScenarios THEN Overlays ELSE {}}
  BY <1>2, RequestsAreTyped
<1>3. CASE o \in {[kind |-> "apply", scenario |-> s] :
                     s \in {x \in Scenarios : scenario[x].status # "absent"}}
  BY <1>3
<1>4. CASE o \in {[kind |-> "create_check", baseline |-> v, key |-> r.key,
                   inputs |-> r.inputs, asOf |-> r.asOf] :
                     v \in 1..Len(versions), r \in CheckRequests}
  <2>1. PICK v \in 1..Len(versions), r \in CheckRequests :
           o = [kind |-> "create_check", baseline |-> v, key |-> r.key,
                inputs |-> r.inputs, asOf |-> r.asOf]
    BY <1>4
  <2>2. v \in Nat /\ r.key \in Keys /\ r.inputs \in Inputs /\ r.asOf \in Dates
    BY RequestsAreTyped DEF Keys, Dates, TypeOK, TablesTyped
  <2> QED
    BY <2>1, <2>2
<1>5. CASE o \in {[kind |-> k, check |-> c] :
                     k \in {"accept", "keep"}, c \in {x \in Checks : event[x].status # "absent"}}
  BY <1>5
<1> QED
  BY <1>1, <1>2, <1>3, <1>4, <1>5 DEF Sendable

(* A job that can be delivered names a check that exists. *)
LEMMA DeliverableNamed ==
    ASSUME NEW o \in Deliverable
    PROVE  o \in Jobs /\ o.kind = "process" /\ check[o.check].status # "absent"
BY DEF Deliverable, Jobs

(* A request or job begins. *)
LEMMA BeginTyped ==
    ASSUME TypeOK, NEW p \in Processes, NEW o \in Requests \cup Jobs, Begin(p, o)
    PROVE  ProcessesTyped'
BY DEF Begin, TypeOK, ProcessesTyped, Stages

(* Publishing *)
LEMMA PublishTyped ==
    ASSUME TypeOK, NEW p \in Processes, NEW inputs \in Inputs, NEW asOf \in Dates,
           NEW origin \in Scenarios \cup Checks \cup {None},
           PublishVersion(p, inputs, asOf, origin)
    PROVE  /\ versions' \in Seq(Versions)
           /\ current' \in Nat
           /\ Len(versions') = Len(versions) + 1
           /\ 1..Len(versions) \subseteq 1..Len(versions')
           /\ \A i \in 1..Len(versions) : versions'[i] = versions[i]
           /\ versions'[Len(versions) + 1] =
                 [number |-> seen[p].number, inputs |-> inputs, asOf |-> asOf, origin |-> origin]
<1>1. [number |-> seen[p].number, inputs |-> inputs, asOf |-> asOf, origin |-> origin] \in Versions
  BY DEF TypeOK, ProcessesTyped, Versions
<1> QED
  BY <1>1 DEF PublishVersion, TypeOK, TablesTyped

(* recalculatePlan keeps the tables typed. *)
LEMMA RecalculatePlanTyped ==
    ASSUME TypeOK, NEW p \in Processes, RecalculatePlan(p)
    PROVE  TypeOK'
<1>1. op[p].inputs \in Inputs /\ op[p].asOf \in Dates
  BY OperationShape DEF RecalculatePlan, TypeOK, ProcessesTyped
<1>2. /\ versions' \in Seq(Versions)
      /\ current' \in Nat
      /\ 1..Len(versions) \subseteq 1..Len(versions')
  BY <1>1, PublishTyped DEF RecalculatePlan
<1>3. ProcessesTyped'
  <2>1. ProcessesTyped /\ "ok" \in Codes /\ Len(versions) + 1 \in Nat
    BY DEF TypeOK, TablesTyped, Codes
  <2> QED
    BY <2>1, AnswerTyped DEF RecalculatePlan
<1> QED
  BY <1>2, <1>3 DEF RecalculatePlan, TypeOK, TablesTyped

(* createScenario keeps the tables typed. *)
LEMMA CreateScenarioTyped ==
    ASSUME TypeOK, ReadsStayTrue, NEW p \in Processes, CreateScenario(p)
    PROVE  TypeOK'
<1>1. op[p].overlay \in Inputs
  BY OperationShape DEF CreateScenario, TypeOK, ProcessesTyped
<1>2. seen[p].current \in 1..Len(versions)
  BY DEF CreateScenario, ReadsStayTrue, SeesTruth, TypeOK, TablesTyped, ProcessesTyped
<1>3. ProcessesTyped'
  BY AnswerTyped DEF CreateScenario, TypeOK, Codes
<1> QED
  BY <1>1, <1>2, <1>3 DEF CreateScenario, TypeOK, TablesTyped, ScenarioRows

(* applyScenario keeps the tables typed. *)
LEMMA ApplyScenarioTyped ==
    ASSUME TypeOK, ReadsStayTrue, NEW p \in Processes, ApplyScenario(p)
    PROVE  TypeOK'
<1> DEFINE s == op[p].scenario
<1>1. s \in Scenarios /\ scenario[s] \in ScenarioRows
  BY OperationShape DEF ApplyScenario, TypeOK, TablesTyped, ProcessesTyped
<1>2. scenario[s].status = "draft"
  BY DEF ApplyScenario, ReadsStayTrue, SeesTruth, Targeting, StatusOf
<1>3. versions[scenario[s].baseline] \in Versions
  BY <1>1, <1>2 DEF TypeOK, TablesTyped
<1>4. /\ Merge(versions[scenario[s].baseline].inputs, scenario[s].overlay) \in Inputs
      /\ versions[scenario[s].baseline].asOf \in Dates
  BY <1>1, <1>3, MergeType DEF Versions, ScenarioRows
<1>5. /\ versions' \in Seq(Versions)
      /\ current' \in Nat
      /\ 1..Len(versions) \subseteq 1..Len(versions')
  BY <1>1, <1>4, PublishTyped DEF ApplyScenario
<1>6. Len(versions) + 1 \in Nat
  BY DEF TypeOK, TablesTyped
<1>7. ProcessesTyped'
  <2>1. ProcessesTyped /\ "ok" \in Codes
    BY DEF TypeOK, Codes
  <2> QED
    BY <1>6, <2>1, AnswerTyped DEF ApplyScenario
<1> QED
  BY <1>1, <1>2, <1>5, <1>6, <1>7 DEF ApplyScenario, TypeOK, TablesTyped, ScenarioRows

(* createOrDeduplicateCheck keeps the tables typed. *)
LEMMA CreateCheckTyped ==
    ASSUME TypeOK, Naming, NEW p \in Processes, CreateCheck(p)
    PROVE  TypeOK'
<1>1. /\ op[p].baseline \in 1..Len(versions) /\ op[p].key \in Keys
      /\ op[p].inputs \in Inputs /\ op[p].asOf \in Dates
  BY OperationShape DEF CreateCheck, Naming, TypeOK, ProcessesTyped
<1>2. PICK c \in Checks :
         /\ check' = [check EXCEPT ![c] =
                         [status |-> "queued", baseline |-> op[p].baseline, key |-> op[p].key,
                          inputs |-> op[p].inputs, asOf |-> op[p].asOf, attempts |-> 0,
                          expired |-> FALSE]]
         /\ Answer(p, "ok", 0, c)
  BY DEF CreateCheck
<1>3. [status |-> "queued", baseline |-> op[p].baseline, key |-> op[p].key,
       inputs |-> op[p].inputs, asOf |-> op[p].asOf, attempts |-> 0, expired |-> FALSE]
         \in CheckRows
  BY <1>1 DEF CheckRows, TypeOK, TablesTyped
<1>4. ProcessesTyped'
  BY <1>2, AnswerTyped DEF TypeOK, Codes
<1> QED
  BY <1>1, <1>2, <1>3, <1>4 DEF CreateCheck, TypeOK, TablesTyped

(* A check row whose status and attempts change is still a check row. *)
LEMMA AttemptCounted ==
    ASSUME TypeOK, NEW c \in Checks, check[c].status # "absent",
           NEW status \in {"completed", "failed"},
           check' = [check EXCEPT ![c].status = status, ![c].attempts = @ + 1]
    PROVE  /\ check' \in [Checks -> CheckRows]
           /\ \A d \in Checks :
                 /\ check'[d].baseline = check[d].baseline
                 /\ check'[d].asOf = check[d].asOf
                 /\ check'[d].inputs = check[d].inputs /\ check'[d].key = check[d].key
                 /\ check'[d].expired = check[d].expired
                 /\ check'[d].status # "absent" => check[d].status # "absent"
                 /\ check[d].status # "absent" => check'[d].status # "absent"
<1> DEFINE row == [check[c] EXCEPT !.status = status, !.attempts = @ + 1]
<1>1. check[c] \in CheckRows
  BY DEF TypeOK, TablesTyped
<1>2. row \in CheckRows
  <2>1. check[c].attempts \in Nat /\ check[c].attempts + 1 \in Nat
    BY <1>1 DEF CheckRows
  <2>2. [check[c] EXCEPT !.status = status] \in CheckRows
    BY <1>1 DEF CheckRows
  <2>3. row = [[check[c] EXCEPT !.status = status] EXCEPT !.attempts = check[c].attempts + 1]
    BY <1>1 DEF CheckRows
  <2> QED
    BY <2>1, <2>2, <2>3 DEF CheckRows
<1>3. /\ row.baseline = check[c].baseline /\ row.asOf = check[c].asOf
      /\ row.inputs = check[c].inputs /\ row.key = check[c].key
      /\ row.expired = check[c].expired
      /\ row.status # "absent"
  BY <1>1 DEF CheckRows
<1>4. \A d \in Checks : check'[d] = IF d = c THEN row ELSE check[d]
  BY DEF TypeOK, TablesTyped
<1>5. check' \in [Checks -> CheckRows]
  BY <1>2 DEF TypeOK, TablesTyped
<1> QED
  BY <1>3, <1>4, <1>5

(* processDriftCheck keeps tables and processes typed. *)
LEMMA ProcessDriftCheckTyped ==
    ASSUME TypeOK, Naming, NEW w \in Processes, ProcessDriftCheck(w)
    PROVE  TypeOK'
<1> DEFINE c == op[w].check
<1>1. c \in Checks /\ check[c] \in CheckRows /\ check[c].status # "absent"
  BY OperationShape DEF ProcessDriftCheck, Naming, TypeOK, TablesTyped, ProcessesTyped
<1>2. ProcessesTyped'
  <2>1. CASE Forget(w)
    BY <2>1, ForgetTyped DEF ProcessDriftCheck, TypeOK
  <2>2. CASE stage' = [stage EXCEPT ![w] = "failing"] /\ UNCHANGED <<op, seen, reply>>
    BY <2>2 DEF ProcessDriftCheck, TypeOK, ProcessesTyped, Release, Stages
  <2> QED
    BY <2>1, <2>2 DEF ProcessDriftCheck
<1>3. CASE UNCHANGED <<check, event>>
  BY <1>2, <1>3 DEF ProcessDriftCheck, TypeOK, TablesTyped
<1>4. CASE check' = [check EXCEPT ![c].status = "completed", ![c].attempts = @ + 1]
  <2>1. /\ check' \in [Checks -> CheckRows]
        /\ \A d \in Checks :
              /\ check'[d].baseline = check[d].baseline /\ check'[d].asOf = check[d].asOf
              /\ check'[d].status # "absent" => check[d].status # "absent"
    BY <1>1, <1>4, AttemptCounted
  <2>2. \A status \in {"pending", "no_change"} :
           [status |-> status, baseline |-> check[c].baseline, inputs |-> check[c].inputs,
            createdVersion |-> 0, expired |-> FALSE] \in EventRows
    BY <1>1 DEF CheckRows, EventRows
  <2>3. \/ event' = event
        \/ \E status \in {"pending", "no_change"} :
              event' = [event EXCEPT ![c] =
                          [status |-> status, baseline |-> check[c].baseline,
                           inputs |-> check[c].inputs, createdVersion |-> 0, expired |-> FALSE]]
    BY <1>1, <1>4 DEF ProcessDriftCheck
  <2>4. check[c].baseline \in 1..Len(versions)
    BY <1>1 DEF TypeOK, TablesTyped
  <2>5. /\ event' \in [Checks -> EventRows]
        /\ \A d \in Checks :
              event'[d].status # "absent" => event'[d].baseline \in 1..Len(versions)
    BY <1>1, <2>2, <2>3, <2>4 DEF TypeOK, TablesTyped
  <2> QED
    BY <1>2, <2>1, <2>5 DEF ProcessDriftCheck, TypeOK, TablesTyped
<1> QED
  BY <1>3, <1>4 DEF ProcessDriftCheck

(* Its catch block does. *)
LEMMA MarkFailedTyped ==
    ASSUME TypeOK, Naming, NEW w \in Processes, MarkFailed(w)
    PROVE  TypeOK'
<1> DEFINE c == op[w].check
<1>1. c \in Checks /\ check[c].status # "absent"
  BY OperationShape DEF MarkFailed, Naming, TypeOK, ProcessesTyped
<1>2. ProcessesTyped'
  BY ForgetTyped DEF MarkFailed, TypeOK
<1>3. CASE check' = check
  BY <1>2, <1>3 DEF MarkFailed, TypeOK, TablesTyped
<1>4. CASE check' = [check EXCEPT ![c].status = "failed", ![c].attempts = @ + 1]
  BY <1>1, <1>2, <1>4, AttemptCounted DEF MarkFailed, TypeOK, TablesTyped
<1> QED
  BY <1>3, <1>4 DEF MarkFailed

(* acceptDriftEvent keeps the tables typed. *)
LEMMA AcceptDriftEventTyped ==
    ASSUME TypeOK, Naming, NEW p \in Processes, AcceptDriftEvent(p)
    PROVE  TypeOK'
<1> DEFINE c == op[p].check
<1>1. c \in Checks /\ event[c] \in EventRows /\ check[c].status # "absent"
  BY OperationShape DEF AcceptDriftEvent, Naming, TypeOK, TablesTyped, ProcessesTyped
<1>2. event[c].inputs \in Inputs /\ check[c].asOf \in Dates
  BY <1>1 DEF EventRows, TypeOK, TablesTyped
<1>3. /\ versions' \in Seq(Versions)
      /\ current' \in Nat
      /\ 1..Len(versions) \subseteq 1..Len(versions')
  BY <1>1, <1>2, PublishTyped DEF AcceptDriftEvent
<1>4. Len(versions) + 1 \in Nat
  BY DEF TypeOK, TablesTyped
<1>5. ProcessesTyped'
  <2>1. ProcessesTyped /\ "ok" \in Codes
    BY DEF TypeOK, Codes
  <2> QED
    BY <1>4, <2>1, AnswerTyped DEF AcceptDriftEvent
<1>6. /\ event' \in [Checks -> EventRows]
      /\ \A d \in Checks :
            /\ event'[d].baseline = event[d].baseline
            /\ event'[d].status # "absent" => event[d].status # "absent"
  BY <1>1, <1>4 DEF AcceptDriftEvent, Naming, TypeOK, TablesTyped, EventRows
<1> QED
  BY <1>3, <1>5, <1>6 DEF AcceptDriftEvent, TypeOK, TablesTyped

(* keepDriftEvent keeps the tables typed. *)
LEMMA KeepDriftEventTyped ==
    ASSUME TypeOK, Naming, NEW p \in Processes, KeepDriftEvent(p)
    PROVE  TypeOK'
<1> DEFINE c == op[p].check
<1>1. c \in Checks /\ event[c] \in EventRows /\ event[c].status # "absent"
  BY OperationShape DEF KeepDriftEvent, Naming, TypeOK, TablesTyped, ProcessesTyped
<1>2. ProcessesTyped'
  BY AnswerTyped DEF KeepDriftEvent, TypeOK, Codes
<1>3. /\ event' \in [Checks -> EventRows]
      /\ \A d \in Checks :
            /\ event'[d].baseline = event[d].baseline
            /\ event'[d].status # "absent" => event[d].status # "absent"
  BY <1>1 DEF KeepDriftEvent, TypeOK, TablesTyped, EventRows
<1> QED
  BY <1>2, <1>3 DEF KeepDriftEvent, TypeOK, TablesTyped

(* The retention deadline of a check passes. *)
LEMMA ExpireCheckTyped ==
    ASSUME TypeOK, NEW c \in Checks, ExpireCheck(c)
    PROVE  TypeOK'
<1>1. [check[c] EXCEPT !.expired = TRUE] \in CheckRows
  BY DEF TypeOK, TablesTyped, CheckRows
<1>2. \A d \in Checks : check'[d] = IF d = c THEN [check[c] EXCEPT !.expired = TRUE] ELSE check[d]
  BY DEF ExpireCheck, TypeOK, TablesTyped
<1>3. check' \in [Checks -> CheckRows]
  BY <1>1 DEF ExpireCheck, TypeOK, TablesTyped
<1>4. \A d \in Checks :
         /\ check'[d].status = check[d].status
         /\ check'[d].baseline = check[d].baseline
         /\ check'[d].asOf = check[d].asOf
  BY <1>2 DEF TypeOK, TablesTyped, CheckRows
<1> QED
  BY <1>3, <1>4 DEF ExpireCheck, process, TypeOK, TablesTyped, ProcessesTyped

(* The retention deadline of an event passes. *)
LEMMA ExpireEventTyped ==
    ASSUME TypeOK, NEW c \in Checks, ExpireEvent(c)
    PROVE  TypeOK'
<1>1. [event[c] EXCEPT !.expired = TRUE] \in EventRows
  BY DEF TypeOK, TablesTyped, EventRows
<1>2. \A d \in Checks : event'[d] = IF d = c THEN [event[c] EXCEPT !.expired = TRUE] ELSE event[d]
  BY DEF ExpireEvent, TypeOK, TablesTyped
<1>3. event' \in [Checks -> EventRows]
  BY <1>1 DEF ExpireEvent, TypeOK, TablesTyped
<1>4. \A d \in Checks :
         event'[d].status = event[d].status /\ event'[d].baseline = event[d].baseline
  BY ZenonT(30), <1>2 DEF TypeOK, TablesTyped, EventRows
<1> QED
  BY <1>3, <1>4 DEF ExpireEvent, process, TypeOK, TablesTyped, ProcessesTyped

(* What a cleanup statement does to a check and its event. *)
CleanedUp(c) ==
    /\ check'[c].baseline = check[c].baseline
    /\ check'[c].asOf = check[c].asOf
    /\ check'[c].inputs = check[c].inputs
    /\ check'[c].key = check[c].key
    /\ check'[c].expired = check[c].expired
    /\ event'[c].baseline = event[c].baseline
    /\ event'[c].inputs = event[c].inputs
    /\ event'[c].createdVersion = event[c].createdVersion
    /\ event'[c].expired = event[c].expired
    /\ \/ check'[c].status = check[c].status
       \/ /\ Free(CheckRow(c)) /\ check'[c].status = "deleted" /\ Live(c)
          /\ event[c].status \notin {"pending", "accepted"}
    /\ \/ event'[c].status = event[c].status
       \/ /\ Free(EventRow(c))
          /\ event'[c].status = "deleted"
          /\ event[c].status \in {"kept", "no_change", "deleted"}
          /\ check[c].expired \/ event[c].expired

(* What either cleanup statement does to the rows. *)
LEMMA CleanupEffect ==
    ASSUME TypeOK, CleanupEvents \/ CleanupChecks
    PROVE  /\ check' \in [Checks -> CheckRows] /\ event' \in [Checks -> EventRows]
           /\ \A c \in Checks : CleanedUp(c)
           /\ UNCHANGED <<versions, current, scenario, lock, stage, op, seen, reply>>
<1> DEFINE deadCheck(c) == [check[c] EXCEPT !.status = "deleted"]
           deadEvent(c) == [event[c] EXCEPT !.status = "deleted"]
<1>1. ASSUME NEW c \in Checks
      PROVE  /\ deadCheck(c) \in CheckRows
             /\ deadCheck(c).baseline = check[c].baseline
             /\ deadCheck(c).asOf = check[c].asOf
             /\ deadCheck(c).inputs = check[c].inputs
             /\ deadCheck(c).key = check[c].key
             /\ deadCheck(c).expired = check[c].expired
             /\ deadCheck(c).status = "deleted"
  BY DEF TypeOK, TablesTyped, CheckRows
<1>2. ASSUME NEW c \in Checks
      PROVE  /\ deadEvent(c) \in EventRows
             /\ deadEvent(c).baseline = event[c].baseline
             /\ deadEvent(c).inputs = event[c].inputs
             /\ deadEvent(c).createdVersion = event[c].createdVersion
             /\ deadEvent(c).expired = event[c].expired
             /\ deadEvent(c).status = "deleted"
  BY DEF TypeOK, TablesTyped, EventRows
<1>3. CASE CleanupEvents
  <2>1. PICK B \in SUBSET {c \in Checks : event[c].status \in {"kept", "no_change"}
                                         /\ event[c].expired} :
           /\ \A c \in B : Free(EventRow(c))
           /\ event' = [c \in Checks |-> IF c \in B THEN deadEvent(c) ELSE event[c]]
    BY <1>3 DEF CleanupEvents, Batches
  <2>2. check' = check /\ UNCHANGED <<versions, current, scenario, lock, stage, op, seen, reply>>
    BY <1>3 DEF CleanupEvents, process
  <2> HIDE DEF deadEvent, deadCheck
  <2>3. check' \in [Checks -> CheckRows] /\ event' \in [Checks -> EventRows]
    BY <1>2, <2>1, <2>2 DEF TypeOK, TablesTyped
  <2>4. ASSUME NEW c \in Checks
        PROVE  CleanedUp(c)
    <3>1. CASE c \in B
      <4>1. /\ event'[c] = deadEvent(c) /\ Free(EventRow(c))
            /\ event[c].status \in {"kept", "no_change"} /\ event[c].expired
        BY <2>1, <3>1
      <4> QED
        BY <1>2, <2>2, <4>1 DEF CleanedUp
    <3>2. CASE c \notin B
      BY <2>1, <2>2, <3>2 DEF CleanedUp
    <3> QED
      BY <3>1, <3>2
  <2> QED
    BY <2>2, <2>3, <2>4
<1>4. CASE CleanupChecks
  <2>1. PICK B \in SUBSET {c \in Checks : /\ check[c].status \in {"completed", "failed"}
                                         /\ check[c].expired
                                         /\ event[c].status \notin {"pending", "accepted"}} :
           /\ \A c \in B : Free(CheckRow(c)) /\ Free(EventRow(c))
           /\ check' = [c \in Checks |-> IF c \in B THEN deadCheck(c) ELSE check[c]]
           /\ event' = [c \in Checks |-> IF c \in B /\ event[c].status # "absent"
                                         THEN deadEvent(c) ELSE event[c]]
    BY <1>4 DEF CleanupChecks, Batches
  <2>2. UNCHANGED <<versions, current, scenario, lock, stage, op, seen, reply>>
    BY <1>4 DEF CleanupChecks, process
  <2> HIDE DEF deadEvent, deadCheck
  <2>3. check' \in [Checks -> CheckRows] /\ event' \in [Checks -> EventRows]
    BY <1>1, <1>2, <2>1 DEF TypeOK, TablesTyped
  <2>4. ASSUME NEW c \in Checks
        PROVE  CleanedUp(c)
    <3>1. CASE c \in B
      <4>1. /\ check'[c] = deadCheck(c) /\ Free(CheckRow(c)) /\ Live(c)
            /\ check[c].expired /\ event[c].status \notin {"pending", "accepted"}
        BY <2>1, <3>1 DEF Live
      <4>2. \/ event'[c] = event[c]
            \/ /\ event'[c] = deadEvent(c)
               /\ Free(EventRow(c))
               /\ event[c].status \in {"kept", "no_change", "deleted"}
        BY <2>1, <3>1 DEF TypeOK, TablesTyped, EventRows
      <4>3. /\ event'[c].baseline = event[c].baseline
            /\ event'[c].inputs = event[c].inputs
            /\ event'[c].createdVersion = event[c].createdVersion
            /\ event'[c].expired = event[c].expired
            /\ \/ event'[c].status = event[c].status
               \/ /\ Free(EventRow(c)) /\ event'[c].status = "deleted"
                  /\ event[c].status \in {"kept", "no_change", "deleted"}
        BY <1>2, <4>2
      <4> QED
        BY ZenonT(30), <1>1, <4>1, <4>3 DEF CleanedUp
    <3>2. CASE c \notin B
      BY <2>1, <3>2 DEF CleanedUp
    <3> QED
      BY <3>1, <3>2
  <2> QED
    BY <2>2, <2>3, <2>4
<1> QED
  BY <1>3, <1>4

(* The cleanup keeps tables and processes typed. *)
LEMMA CleanupTyped ==
    ASSUME TypeOK, CleanupEvents \/ CleanupChecks
    PROVE  TypeOK'
BY ZenonT(30), CleanupEffect DEF CleanedUp, TypeOK, TablesTyped, ProcessesTyped, Live

-------------------------------------------------------------------------------
(* Locks and what is read under them *)

Basics == TypeOK /\ Counting /\ Naming /\ Holding /\ ReadsStayTrue

(* A step that changes what another transaction may have read holds the    *)
(* lock of it, or nobody does.                                             *)
Protects(p) ==
    /\ \/ UNCHANGED <<versions, current>>
       \/ lock[Household] = p
    /\ \A s \in Scenarios :
          \/ scenario'[s].status = scenario[s].status
          \/ scenario[s].status = "absent"
          \/ lock[ScenarioRow(s)] = p
    /\ \A c \in Checks :
          \/ check'[c].status = check[c].status
          \/ check[c].status = "absent"
          \/ lock[CheckRow(c)] \in {p, None}
    /\ \A c \in Checks :
          \/ event'[c].status = event[c].status
          \/ event[c].status \in {"absent", "deleted"}
          \/ lock[EventRow(c)] \in {p, None}

(* Ids never become unused again and versions are never removed. *)
Grows ==
    /\ Len(versions') \in Nat /\ Len(versions) <= Len(versions')
    /\ \A s \in Scenarios : scenario[s].status # "absent" => scenario'[s].status # "absent"
    /\ \A c \in Checks : check[c].status # "absent" => check'[c].status # "absent"
    /\ \A c \in Checks : event[c].status # "absent" => event'[c].status # "absent"
    /\ \A c \in Checks : event'[c].status # "absent" => check'[c].status # "absent"

(* The step is one of p's, or of no process. *)
Only(p) ==
    /\ \A q \in Processes \ {p} : stage'[q] = stage[q] /\ op'[q] = op[q] /\ seen'[q] = seen[q]
    /\ \A r \in Resources : lock[r] \notin {p, None} => lock'[r] = lock[r]

(* The advisory lock is one of the locks. *)
LEMMA HouseholdIsAResource == Household \in Resources
BY DEF Resources

(* A step of p takes no lock away from another process. *)
LEMMA OthersHold ==
    ASSUME Basics, NEW p, Only(p), NEW q \in Processes \ {p}
    PROVE  Holds(q)'
<1>1. q # None /\ op[q] \in Requests \cup Jobs \cup {Idle}
  BY ProcessesAreDistinct DEF Basics, TypeOK, ProcessesTyped
<1>2. Holds(q) /\ stage'[q] = stage[q] /\ op'[q] = op[q]
  BY DEF Basics, Holding, Only
<1>3. op[q].kind \in Targeting => TargetRow(op[q]) \in Resources
  BY <1>1, TargetTyped DEF Targeting, Basics
<1>4. TargetRow(op[q])' = TargetRow(op[q])
  BY <1>2 DEF TargetRow, ScenarioRow, EventRow, CheckRow
<1> QED
  BY <1>1, <1>2, <1>3, <1>4, HouseholdIsAResource DEF Holds, Only

(* A protected step of p changes nothing another process has read. *)
LEMMA OthersSeeTruth ==
    ASSUME Basics, NEW p, Only(p), Protects(p), Grows, NEW q \in Processes \ {p}
    PROVE  SeesTruth(q)'
<1>1. /\ q # None /\ op[q] \in Requests \cup Jobs \cup {Idle}
      /\ seen[q].current \in Nat /\ seen[q].status \in Statuses /\ Len(versions) \in Nat
  BY ProcessesAreDistinct DEF Basics, TypeOK, TablesTyped, ProcessesTyped
<1>2. /\ Holds(q) /\ SeesTruth(q)
      /\ stage'[q] = stage[q] /\ op'[q] = op[q] /\ seen'[q] = seen[q]
  BY DEF Basics, Holding, ReadsStayTrue, Only
<1>3. seen'[q].current \in 0..Len(versions')
  BY <1>1, <1>2 DEF SeesTruth, Grows
<1>4. ASSUME stage[q] = "plan", op[q].kind \in HouseholdKinds
      PROVE  seen'[q].current = current' /\ seen'[q].number = Len(versions') + 1
  BY <1>1, <1>2, <1>4 DEF SeesTruth, Holds, Protects
<1>5. ASSUME stage[q] \in {"row", "plan"}, op[q].kind \in Targeting
      PROVE  \/ seen'[q].status = StatusOf(op[q])'
             \/ op'[q].kind \in {"accept", "keep"} /\ seen'[q].status = "deleted"
  <2>1. lock[TargetRow(op[q])] = q
    BY <1>2, <1>5 DEF Holds
  <2>2. \/ seen[q].status = StatusOf(op[q])
        \/ op[q].kind \in {"accept", "keep"} /\ seen[q].status = "deleted"
    BY <1>2, <1>5 DEF SeesTruth
  <2>3. CASE op[q].kind = "apply"
    <3>1. op[q].scenario \in Scenarios /\ scenario[op[q].scenario].status # "absent"
      BY <1>1, <2>3, OperationShape DEF Basics, Naming
    <3>2. lock[ScenarioRow(op[q].scenario)] = q
      BY <2>1, <2>3 DEF TargetRow
    <3> QED
      BY <1>1, <1>2, <2>2, <2>3, <3>1, <3>2 DEF Protects, StatusOf
  <2>4. CASE op[q].kind \in {"accept", "keep"}
    <3>1. op[q].check \in Checks /\ event[op[q].check].status # "absent"
      BY <1>1, <2>4, OperationShape DEF Basics, Naming
    <3>2. lock[EventRow(op[q].check)] = q
      BY <2>1, <2>4 DEF TargetRow
    <3> QED
      BY <1>1, <1>2, <2>2, <2>4, <3>1, <3>2 DEF Protects, StatusOf
  <2>5. CASE op[q].kind = "process"
    <3>1. op[q].check \in Checks /\ check[op[q].check].status # "absent"
      BY <1>1, <2>5, OperationShape DEF Basics, Naming
    <3>2. lock[CheckRow(op[q].check)] = q
      BY <2>1, <2>5 DEF TargetRow
    <3> QED
      BY <1>1, <1>2, <2>2, <2>5, <3>1, <3>2 DEF Protects, StatusOf
  <2> QED
    BY <1>5, <2>3, <2>4, <2>5 DEF Targeting
<1> QED
  BY <1>2, <1>3, <1>4, <1>5 DEF SeesTruth

Left(p) == stage'[p] \in {"idle", "begun", "replied", "failing"}

(* A protected step after which p holds nothing keeps locks and reads. *)
LEMMA LeavingKeepsReads ==
    ASSUME Basics, NEW p \in Processes, Only(p), Protects(p), Grows, Left(p),
           seen'[p].current \in {0, seen[p].current}
    PROVE  Holding' /\ ReadsStayTrue'
<1>1. Holds(p)'
  BY DEF Holds, Left
<1>2. SeesTruth(p)'
  <2>1. seen'[p].current \in 0..Len(versions')
    BY DEF Basics, TypeOK, TablesTyped, ProcessesTyped, ReadsStayTrue, SeesTruth, Grows
  <2> QED
    BY <2>1 DEF SeesTruth, Left
<1> QED
  BY <1>1, <1>2, OthersHold, OthersSeeTruth DEF Holding, ReadsStayTrue

(* A step that only adds rows keeps the rows that requests name. *)
LEMMA NamesStay ==
    ASSUME Basics, Grows, \A q \in Processes : op'[q] \in {op[q], Idle}
    PROVE  Naming'
<1>1. \A q \in Processes : op[q] \in Requests \cup Jobs \cup {Idle}
  BY DEF Basics, TypeOK, ProcessesTyped
<1>2. ASSUME NEW q \in Processes
      PROVE  /\ op'[q].kind = "apply" => scenario'[op'[q].scenario].status # "absent"
             /\ op'[q].kind \in {"accept", "keep"} => event'[op'[q].check].status # "absent"
             /\ op'[q].kind = "process" => check'[op'[q].check].status # "absent"
             /\ op'[q].kind = "create_check" => op'[q].baseline \in 1..Len(versions')
  <2>1. CASE op'[q] = Idle
    BY <2>1 DEF Idle
  <2>2. CASE op'[q] = op[q]
    BY <1>1, <2>2, OperationShape DEF Basics, Naming, Grows, TypeOK, TablesTyped
  <2> QED
    BY <2>1, <2>2
<1>3. Clients \subseteq Processes /\ Workers \subseteq Processes
  BY DEF Processes
<1> QED
  BY <1>2, <1>3 DEF Basics, Naming, Grows

(* A step that leaves the tables alone is protected and removes nothing. *)
LEMMA QuietTables ==
    ASSUME Basics, UNCHANGED tables
    PROVE  Grows /\ Counting' /\ \A p : Protects(p)
BY DEF tables, Basics, Naming, Counting, Grows, Protects, TypeOK, TablesTyped

(* Answering touches only the process that answers. *)
LEMMA AnswerFrame ==
    ASSUME TypeOK, NEW p \in Processes, NEW code, NEW v, NEW c, Answer(p, code, v, c)
    PROVE  Only(p) /\ Left(p) /\ op' = op /\ seen' = seen
BY DEF Answer, Release, Only, Left, TypeOK, ProcessesTyped

(* Ending a transaction touches only its process. *)
LEMMA ForgetFrame ==
    ASSUME TypeOK, NEW p \in Processes, Forget(p), Release(p) \/ UNCHANGED lock
    PROVE  /\ Only(p) /\ Left(p)
           /\ \A q \in Processes : op'[q] \in {op[q], Idle}
           /\ seen'[p].current = 0
BY DEF Forget, Release, Only, Left, Nothing, TypeOK, ProcessesTyped

(* The steps that answer a request and change no table. *)
AnswersOnly(p) ==
    \/ NoCurrentPlan(p) \/ ApplyReplayed(p) \/ ApplyRefused(p)
    \/ CheckReplayed(p) \/ CheckRefused(p)
    \/ AcceptReplayed(p) \/ AcceptRefused(p)
    \/ KeepReplayed(p) \/ KeepRefused(p)

(* A refusal or a replayed answer leaves the tables alone. *)
LEMMA AnswersOnlyEffect ==
    ASSUME TypeOK, NEW p \in Processes, AnswersOnly(p)
    PROVE  /\ \E code \in Codes, v \in Nat, c \in Checks \cup {None} : Answer(p, code, v, c)
           /\ UNCHANGED tables
<1>1. op[p] \in Requests \cup Jobs \cup {Idle}
  BY DEF TypeOK, ProcessesTyped
<1>2. CASE NoCurrentPlan(p) \/ ApplyRefused(p)
  BY <1>2 DEF NoCurrentPlan, ApplyRefused, Refuse, Codes
<1>3. CASE CheckRefused(p)
  BY <1>3 DEF CheckRefused, Refuse, Codes
<1>4. CASE AcceptRefused(p)
  BY <1>4 DEF AcceptRefused, Refuse, Codes
<1>5. CASE KeepRefused(p) \/ KeepReplayed(p)
  BY <1>5 DEF KeepRefused, KeepReplayed, Refuse, Codes
<1>6. CASE ApplyReplayed(p)
  <2>1. op[p].scenario \in Scenarios
    BY <1>1, <1>6, OperationShape DEF ApplyReplayed
  <2>2. scenario[op[p].scenario].appliedVersion \in Nat
    BY <2>1 DEF TypeOK, TablesTyped, ScenarioRows
  <2> QED
    BY <1>6, <2>2 DEF ApplyReplayed, Codes
<1>7. CASE AcceptReplayed(p)
  <2>1. op[p].check \in Checks
    BY <1>1, <1>7, OperationShape DEF AcceptReplayed
  <2>2. event[op[p].check].createdVersion \in Nat
    BY <2>1 DEF TypeOK, TablesTyped, EventRows
  <2> QED
    BY <1>7, <2>2 DEF AcceptReplayed, Codes
<1>8. CASE CheckReplayed(p)
  BY <1>8 DEF CheckReplayed, Codes
<1> QED
  BY <1>2, <1>3, <1>4, <1>5, <1>6, <1>7, <1>8 DEF AnswersOnly

(* Typed processes over unchanged tables. *)
LEMMA QuietTypes ==
    ASSUME TypeOK, ProcessesTyped', UNCHANGED tables
    PROVE  TypeOK'
BY DEF TypeOK, TablesTyped, tables

(* Refusals and replayed answers keep the invariant. *)
LEMMA AnswersOnlyBasics ==
    ASSUME Basics, NEW p \in Processes, AnswersOnly(p)
    PROVE  Basics'
<1>1. PICK code \in Codes, v \in Nat, c \in Checks \cup {None} : Answer(p, code, v, c)
  BY AnswersOnlyEffect DEF Basics
<1>2. UNCHANGED tables
  BY AnswersOnlyEffect DEF Basics
<1>3. TypeOK'
  BY <1>1, <1>2, AnswerTyped, QuietTypes DEF Basics, TypeOK
<1>4. Only(p) /\ Left(p) /\ op' = op /\ seen' = seen
  BY <1>1, AnswerFrame DEF Basics
<1>5. Grows /\ Counting' /\ Protects(p)
  BY <1>2, QuietTables
<1> QED
  BY <1>3, <1>4, <1>5, LeavingKeepsReads, NamesStay DEF Basics

(* The steps that take a lock or read the plan *)
LEMMA LockHouseholdBasics ==
    ASSUME Basics, NEW p \in Processes, LockHousehold(p)
    PROVE  Basics'
<1>1. UNCHANGED tables /\ op' = op /\ seen' = seen
  BY DEF LockHousehold, tables
<1>2. Only(p)
  BY DEF LockHousehold, Take, Free, Only, Basics, TypeOK, ProcessesTyped
<1>3. stage'[p] = "household" /\ lock'[Household] = p
  BY HouseholdIsAResource DEF LockHousehold, Take, Basics, TypeOK, ProcessesTyped
<1>4. Grows /\ Counting' /\ Protects(p) /\ TypeOK'
  BY <1>1, QuietTables, LockHouseholdTyped, QuietTypes DEF Basics, TypeOK
<1>5. Holds(p)'
  BY <1>3 DEF Holds
<1>6. SeesTruth(p)'
  BY <1>1, <1>3 DEF SeesTruth, Basics, ReadsStayTrue, tables
<1> QED
  BY <1>1, <1>2, <1>4, <1>5, <1>6, OthersHold, OthersSeeTruth, NamesStay
     DEF Basics, Holding, ReadsStayTrue

(* Locking a row keeps the invariant: what is read is what is locked. *)
LEMMA LockRowBasics ==
    ASSUME Basics, NEW p \in Processes, LockRow(p)
    PROVE  Basics'
<1>1. UNCHANGED tables /\ op' = op
  BY DEF LockRow, tables
<1>2. /\ op[p] \in Requests \cup Jobs \cup {Idle}
      /\ op[p].kind \in Targeting
      /\ TargetRow(op[p]) \in Resources
  <2>1. op[p] \in Requests \cup Jobs \cup {Idle} /\ op[p].kind \in Targeting
    BY DEF LockRow, Targeting, Basics, TypeOK, ProcessesTyped
  <2> QED
    BY <2>1, TargetTyped DEF Basics, Targeting
<1>3. Only(p)
  BY <1>2 DEF LockRow, Take, Free, Only, Basics, TypeOK, ProcessesTyped
<1>4. /\ stage'[p] = "row" /\ lock'[TargetRow(op[p])] = p
      /\ seen'[p].status = StatusOf(op[p]) /\ seen'[p].current = seen[p].current
  BY <1>2 DEF LockRow, Take, Basics, TypeOK, ProcessesTyped
<1>5. Grows /\ Counting' /\ Protects(p) /\ TypeOK'
  BY <1>1, QuietTables, LockRowTyped, QuietTypes DEF Basics, TypeOK
<1>6. Holds(p)'
  <2>1. TargetRow(op'[p]) = TargetRow(op[p])
    BY <1>1
  <2>2. op[p].kind \in HouseholdKinds => stage[p] = "household"
    BY DEF LockRow, HouseholdKinds
  <2>3. op[p].kind \in HouseholdKinds => lock'[Household] = p
    BY <1>2, <2>2, HouseholdIsAResource
       DEF Basics, Holding, Holds, LockRow, Take, TypeOK, ProcessesTyped
  <2> QED
    BY <1>1, <1>4, <2>1, <2>3 DEF Holds, TargetRow
<1>7. SeesTruth(p)'
  <2>1. StatusOf(op[p])' = StatusOf(op[p])
    BY <1>1, <1>2 DEF StatusOf, tables, Targeting
  <2> QED
    BY <1>1, <1>4, <2>1 DEF SeesTruth, Basics, ReadsStayTrue, tables
<1> QED
  BY <1>1, <1>3, <1>5, <1>6, <1>7, OthersHold, OthersSeeTruth, NamesStay
     DEF Basics, Holding, ReadsStayTrue

(* Locking the plan row keeps it, whether or not there is a plan yet. *)
LEMMA LockPlanBasics ==
    ASSUME Basics, NEW p \in Processes, LockPlan(p)
    PROVE  Basics'
<1>1. UNCHANGED tables /\ op' = op
  BY DEF LockPlan, tables
<1>2. Only(p)
  BY DEF LockPlan, Take, Free, Only, Basics, TypeOK, ProcessesTyped
<1>3. /\ stage'[p] = "plan"
      /\ seen'[p].current = current /\ seen'[p].number = Len(versions) + 1
      /\ seen'[p].status = seen[p].status
      /\ \A r \in Resources : lock[r] = p => lock'[r] = p
  BY NextNumber DEF LockPlan, Take, Free, Basics, TypeOK, TablesTyped, ProcessesTyped
<1>4. Grows /\ Counting' /\ Protects(p) /\ TypeOK'
  BY <1>1, QuietTables, LockPlanTyped, QuietTypes DEF Basics, TypeOK
<1>5. op[p] \in Requests \cup Jobs \cup {Idle}
  BY DEF Basics, TypeOK, ProcessesTyped
<1>6. op[p].kind \in Targeting => stage[p] = "row"
  BY DEF LockPlan, Targeting
<1>7. Holds(p)'
  <2>1. op[p].kind \in Targeting => lock[TargetRow(op[p])] = p /\ TargetRow(op[p]) \in Resources
    BY <1>5, <1>6, TargetTyped DEF Targeting, Basics, Holding, Holds
  <2>2. op[p].kind \in HouseholdKinds => lock[Household] = p
    BY DEF Basics, Holding, Holds, LockPlan
  <2>3. TargetRow(op'[p]) = TargetRow(op[p])
    BY <1>1
  <2> QED
    BY <1>1, <1>3, <2>1, <2>2, <2>3, HouseholdIsAResource DEF Holds, TargetRow
<1>8. SeesTruth(p)'
  <2>1. op[p].kind \in Targeting =>
           \/ seen[p].status = StatusOf(op[p])
           \/ op[p].kind \in {"accept", "keep"} /\ seen[p].status = "deleted"
    BY <1>6 DEF Basics, ReadsStayTrue, SeesTruth
  <2>2. op[p].kind \in Targeting => StatusOf(op[p])' = StatusOf(op[p])
    BY <1>1 DEF StatusOf, tables, Targeting
  <2>3. current \in 0..Len(versions) /\ versions' = versions /\ current' = current
    BY <1>1 DEF tables, Basics, Counting, TypeOK, TablesTyped
  <2> QED
    BY <1>1, <1>3, <2>1, <2>2, <2>3 DEF SeesTruth
<1> QED
  BY <1>1, <1>2, <1>4, <1>7, <1>8, OthersHold, OthersSeeTruth, NamesStay
     DEF Basics, Holding, ReadsStayTrue

(* Reading the plan without a lock keeps it. *)
LEMMA ReadPlanBasics ==
    ASSUME Basics, NEW p \in Processes, ReadPlan(p)
    PROVE  Basics'
<1>1. UNCHANGED tables /\ op' = op /\ lock' = lock
  BY DEF ReadPlan, tables
<1>2. Only(p)
  BY DEF ReadPlan, Only, Basics, TypeOK, ProcessesTyped
<1>3. /\ stage'[p] = "plan" /\ op[p].kind = "create_scenario"
      /\ seen'[p].current = current
  BY DEF ReadPlan, Basics, TypeOK, ProcessesTyped
<1>4. Grows /\ Counting' /\ Protects(p) /\ TypeOK'
  BY <1>1, QuietTables, ReadPlanTyped, QuietTypes DEF Basics, TypeOK
<1>5. Holds(p)'
  BY <1>1, <1>3 DEF Holds, HouseholdKinds, Targeting
<1>6. SeesTruth(p)'
  <2>1. current \in 0..Len(versions')
    BY <1>1 DEF tables, Basics, Counting, TypeOK, TablesTyped
  <2> QED
    BY <1>1, <1>3, <2>1 DEF SeesTruth, HouseholdKinds, Targeting
<1> QED
  BY <1>1, <1>2, <1>4, <1>5, <1>6, OthersHold, OthersSeeTruth, NamesStay
     DEF Basics, Holding, ReadsStayTrue

(* A request or job that begins names rows that exist. *)
LEMMA BeginBasics ==
    ASSUME Basics, NEW p \in Processes, NEW o \in Requests \cup Jobs, Begin(p, o),
           (p \in Clients /\ o \in Sendable) \/ (p \in Workers /\ o \in Deliverable)
    PROVE  Basics'
<1>1. UNCHANGED tables /\ seen' = seen /\ lock' = lock
  BY DEF Begin, tables
<1>2. Only(p) /\ Left(p) /\ op'[p] = o /\ \A q \in Processes \ {p} : op'[q] = op[q]
  BY DEF Begin, Only, Left, Basics, TypeOK, ProcessesTyped
<1>3. Grows /\ Counting' /\ Protects(p) /\ TypeOK'
  BY <1>1, QuietTables, BeginTyped, QuietTypes DEF Basics, TypeOK
<1>4. /\ o.kind = "apply" => scenario[o.scenario].status # "absent"
      /\ o.kind \in {"accept", "keep"} => event[o.check].status # "absent"
      /\ o.kind = "process" => check[o.check].status # "absent"
      /\ o.kind = "create_check" => o.baseline \in 1..Len(versions)
      /\ p \in Clients => o \in Requests
      /\ p \in Workers => o \in Jobs
  BY SendableNamed, DeliverableNamed, ProcessesAreDistinct DEF Basics
<1>5. Naming'
  BY <1>1, <1>2, <1>4 DEF Basics, Naming, tables, Processes
<1> QED
  BY <1>1, <1>2, <1>3, <1>5, LeavingKeepsReads DEF Basics

(* The steps that write *)
LEMMA PublishCounts ==
    ASSUME Basics, NEW p \in Processes, stage[p] = "plan", op[p].kind \in HouseholdKinds,
           NEW inputs \in Inputs, NEW asOf \in Dates,
           NEW origin \in Scenarios \cup Checks \cup {None},
           PublishVersion(p, inputs, asOf, origin)
    PROVE  /\ Counting'
           /\ lock[Household] = p
           /\ current' = Len(versions) + 1
           /\ seen[p].current = Len(versions)
           /\ Len(versions) \in Nat /\ Len(versions') = Len(versions) + 1
           /\ \A i \in 1..Len(versions) : versions'[i] = versions[i]
           /\ versions'[Len(versions) + 1] =
                 [number |-> Len(versions) + 1, inputs |-> inputs, asOf |-> asOf, origin |-> origin]
<1>1. /\ Len(versions') = Len(versions) + 1
      /\ \A i \in 1..Len(versions) : versions'[i] = versions[i]
      /\ versions'[Len(versions) + 1] =
            [number |-> seen[p].number, inputs |-> inputs, asOf |-> asOf, origin |-> origin]
  BY PublishTyped DEF Basics
<1>2. lock[Household] = p /\ seen[p].number = Len(versions) + 1 /\ seen[p].current = current
  BY DEF Basics, Holding, Holds, ReadsStayTrue, SeesTruth
<1>3. current' = Len(versions) + 1
  BY DEF PublishVersion
<1>4. Len(versions) \in Nat
  BY DEF Basics, TypeOK, TablesTyped
<1> QED
  BY <1>1, <1>2, <1>3, <1>4 DEF Basics, Counting

(* recalculatePlan keeps the invariant. *)
LEMMA RecalculatePlanBasics ==
    ASSUME Basics, NEW p \in Processes, RecalculatePlan(p)
    PROVE  Basics'
<1>1. op[p].inputs \in Inputs /\ op[p].asOf \in Dates
  BY OperationShape DEF RecalculatePlan, Basics, TypeOK, ProcessesTyped
<1>2. Counting' /\ lock[Household] = p /\ Len(versions) \in Nat /\ Len(versions') = Len(versions) + 1
  BY <1>1, PublishCounts DEF RecalculatePlan, HouseholdKinds
<1>3. TypeOK'
  BY RecalculatePlanTyped DEF Basics
<1>4. Only(p) /\ Left(p) /\ op' = op /\ seen' = seen
  BY AnswerFrame DEF RecalculatePlan, Basics
<1>5. Protects(p) /\ Grows
  BY <1>2 DEF RecalculatePlan, Protects, Grows, Basics, Naming
<1> QED
  BY <1>2, <1>3, <1>4, <1>5, LeavingKeepsReads, NamesStay DEF Basics

(* createScenario keeps it. *)
LEMMA CreateScenarioBasics ==
    ASSUME Basics, NEW p \in Processes, CreateScenario(p)
    PROVE  Basics'
<1>1. TypeOK'
  BY CreateScenarioTyped DEF Basics
<1>2. Only(p) /\ Left(p) /\ op' = op /\ seen' = seen
  BY AnswerFrame DEF CreateScenario, Basics
<1>3. Protects(p) /\ Grows /\ Counting'
  BY DEF CreateScenario, Protects, Grows, Basics, Naming, Counting, TypeOK, TablesTyped
<1> QED
  BY <1>1, <1>2, <1>3, LeavingKeepsReads, NamesStay DEF Basics

(* Where applyScenario and acceptDriftEvent publish, the row they decide   *)
(* on is locked, undecided, and made against the current version.          *)
LEMMA ApplyScenarioEffect ==
    ASSUME Basics, NEW p \in Processes, ApplyScenario(p), NEW s, s = op[p].scenario
    PROVE  /\ s \in Scenarios
           /\ lock[ScenarioRow(s)] = p
           /\ scenario[s].status = "draft"
           /\ scenario[s].baseline = Len(versions)
           /\ Len(versions) \in Nat \ {0}
           /\ Counting' /\ lock[Household] = p
           /\ current' = Len(versions) + 1
           /\ Len(versions') = Len(versions) + 1
           /\ \A i \in 1..Len(versions) : versions'[i] = versions[i]
           /\ versions'[Len(versions) + 1] =
                 [number |-> Len(versions) + 1,
                  inputs |-> Merge(versions[Len(versions)].inputs, scenario[s].overlay),
                  asOf |-> versions[Len(versions)].asOf, origin |-> s]
           /\ scenario' = [scenario EXCEPT ![s].status = "applied",
                                           ![s].appliedVersion = Len(versions) + 1]
<1>1. s \in Scenarios /\ scenario[s] \in ScenarioRows
  BY OperationShape DEF ApplyScenario, Basics, TypeOK, TablesTyped, ProcessesTyped
<1>2. lock[ScenarioRow(s)] = p /\ scenario[s].status = "draft"
  BY DEF ApplyScenario, Basics, Holding, Holds, ReadsStayTrue, SeesTruth, Targeting, TargetRow, StatusOf
<1>3. scenario[s].baseline \in 1..Len(versions)
  BY <1>1, <1>2 DEF Basics, TypeOK, TablesTyped
<1>4. versions[scenario[s].baseline] \in Versions
  BY <1>3 DEF Basics, TypeOK, TablesTyped
<1>5. /\ Merge(versions[scenario[s].baseline].inputs, scenario[s].overlay) \in Inputs
      /\ versions[scenario[s].baseline].asOf \in Dates
  BY <1>1, <1>4, MergeType DEF Versions, ScenarioRows
<1>6. /\ Counting' /\ lock[Household] = p /\ current' = Len(versions) + 1
      /\ seen[p].current = Len(versions)
      /\ Len(versions) \in Nat /\ Len(versions') = Len(versions) + 1
      /\ \A i \in 1..Len(versions) : versions'[i] = versions[i]
      /\ versions'[Len(versions) + 1] =
            [number |-> Len(versions) + 1,
             inputs |-> Merge(versions[scenario[s].baseline].inputs, scenario[s].overlay),
             asOf |-> versions[scenario[s].baseline].asOf, origin |-> s]
  <2>1. PICK inputs, asOf :
          /\ inputs = Merge(versions[scenario[s].baseline].inputs, scenario[s].overlay)
          /\ asOf = versions[scenario[s].baseline].asOf
    OBVIOUS
  <2>2. stage[p] = "plan" /\ op[p].kind \in HouseholdKinds /\ PublishVersion(p, inputs, asOf, s)
    BY <2>1 DEF ApplyScenario, HouseholdKinds
  <2>3. inputs \in Inputs /\ asOf \in Dates /\ s \in Scenarios \cup Checks \cup {None}
    BY <1>1, <1>5, <2>1
  <2>4. /\ Counting' /\ lock[Household] = p /\ current' = Len(versions) + 1
        /\ seen[p].current = Len(versions)
        /\ Len(versions) \in Nat /\ Len(versions') = Len(versions) + 1
        /\ \A i \in 1..Len(versions) : versions'[i] = versions[i]
        /\ versions'[Len(versions) + 1] =
              [number |-> Len(versions) + 1, inputs |-> inputs, asOf |-> asOf, origin |-> s]
    BY <2>2, <2>3, PublishCounts
  <2> QED
    BY <2>1, <2>4
<1>7. /\ scenario[s].baseline = seen[p].current
      /\ scenario' = [scenario EXCEPT ![s].status = "applied", ![s].appliedVersion = Len(versions) + 1]
      /\ UNCHANGED <<check, event>>
  BY DEF ApplyScenario
<1> QED
  BY <1>1, <1>2, <1>3, <1>6, <1>7

(* applyScenario keeps the invariant. *)
LEMMA ApplyScenarioBasics ==
    ASSUME Basics, NEW p \in Processes, ApplyScenario(p)
    PROVE  Basics'
<1>1. TypeOK'
  BY ApplyScenarioTyped DEF Basics
<1>2. Only(p) /\ Left(p) /\ op' = op /\ seen' = seen
  BY AnswerFrame DEF ApplyScenario, Basics
<1>3. PICK s : s = op[p].scenario
  OBVIOUS
<1>4. /\ s \in Scenarios /\ lock[ScenarioRow(s)] = p /\ lock[Household] = p
      /\ Counting' /\ Len(versions) \in Nat /\ Len(versions') = Len(versions) + 1
      /\ scenario' = [scenario EXCEPT ![s].status = "applied",
                                      ![s].appliedVersion = Len(versions) + 1]
  BY <1>3, ApplyScenarioEffect
<1>5. scenario'[s].status = "applied" /\ \A t \in Scenarios \ {s} : scenario'[t] = scenario[t]
  BY <1>4 DEF Basics, TypeOK, TablesTyped, ScenarioRows
<1>6. UNCHANGED <<check, event>>
  BY DEF ApplyScenario
<1>7. Len(versions') \in Nat /\ Len(versions) <= Len(versions')
  BY <1>4
<1>8. Protects(p)
  BY <1>4, <1>5, <1>6 DEF Protects
<1>9. Grows
  BY <1>5, <1>6, <1>7 DEF Grows, Basics, Naming
<1> QED
  BY <1>1, <1>2, <1>4, <1>8, <1>9, LeavingKeepsReads, NamesStay DEF Basics

(* createOrDeduplicateCheck keeps it. *)
LEMMA CreateCheckBasics ==
    ASSUME Basics, NEW p \in Processes, CreateCheck(p)
    PROVE  Basics'
<1>1. TypeOK'
  BY CreateCheckTyped DEF Basics
<1>2. PICK c \in Checks : Answer(p, "ok", 0, c)
  BY DEF CreateCheck
<1>3. Only(p) /\ Left(p) /\ op' = op /\ seen' = seen
  BY <1>2, AnswerFrame DEF Basics
<1>4. UNCHANGED <<versions, current, scenario, event>>
  BY DEF CreateCheck
<1>5. \A d \in Checks :
         \/ check'[d] = check[d]
         \/ check[d].status = "absent" /\ check'[d].status = "queued"
  BY DEF CreateCheck, Basics, TypeOK, TablesTyped
<1>6. Protects(p) /\ Counting'
  BY <1>4, <1>5 DEF Protects, Counting, Basics
<1>7. Grows
  BY <1>4, <1>5 DEF Grows, Basics, Naming, TypeOK, TablesTyped
<1> QED
  BY <1>1, <1>3, <1>6, <1>7, LeavingKeepsReads, NamesStay DEF Basics

(* processDriftCheck changes its own check and event only. *)
LEMMA ProcessDriftCheckEffect ==
    ASSUME Basics, NEW w \in Processes, ProcessDriftCheck(w), NEW c, c = op[w].check
    PROVE  /\ c \in Checks
           /\ UNCHANGED <<versions, current, scenario>>
           /\ lock[CheckRow(c)] = w
           /\ \A d \in Checks :
                 /\ check'[d].baseline = check[d].baseline /\ check'[d].asOf = check[d].asOf
                 /\ check'[d].status = check[d].status \/ (d = c /\ check'[d].status = "completed")
                 /\ \/ event'[d] = event[d]
                    \/ /\ d = c /\ event[d].status \in {"absent", "deleted"}
                       /\ event'[d].status \in {"pending", "no_change"}
<1>1. c \in Checks /\ check[c].status # "absent" /\ check[c] \in CheckRows
  BY OperationShape DEF ProcessDriftCheck, Basics, Naming, TypeOK, TablesTyped, ProcessesTyped
<1>2. lock[CheckRow(c)] = w
  BY DEF ProcessDriftCheck, Basics, Holding, Holds, Targeting, TargetRow
<1>3. UNCHANGED <<versions, current, scenario>>
  BY DEF ProcessDriftCheck
<1>4. CASE UNCHANGED <<check, event>>
  BY <1>1, <1>2, <1>3, <1>4
<1>5. CASE check' = [check EXCEPT ![c].status = "completed", ![c].attempts = @ + 1]
  <2>1. \A d \in Checks :
           check'[d].baseline = check[d].baseline /\ check'[d].asOf = check[d].asOf
    BY <1>1, <1>5, AttemptCounted DEF Basics
  <2>2. \A d \in Checks :
           check'[d].status = check[d].status \/ (d = c /\ check'[d].status = "completed")
    BY <1>1, <1>5 DEF Basics, TypeOK, TablesTyped, CheckRows
  <2>3. \/ event' = event
        \/ /\ event[c].status \in {"absent", "deleted"}
           /\ \E status \in {"pending", "no_change"} :
                 event' = [event EXCEPT ![c] =
                             [status |-> status, baseline |-> check[c].baseline,
                              inputs |-> check[c].inputs, createdVersion |-> 0,
                              expired |-> FALSE]]
    BY <1>1, <1>5 DEF ProcessDriftCheck
  <2>4. \A d \in Checks :
           \/ event'[d] = event[d]
           \/ /\ d = c /\ event[d].status \in {"absent", "deleted"}
              /\ event'[d].status \in {"pending", "no_change"}
    BY <1>1, <2>3 DEF Basics, TypeOK, TablesTyped
  <2> QED
    BY <1>1, <1>2, <1>3, <2>1, <2>2, <2>4
<1> QED
  BY <1>4, <1>5 DEF ProcessDriftCheck

(* processDriftCheck keeps the invariant. *)
LEMMA ProcessDriftCheckBasics ==
    ASSUME Basics, NEW w \in Processes, ProcessDriftCheck(w)
    PROVE  Basics'
<1>1. TypeOK'
  BY ProcessDriftCheckTyped DEF Basics
<1>2. /\ Only(w) /\ Left(w)
      /\ \A q \in Processes : op'[q] \in {op[q], Idle}
      /\ seen'[w].current \in {0, seen[w].current}
  <2>1. CASE Forget(w)
    BY <2>1, ForgetFrame DEF ProcessDriftCheck, Basics
  <2>2. CASE stage' = [stage EXCEPT ![w] = "failing"] /\ UNCHANGED <<op, seen, reply>>
    BY <2>2 DEF ProcessDriftCheck, Release, Only, Left, Basics, TypeOK, ProcessesTyped
  <2> QED
    BY <2>1, <2>2 DEF ProcessDriftCheck
<1>3. PICK c : c = op[w].check
  OBVIOUS
<1>4. Protects(w)
  BY <1>3, ProcessDriftCheckEffect DEF Protects
<1>5. UNCHANGED <<versions, current>> /\ Counting'
  BY DEF ProcessDriftCheck, Basics, Counting
<1>6. Grows
  <2>1. c \in Checks /\ check[c].status # "absent"
    BY <1>3, ProcessDriftCheckEffect DEF ProcessDriftCheck, Basics, Naming
  <2> QED
    BY SMTT(30), <1>3, <1>5, <2>1, ProcessDriftCheckEffect DEF Grows, Basics, Naming, TypeOK, TablesTyped
<1> QED
  BY <1>1, <1>2, <1>4, <1>5, <1>6, LeavingKeepsReads, NamesStay DEF Basics

(* Its rollback keeps it. *)
LEMMA RollBackBasics ==
    ASSUME Basics, NEW w \in Processes, RollBack(w)
    PROVE  Basics'
<1>1. UNCHANGED tables /\ op' = op /\ seen' = seen
  BY DEF RollBack, tables
<1>2. Only(w) /\ Left(w) /\ ProcessesTyped'
  BY DEF RollBack, Release, Only, Left, Basics, TypeOK, ProcessesTyped, Stages
<1>3. Grows /\ Counting' /\ Protects(w) /\ TypeOK'
  BY <1>1, <1>2, QuietTables, QuietTypes DEF Basics
<1> QED
  BY <1>1, <1>2, <1>3, LeavingKeepsReads, NamesStay DEF Basics

(* An answered request is forgotten, a process dies. *)
LEMMA FinishOrCrashBasics ==
    ASSUME Basics, NEW p \in Processes, Finish(p) \/ Crash(p)
    PROVE  Basics'
<1>1. UNCHANGED tables /\ Forget(p) /\ (Release(p) \/ UNCHANGED lock)
  BY DEF Finish, Crash, tables
<1>2. Grows /\ Counting' /\ Protects(p) /\ TypeOK'
  BY <1>1, QuietTables, ForgetTyped, QuietTypes DEF Basics, TypeOK
<1> QED
  BY <1>1, <1>2, ForgetFrame, LeavingKeepsReads, NamesStay DEF Basics

(* The catch block changes its own check only, and nobody holds that row. *)
LEMMA MarkFailedEffect ==
    ASSUME Basics, NEW w \in Processes, MarkFailed(w),
           NEW c, c = op[w].check
    PROVE  /\ c \in Checks /\ lock[CheckRow(c)] = None
           /\ UNCHANGED <<versions, current, scenario, event>>
           /\ \A d \in Checks :
                 /\ check'[d].baseline = check[d].baseline /\ check'[d].asOf = check[d].asOf
                 /\ \/ check'[d].status = check[d].status
                    \/ d = c /\ check'[d].status = "failed"
<1>1. c \in Checks /\ check[c].status # "absent"
  BY OperationShape DEF MarkFailed, Basics, Naming, TypeOK, TablesTyped, ProcessesTyped
<1>2. lock[CheckRow(c)] = None /\ UNCHANGED <<versions, current, scenario, event>>
  BY DEF MarkFailed, Free
<1>3. CASE check' = check
  BY <1>1, <1>2, <1>3
<1>4. CASE check' = [check EXCEPT ![c].status = "failed", ![c].attempts = @ + 1]
  <2>1. \A d \in Checks :
           check'[d].baseline = check[d].baseline /\ check'[d].asOf = check[d].asOf
    BY <1>1, <1>4, AttemptCounted DEF Basics
  <2>2. \A d \in Checks :
           check'[d].status = check[d].status \/ (d = c /\ check'[d].status = "failed")
    BY <1>1, <1>4 DEF Basics, TypeOK, TablesTyped, CheckRows
  <2> QED
    BY <1>1, <1>2, <2>1, <2>2
<1> QED
  BY <1>3, <1>4 DEF MarkFailed

(* The catch block keeps the invariant. *)
LEMMA MarkFailedBasics ==
    ASSUME Basics, NEW w \in Processes, MarkFailed(w)
    PROVE  Basics'
<1>1. TypeOK'
  BY MarkFailedTyped DEF Basics
<1>2. /\ Only(w) /\ Left(w) /\ \A q \in Processes : op'[q] \in {op[q], Idle}
      /\ seen'[w].current = 0
  BY ForgetFrame DEF MarkFailed, Basics
<1>3. PICK c : c = op[w].check
  OBVIOUS
<1>4. Protects(w) /\ UNCHANGED <<versions, current>>
  BY <1>3, MarkFailedEffect DEF Protects
<1>5. Counting'
  BY <1>4 DEF Basics, Counting
<1>6. Grows
  BY <1>3, <1>4, MarkFailedEffect DEF Grows, Basics, Naming, TypeOK, TablesTyped
<1> QED
  BY <1>1, <1>2, <1>4, <1>5, <1>6, LeavingKeepsReads, NamesStay DEF Basics

(* What acceptDriftEvent decides on is so when it commits. *)
LEMMA AcceptDriftEventEffect ==
    ASSUME Basics, NEW p \in Processes, AcceptDriftEvent(p), NEW c, c = op[p].check
    PROVE  /\ c \in Checks
           /\ lock[EventRow(c)] = p
           /\ event[c].status = "pending" /\ check[c].status = "completed"
           /\ event[c].baseline = Len(versions)
           /\ Len(versions) \in Nat \ {0}
           /\ Counting' /\ lock[Household] = p
           /\ current' = Len(versions) + 1
           /\ Len(versions') = Len(versions) + 1
           /\ \A i \in 1..Len(versions) : versions'[i] = versions[i]
           /\ versions'[Len(versions) + 1] =
                 [number |-> Len(versions) + 1, inputs |-> event[c].inputs,
                  asOf |-> check[c].asOf, origin |-> c]
           /\ event' = [event EXCEPT ![c].status = "accepted", ![c].expired = FALSE,
                                     ![c].createdVersion = Len(versions) + 1]
           /\ UNCHANGED <<scenario, check>>
<1>1. c \in Checks /\ event[c] \in EventRows /\ check[c] \in CheckRows
  BY OperationShape DEF AcceptDriftEvent, Basics, TypeOK, TablesTyped, ProcessesTyped
<1>2. lock[EventRow(c)] = p
  BY DEF AcceptDriftEvent, Basics, Holding, Holds, Targeting, TargetRow
<1>3. event[c].status = "pending"
  BY DEF AcceptDriftEvent, Basics, ReadsStayTrue, SeesTruth, Targeting, StatusOf
<1>4. check[c].status = "completed" /\ event[c].baseline \in 1..Len(versions)
  BY <1>1, <1>3 DEF AcceptDriftEvent, Basics, TypeOK, TablesTyped
<1>5. event[c].inputs \in Inputs /\ check[c].asOf \in Dates
  BY <1>1, <1>4 DEF EventRows, Basics, TypeOK, TablesTyped
<1>6. /\ Counting' /\ lock[Household] = p /\ current' = Len(versions) + 1
      /\ seen[p].current = Len(versions)
      /\ Len(versions) \in Nat /\ Len(versions') = Len(versions) + 1
      /\ \A i \in 1..Len(versions) : versions'[i] = versions[i]
      /\ versions'[Len(versions) + 1] =
            [number |-> Len(versions) + 1, inputs |-> event[c].inputs,
             asOf |-> check[c].asOf, origin |-> c]
  <2>1. /\ stage[p] = "plan" /\ op[p].kind \in HouseholdKinds
        /\ PublishVersion(p, event[c].inputs, check[c].asOf, c)
    BY DEF AcceptDriftEvent, HouseholdKinds
  <2> QED
    BY <1>1, <1>5, <2>1, PublishCounts
<1>7. event[c].baseline = Len(versions) /\ Len(versions) # 0
  <2>1. event[c].baseline = seen[p].current
    BY DEF AcceptDriftEvent
  <2> QED
    BY <1>4, <1>6, <2>1
<1> QED
  BY <1>1, <1>2, <1>3, <1>4, <1>6, <1>7 DEF AcceptDriftEvent

(* acceptDriftEvent keeps the invariant. *)
LEMMA AcceptDriftEventBasics ==
    ASSUME Basics, NEW p \in Processes, AcceptDriftEvent(p)
    PROVE  Basics'
<1>1. TypeOK'
  BY AcceptDriftEventTyped DEF Basics
<1>2. Only(p) /\ Left(p) /\ op' = op /\ seen' = seen
  BY AnswerFrame DEF AcceptDriftEvent, Basics
<1>3. PICK c : c = op[p].check
  OBVIOUS
<1>4. /\ c \in Checks /\ lock[EventRow(c)] = p /\ lock[Household] = p
      /\ check[c].status = "completed"
      /\ Counting' /\ Len(versions) \in Nat /\ Len(versions') = Len(versions) + 1
      /\ UNCHANGED <<scenario, check>>
  BY <1>3, AcceptDriftEventEffect, ZenonT(60)
<1>5. event'[c].status = "accepted" /\ \A d \in Checks \ {c} : event'[d] = event[d]
  BY <1>3, <1>4 DEF AcceptDriftEvent, Basics, TypeOK, TablesTyped, EventRows
<1>6. Len(versions') \in Nat /\ Len(versions) <= Len(versions')
  BY <1>4
<1>7. Protects(p)
  BY <1>4, <1>5 DEF Protects
<1>8. Grows
  BY <1>4, <1>5, <1>6 DEF Grows, Basics, Naming
<1> QED
  BY <1>1, <1>2, <1>4, <1>7, <1>8, LeavingKeepsReads, NamesStay DEF Basics

(* keepDriftEvent changes its own event only. *)
LEMMA KeepDriftEventEffect ==
    ASSUME Basics, NEW p \in Processes, KeepDriftEvent(p), NEW c, c = op[p].check
    PROVE  /\ c \in Checks /\ lock[EventRow(c)] = p
           /\ event[c].status = "pending"
           /\ event'[c].status = "kept" /\ event'[c].baseline = event[c].baseline
           /\ \A d \in Checks \ {c} : event'[d] = event[d]
           /\ UNCHANGED <<versions, current, scenario, check>>
<1>1. c \in Checks /\ event[c] \in EventRows
  BY OperationShape DEF KeepDriftEvent, Basics, TypeOK, TablesTyped, ProcessesTyped
<1>2. lock[EventRow(c)] = p /\ event[c].status = "pending"
  BY DEF KeepDriftEvent, Basics, Holding, Holds, ReadsStayTrue, SeesTruth, Targeting,
         TargetRow, StatusOf
<1>3. /\ event'[c].status = "kept" /\ event'[c].baseline = event[c].baseline
      /\ \A d \in Checks \ {c} : event'[d] = event[d]
  BY <1>1 DEF KeepDriftEvent, Basics, TypeOK, TablesTyped, EventRows
<1> QED
  BY <1>1, <1>2, <1>3 DEF KeepDriftEvent

(* keepDriftEvent keeps the invariant. *)
LEMMA KeepDriftEventBasics ==
    ASSUME Basics, NEW p \in Processes, KeepDriftEvent(p)
    PROVE  Basics'
<1>1. TypeOK'
  BY KeepDriftEventTyped DEF Basics
<1>2. Only(p) /\ Left(p) /\ op' = op /\ seen' = seen
  BY AnswerFrame DEF KeepDriftEvent, Basics
<1>3. PICK c : c = op[p].check
  OBVIOUS
<1>4. Protects(p) /\ UNCHANGED <<versions, current, scenario, check>>
  BY <1>3, KeepDriftEventEffect DEF Protects
<1>5. Counting'
  BY <1>4 DEF Basics, Counting
<1>6. Grows
  BY <1>3, <1>4, KeepDriftEventEffect DEF Grows, Basics, Naming, TypeOK, TablesTyped
<1> QED
  BY <1>1, <1>2, <1>4, <1>5, <1>6, LeavingKeepsReads, NamesStay DEF Basics

(* The retention belongs to no process: it touches only rows nobody holds. *)
LEMMA NobodysStep ==
    ASSUME Basics, TypeOK', Counting', Grows, Protects(None), UNCHANGED <<lock, stage, op, seen>>
    PROVE  Basics'
<1>1. Only(None)
  BY DEF Only
<1>2. \A q \in Processes : q \in Processes \ {None}
  BY ProcessesAreDistinct
<1> QED
  BY <1>1, <1>2, OthersHold, OthersSeeTruth, NamesStay DEF Basics, Holding, ReadsStayTrue

(* The deadline of a check changes no status. *)
LEMMA ExpireCheckBasics ==
    ASSUME Basics, NEW c \in Checks, ExpireCheck(c)
    PROVE  Basics'
<1>1. UNCHANGED <<versions, current, scenario, event, lock, stage, op, seen>>
  BY DEF ExpireCheck, process
<1>2. \A d \in Checks : check'[d].status = check[d].status
  BY DEF ExpireCheck, Basics, TypeOK, TablesTyped, CheckRows
<1>3. TypeOK'
  BY ExpireCheckTyped DEF Basics
<1>4. Protects(None) /\ Counting'
  BY <1>1, <1>2 DEF Protects, Basics, Counting
<1>5. Grows
  BY <1>1, <1>2 DEF Grows, Basics, Naming, TypeOK, TablesTyped
<1> QED
  BY <1>1, <1>3, <1>4, <1>5, NobodysStep

(* The deadline of an event changes no status. *)
LEMMA ExpireEventBasics ==
    ASSUME Basics, NEW c \in Checks, ExpireEvent(c)
    PROVE  Basics'
<1>1. UNCHANGED <<versions, current, scenario, check, lock, stage, op, seen>>
  BY DEF ExpireEvent, process
<1>2. \A d \in Checks : event'[d].status = event[d].status
  BY DEF ExpireEvent, Basics, TypeOK, TablesTyped, EventRows
<1>3. TypeOK'
  BY ExpireEventTyped DEF Basics
<1>4. Protects(None) /\ Counting'
  BY <1>1, <1>2 DEF Protects, Basics, Counting
<1>5. Grows
  BY <1>1, <1>2 DEF Grows, Basics, Naming, TypeOK, TablesTyped
<1> QED
  BY <1>1, <1>3, <1>4, <1>5, NobodysStep

(* The cleanup deletes only rows nobody holds. *)
LEMMA CleanupBasics ==
    ASSUME Basics, CleanupEvents \/ CleanupChecks
    PROVE  Basics'
<1>1. /\ \A c \in Checks : CleanedUp(c)
      /\ UNCHANGED <<versions, current, scenario, lock, stage, op, seen>>
  BY CleanupEffect DEF Basics
<1>2. TypeOK'
  BY CleanupTyped DEF Basics
<1>3. Protects(None) /\ Counting'
  BY <1>1 DEF CleanedUp, Free, Protects, Basics, Counting
<1>4. Grows
  BY <1>1 DEF CleanedUp, Live, Grows, Basics, Naming, TypeOK, TablesTyped
<1> QED
  BY <1>1, <1>2, <1>3, <1>4, NobodysStep

(* The empty database satisfies the invariant. *)
LEMMA InitBasics == Init => Basics
<1> SUFFICES ASSUME Init PROVE Basics
  OBVIOUS
<1>1. TypeOK
  BY InitTypeOK
<1>2. Counting
  BY DEF Init, Counting
<1>3. \A p \in Processes : op[p] = Idle /\ stage[p] = "idle" /\ seen[p].current = 0
  BY DEF Init, Nothing
<1>4. \A c \in Checks : event[c].status = "absent"
  BY DEF Init, NoEvent
<1>5. Naming
  BY <1>3, <1>4 DEF Naming, Idle, Processes
<1>6. Holding /\ ReadsStayTrue
  BY <1>2, <1>3 DEF Holding, Holds, ReadsStayTrue, SeesTruth, Init, Counting
<1> QED
  BY <1>1, <1>2, <1>5, <1>6 DEF Basics

(* Every step of a client keeps it. *)
LEMMA ClientBasics ==
    ASSUME Basics, NEW p \in Clients,
           \/ \E o \in Sendable : Begin(p, o)
           \/ Locking(p) \/ ReadPlan(p) \/ Commit(p)
           \/ Finish(p) \/ Crash(p)
    PROVE  Basics'
<1> USE DEF Processes
<1>1. CASE \E o \in Sendable : Begin(p, o)
  BY <1>1, BeginBasics, SendableNamed DEF Basics
<1>2. CASE Locking(p)
  BY <1>2, LockHouseholdBasics, LockRowBasics, LockPlanBasics DEF Locking
<1>3. CASE ReadPlan(p)
  BY <1>3, ReadPlanBasics
<1>4. CASE AnswersOnly(p)
  BY <1>4, AnswersOnlyBasics
<1>5. CASE RecalculatePlan(p) \/ CreateScenario(p) \/ ApplyScenario(p)
  BY <1>5, RecalculatePlanBasics, CreateScenarioBasics, ApplyScenarioBasics
<1>6. CASE CreateCheck(p) \/ AcceptDriftEvent(p) \/ KeepDriftEvent(p)
  BY <1>6, CreateCheckBasics, AcceptDriftEventBasics, KeepDriftEventBasics
<1>7. CASE Finish(p) \/ Crash(p)
  BY <1>7, FinishOrCrashBasics
<1> QED
  BY <1>1, <1>2, <1>3, <1>4, <1>5, <1>6, <1>7 DEF Commit, AnswersOnly

(* Every step of a worker keeps it. *)
LEMMA WorkerBasics ==
    ASSUME Basics, NEW w \in Workers,
           \/ \E o \in Deliverable : Begin(w, o)
           \/ LockRow(w) \/ ProcessDriftCheck(w) \/ RollBack(w) \/ MarkFailed(w) \/ Crash(w)
    PROVE  Basics'
<1> USE DEF Processes
<1>1. CASE \E o \in Deliverable : Begin(w, o)
  BY <1>1, BeginBasics, DeliverableNamed
<1>2. CASE LockRow(w)
  BY <1>2, LockRowBasics
<1>3. CASE ProcessDriftCheck(w)
  BY <1>3, ProcessDriftCheckBasics
<1>4. CASE RollBack(w) \/ MarkFailed(w) \/ Crash(w)
  BY <1>4, RollBackBasics, MarkFailedBasics, FinishOrCrashBasics
<1> QED
  BY <1>1, <1>2, <1>3, <1>4

(* Stuttering keeps it. *)
LEMMA StutterBasics ==
    ASSUME Basics, UNCHANGED vars
    PROVE  Basics'
<1>1. TypeOK' /\ Counting' /\ Naming'
  BY DEF vars, Basics, TypeOK, TablesTyped, ProcessesTyped, Counting, Naming
<1>2. Grows /\ Protects(None)
  <2>1. UNCHANGED tables
    BY DEF vars, tables
  <2> QED
    BY <2>1, QuietTables
<1> QED
  BY <1>1, <1>2, NobodysStep DEF vars

(* The invariant is inductive. *)
LEMMA NextBasics == Basics /\ [Next]_vars => Basics'
<1> SUFFICES ASSUME Basics, [Next]_vars PROVE Basics'
  OBVIOUS
<1>1. CASE UNCHANGED vars
  BY <1>1, StutterBasics
<1>2. CASE Next
  BY <1>2, ClientBasics, WorkerBasics, ExpireCheckBasics, ExpireEventBasics, CleanupBasics
     DEF Next
<1> QED
  BY <1>1, <1>2

(* The inductive invariant: rows are typed and their references exist,     *)
(* version numbers count the versions, and the reads of a transaction stay *)
(* true because it holds the locks of what it read.                        *)
THEOREM BasicsHold == Spec => []Basics
<1>1. Init => Basics
  BY InitBasics
<1>2. Basics /\ [Next]_vars => Basics'
  BY NextBasics
<1> QED
  BY <1>1, <1>2, PTL DEF Spec

(* Type correctness, the references between the tables included. *)
THEOREM TypeCorrect == Spec => []TypeOK
<1>1. Basics => TypeOK
  BY DEF Basics
<1> QED
  BY <1>1, BasicsHold, PTL

(* A decision is taken on what is still the case: what a transaction read  *)
(* under its locks holds until it commits, with any number of clients and  *)
(* workers, and however often any of them fails.                           *)
THEOREM ReadsAreStable == Spec => []ReadsStayTrue
<1>1. Basics => ReadsStayTrue
  BY DEF Basics
<1> QED
  BY <1>1, BasicsHold, PTL

----------------------------------------------------------------------------
(* Decisions, on top of the inductive invariant *)

Decisions == DecisionsFollowTheirBasis /\ OneVersionPerDecision

(* A step that publishes nothing and decides nothing. *)
Settled ==
    /\ UNCHANGED <<versions, current>>
    /\ \A s \in Scenarios :
          \/ scenario'[s] = scenario[s]
          \/ scenario[s].status # "applied" /\ scenario'[s].status # "applied"
    /\ \A c \in Checks : check[c].status # "absent" => check'[c].asOf = check[c].asOf
    /\ \A c \in Checks :
          \/ /\ event'[c].status = event[c].status
             /\ event'[c].baseline = event[c].baseline
             /\ event'[c].inputs = event[c].inputs
             /\ event'[c].createdVersion = event[c].createdVersion
          \/ event[c].status # "accepted" /\ event'[c].status # "accepted"

(* A settled step keeps every version on its basis. *)
LEMMA SettledKeepsFollowing ==
    ASSUME Basics, Decisions, Settled
    PROVE  DecisionsFollowTheirBasis'
<1>1. ASSUME NEW i \in 1..Len(versions), versions[i].origin \in Scenarios
      PROVE  scenario'[versions[i].origin] = scenario[versions[i].origin]
  BY <1>1 DEF Decisions, OneVersionPerDecision, Settled
<1>2. ASSUME NEW i \in 1..Len(versions), versions[i].origin \in Checks
      PROVE  /\ event'[versions[i].origin].baseline = event[versions[i].origin].baseline
             /\ event'[versions[i].origin].inputs = event[versions[i].origin].inputs
             /\ check'[versions[i].origin].asOf = check[versions[i].origin].asOf
  <2>1. event[versions[i].origin].status = "accepted"
    BY <1>2 DEF Decisions, OneVersionPerDecision
  <2>2. check[versions[i].origin].status # "absent"
    BY <1>2, <2>1 DEF Basics, Naming
  <2> QED
    BY <1>2, <2>1, <2>2 DEF Settled
<1>3. versions' = versions /\ current' = current
  BY DEF Settled
<1>4. ASSUME NEW i \in 1..Len(versions)
      PROVE  FollowsItsBasis(i)'
  <2>1. FollowsItsBasis(i)
    BY DEF Decisions, DecisionsFollowTheirBasis
  <2>2. CASE versions[i].origin \in Scenarios
    BY <1>1, <1>3, <2>1, <2>2, ProposalsAreDistinct DEF FollowsItsBasis
  <2>3. CASE versions[i].origin \in Checks
    BY <1>2, <1>3, <2>1, <2>3, ProposalsAreDistinct DEF FollowsItsBasis
  <2>4. CASE versions[i].origin \notin Scenarios \cup Checks
    BY <1>3, <2>1, <2>4 DEF FollowsItsBasis
  <2> QED
    BY <2>2, <2>3, <2>4
<1> QED
  BY <1>3, <1>4 DEF Decisions, DecisionsFollowTheirBasis

(* A settled step keeps one version per decision. *)
LEMMA SettledKeepsUnique ==
    ASSUME Decisions, Settled
    PROVE  OneVersionPerDecision'
BY DEF Decisions, OneVersionPerDecision, Settled

(* A step that publishes: the versions so far are kept, and the new one    *)
(* has an origin none of them has, or none.                                *)
Published(origin) ==
    /\ Len(versions) \in Nat /\ Len(versions') = Len(versions) + 1
    /\ current' = Len(versions) + 1
    /\ \A i \in 1..Len(versions) : versions'[i] = versions[i]
    /\ versions'[Len(versions) + 1].number = Len(versions) + 1
    /\ versions'[Len(versions) + 1].origin = origin

(* The rows of earlier decisions are kept. *)
OthersSettled(origin) ==
    /\ \A s \in Scenarios \ {origin} : scenario'[s] = scenario[s]
    /\ \A c \in Checks \ {origin} : event'[c] = event[c]
    /\ check' = check

(* A publication leaves the earlier versions on their basis. *)
LEMMA EarlierVersionsFollow ==
    ASSUME Decisions, NEW origin, Published(origin), OthersSettled(origin),
           \A i \in 1..Len(versions) : versions[i].origin = origin => origin = None,
           NEW i \in 1..Len(versions)
    PROVE  FollowsItsBasis(i)'
<1>1. FollowsItsBasis(i)
  BY DEF Decisions, DecisionsFollowTheirBasis
<1>2. /\ versions'[i] = versions[i]
      /\ i > 1 => versions'[i - 1] = versions[i - 1]
  BY DEF Published
<1>3. versions[i].origin \in Scenarios => scenario'[versions[i].origin] = scenario[versions[i].origin]
  BY ProposalsAreDistinct DEF OthersSettled
<1>4. versions[i].origin \in Checks => event'[versions[i].origin] = event[versions[i].origin]
  BY ProposalsAreDistinct DEF OthersSettled
<1>5. CASE versions[i].origin \in Scenarios
  BY <1>1, <1>2, <1>3, <1>5, ProposalsAreDistinct DEF FollowsItsBasis
<1>6. CASE versions[i].origin \in Checks
  BY <1>1, <1>2, <1>4, <1>6, ProposalsAreDistinct DEF FollowsItsBasis, OthersSettled
<1>7. CASE versions[i].origin \notin Scenarios \cup Checks
  BY <1>1, <1>2, <1>7 DEF FollowsItsBasis
<1> QED
  BY <1>5, <1>6, <1>7

(* recalculatePlan publishes a version without an origin. *)
LEMMA RecalculatePlanPublishes ==
    ASSUME Basics, NEW p \in Processes, RecalculatePlan(p)
    PROVE  Published(None)
<1>1. op[p].inputs \in Inputs /\ op[p].asOf \in Dates
  BY OperationShape DEF RecalculatePlan, Basics, TypeOK, ProcessesTyped
<1>2. /\ stage[p] = "plan" /\ op[p].kind \in HouseholdKinds
      /\ PublishVersion(p, op[p].inputs, op[p].asOf, None)
  BY DEF RecalculatePlan, HouseholdKinds
<1>3. /\ current' = Len(versions) + 1
      /\ Len(versions) \in Nat /\ Len(versions') = Len(versions) + 1
      /\ \A i \in 1..Len(versions) : versions'[i] = versions[i]
      /\ versions'[Len(versions) + 1] =
            [number |-> Len(versions) + 1, inputs |-> op[p].inputs, asOf |-> op[p].asOf,
             origin |-> None]
  BY <1>1, <1>2, PublishCounts
<1> QED
  BY <1>3 DEF Published

(* recalculatePlan keeps both properties. *)
LEMMA RecalculatePlanDecisions ==
    ASSUME Basics, Decisions, NEW p \in Processes, RecalculatePlan(p)
    PROVE  Decisions'
<1>1. Published(None)
  BY RecalculatePlanPublishes
<1>2. UNCHANGED <<scenario, check, event>>
  BY DEF RecalculatePlan
<1>3. OthersSettled(None)
  BY <1>2 DEF OthersSettled
<1>4. DecisionsFollowTheirBasis'
  <2>1. ASSUME NEW i \in 1..Len(versions')
        PROVE  FollowsItsBasis(i)'
    <3>1. CASE i = Len(versions) + 1
      BY <1>1, <3>1, ProposalsAreDistinct DEF Published, FollowsItsBasis
    <3>2. CASE i \in 1..Len(versions)
      BY <1>1, <1>3, <3>2, EarlierVersionsFollow
    <3> QED
      BY <1>1, <3>1, <3>2 DEF Published
  <2> QED
    BY <1>1, <2>1 DEF DecisionsFollowTheirBasis, Published
<1>5. OneVersionPerDecision'
  BY <1>1, <1>2, ProposalsAreDistinct DEF Decisions, OneVersionPerDecision, Published
<1> QED
  BY <1>4, <1>5 DEF Decisions

(* applyScenario keeps both: a draft has no version yet. *)
LEMMA ApplyScenarioDecisions ==
    ASSUME Basics, Decisions, NEW p \in Processes, ApplyScenario(p)
    PROVE  Decisions'
<1>1. PICK s : s = op[p].scenario
  OBVIOUS
<1>2. /\ s \in Scenarios /\ s \notin Checks /\ s # None
      /\ scenario[s].status = "draft" /\ scenario[s].baseline = Len(versions)
      /\ Len(versions) \in Nat \ {0} /\ Len(versions') = Len(versions) + 1
      /\ current' = Len(versions) + 1
      /\ \A i \in 1..Len(versions) : versions'[i] = versions[i]
      /\ versions'[Len(versions) + 1] =
            [number |-> Len(versions) + 1,
             inputs |-> Merge(versions[Len(versions)].inputs, scenario[s].overlay),
             asOf |-> versions[Len(versions)].asOf, origin |-> s]
  BY <1>1, ApplyScenarioEffect, ProposalsAreDistinct, ZenonT(60)
<1>3. /\ scenario'[s].status = "applied" /\ scenario'[s].appliedVersion = Len(versions) + 1
      /\ scenario'[s].baseline = scenario[s].baseline
      /\ scenario'[s].overlay = scenario[s].overlay
      /\ \A t \in Scenarios \ {s} : scenario'[t] = scenario[t]
  BY ZenonT(30), <1>1, <1>2 DEF ApplyScenario, Basics, TypeOK, TablesTyped, ScenarioRows
<1>4. UNCHANGED <<check, event>>
  BY DEF ApplyScenario
<1>5. Published(s)
  BY <1>2 DEF Published
<1>6. OthersSettled(s)
  BY <1>3, <1>4 DEF OthersSettled
<1>7. \A i \in 1..Len(versions) : versions[i].origin # s
  BY <1>2 DEF Decisions, OneVersionPerDecision
<1>8. DecisionsFollowTheirBasis'
  <2>1. ASSUME NEW i \in 1..Len(versions')
        PROVE  FollowsItsBasis(i)'
    <3>1. CASE i = Len(versions) + 1
      <4>1. versions'[i - 1] = versions[Len(versions)] /\ i > 1 /\ i - 1 = Len(versions)
        BY <1>2, <3>1
      <4>2. /\ versions'[i].number = i /\ versions'[i].origin = s
            /\ versions'[i].inputs = Merge(versions[Len(versions)].inputs, scenario[s].overlay)
            /\ versions'[i].asOf = versions[Len(versions)].asOf
        BY <1>2, <3>1
      <4> QED
        BY <1>2, <1>3, <4>1, <4>2 DEF FollowsItsBasis, Merge
    <3>2. CASE i \in 1..Len(versions)
      BY <1>5, <1>6, <1>7, <3>2, EarlierVersionsFollow
    <3> QED
      BY <1>2, <3>1, <3>2
  <2> QED
    BY <1>2, <2>1 DEF DecisionsFollowTheirBasis
<1>9. OneVersionPerDecision'
  BY SMTT(30), <1>2, <1>3, <1>4, <1>5, <1>7 DEF Decisions, OneVersionPerDecision, Published
<1> QED
  BY <1>8, <1>9 DEF Decisions

(* acceptDriftEvent keeps both: a pending event has no version yet. *)
LEMMA AcceptDriftEventDecisions ==
    ASSUME Basics, Decisions, NEW p \in Processes, AcceptDriftEvent(p)
    PROVE  Decisions'
<1>1. PICK c : c = op[p].check
  OBVIOUS
<1>2. /\ c \in Checks /\ c \notin Scenarios /\ c # None
      /\ event[c].status = "pending" /\ event[c].baseline = Len(versions)
      /\ Len(versions) \in Nat \ {0} /\ Len(versions') = Len(versions) + 1
      /\ current' = Len(versions) + 1
      /\ \A i \in 1..Len(versions) : versions'[i] = versions[i]
      /\ versions'[Len(versions) + 1] =
            [number |-> Len(versions) + 1, inputs |-> event[c].inputs,
             asOf |-> check[c].asOf, origin |-> c]
      /\ UNCHANGED <<scenario, check>>
  BY <1>1, AcceptDriftEventEffect, ProposalsAreDistinct, ZenonT(60)
<1>3. /\ event'[c].status = "accepted" /\ event'[c].createdVersion = Len(versions) + 1
      /\ event'[c].baseline = event[c].baseline
      /\ event'[c].inputs = event[c].inputs
      /\ \A d \in Checks \ {c} : event'[d] = event[d]
  BY ZenonT(30), <1>1, <1>2 DEF AcceptDriftEvent, Basics, TypeOK, TablesTyped, EventRows
<1>4. Published(c)
  BY <1>2 DEF Published
<1>5. OthersSettled(c)
  BY <1>2, <1>3 DEF OthersSettled
<1>6. \A i \in 1..Len(versions) : versions[i].origin # c
  BY <1>2 DEF Decisions, OneVersionPerDecision
<1>7. DecisionsFollowTheirBasis'
  <2>1. ASSUME NEW i \in 1..Len(versions')
        PROVE  FollowsItsBasis(i)'
    <3>1. CASE i = Len(versions) + 1
      <4>1. /\ i > 1 /\ i - 1 = Len(versions)
            /\ versions'[i].number = i /\ versions'[i].origin = c
            /\ versions'[i].inputs = event'[c].inputs
            /\ versions'[i].asOf = check'[c].asOf
        BY <1>2, <1>3, <3>1
      <4> QED
        BY <1>2, <1>3, <4>1 DEF FollowsItsBasis
    <3>2. CASE i \in 1..Len(versions)
      BY <1>4, <1>5, <1>6, <3>2, EarlierVersionsFollow
    <3> QED
      BY <1>2, <3>1, <3>2
  <2> QED
    BY <1>2, <2>1 DEF DecisionsFollowTheirBasis
<1>8. OneVersionPerDecision'
  BY SMTT(30), <1>2, <1>3, <1>4, <1>6 DEF Decisions, OneVersionPerDecision, Published
<1> QED
  BY <1>7, <1>8 DEF Decisions

(* A settled step keeps both properties. *)
LEMMA SettledDecisions ==
    ASSUME Basics, Decisions, Settled
    PROVE  Decisions'
BY SettledKeepsFollowing, SettledKeepsUnique DEF Decisions

(* A step that leaves the tables alone is settled. *)
LEMMA QuietSettled ==
    ASSUME UNCHANGED tables
    PROVE  Settled
BY DEF tables, Settled

(* Every step of a client keeps both properties. *)
LEMMA ClientDecisions ==
    ASSUME Basics, Decisions, NEW p \in Clients,
           \/ \E o \in Sendable : Begin(p, o)
           \/ Locking(p) \/ ReadPlan(p) \/ Commit(p)
           \/ Finish(p) \/ Crash(p)
    PROVE  Decisions'
<1> USE DEF Processes
<1>1. CASE (\E o \in Sendable : Begin(p, o)) \/ Locking(p) \/ ReadPlan(p) \/ Finish(p) \/ Crash(p)
  <2>1. UNCHANGED tables
    BY <1>1 DEF Begin, Locking, LockHousehold, LockRow, LockPlan, ReadPlan, Finish, Crash, tables
  <2> QED
    BY <2>1, QuietSettled, SettledDecisions
<1>2. CASE AnswersOnly(p)
  <2>1. UNCHANGED tables
    BY <1>2, AnswersOnlyEffect DEF Basics
  <2> QED
    BY <2>1, QuietSettled, SettledDecisions
<1>3. CASE RecalculatePlan(p)
  BY <1>3, RecalculatePlanDecisions
<1>4. CASE ApplyScenario(p)
  BY <1>4, ApplyScenarioDecisions
<1>5. CASE AcceptDriftEvent(p)
  BY <1>5, AcceptDriftEventDecisions
<1>6. CASE CreateScenario(p)
  <2>1. Settled
    BY <1>6 DEF CreateScenario, Settled, Basics, TypeOK, TablesTyped
  <2> QED
    BY <2>1, SettledDecisions
<1>7. CASE CreateCheck(p)
  <2>1. UNCHANGED <<versions, current, scenario, event>>
    BY <1>7 DEF CreateCheck
  <2>2. \A c \in Checks : check[c].status # "absent" => check'[c] = check[c]
    BY <1>7 DEF CreateCheck, Basics, TypeOK, TablesTyped
  <2>3. Settled
    BY <2>1, <2>2 DEF Settled
  <2> QED
    BY <2>3, SettledDecisions
<1>8. CASE KeepDriftEvent(p)
  <2>1. PICK c : c = op[p].check
    OBVIOUS
  <2>2. Settled
    BY <1>8, <2>1, KeepDriftEventEffect DEF Settled
  <2> QED
    BY <2>2, SettledDecisions
<1> QED
  BY <1>1, <1>2, <1>3, <1>4, <1>5, <1>6, <1>7, <1>8 DEF Commit, AnswersOnly

(* Every step of a worker is settled. *)
LEMMA WorkerDecisions ==
    ASSUME Basics, Decisions, NEW w \in Workers,
           \/ \E o \in Deliverable : Begin(w, o)
           \/ LockRow(w) \/ ProcessDriftCheck(w) \/ RollBack(w) \/ MarkFailed(w) \/ Crash(w)
    PROVE  Decisions'
<1> USE DEF Processes
<1>1. CASE (\E o \in Deliverable : Begin(w, o)) \/ LockRow(w) \/ RollBack(w) \/ Crash(w)
  <2>1. UNCHANGED tables
    BY <1>1 DEF Begin, LockRow, RollBack, Crash, tables
  <2> QED
    BY <2>1, QuietSettled, SettledDecisions
<1>2. PICK c : c = op[w].check
  OBVIOUS
<1>3. CASE ProcessDriftCheck(w)
  <2>1. Settled
    BY <1>2, <1>3, ProcessDriftCheckEffect DEF Settled
  <2> QED
    BY <2>1, SettledDecisions
<1>4. CASE MarkFailed(w)
  <2>1. Settled
    BY <1>2, <1>4, MarkFailedEffect DEF Settled
  <2> QED
    BY <2>1, SettledDecisions
<1> QED
  BY <1>1, <1>3, <1>4

(* The retention is settled. *)
LEMMA RetentionDecisions ==
    ASSUME Basics, Decisions,
           \/ \E c \in Checks : ExpireCheck(c) \/ ExpireEvent(c)
           \/ CleanupEvents
           \/ CleanupChecks
    PROVE  Decisions'
<1>1. CASE \E c \in Checks : ExpireCheck(c)
  <2>1. Settled
    BY <1>1 DEF ExpireCheck, Settled, Basics, TypeOK, TablesTyped, CheckRows
  <2> QED
    BY <2>1, SettledDecisions
<1>2. CASE \E c \in Checks : ExpireEvent(c)
  <2>1. Settled
    BY <1>2 DEF ExpireEvent, Settled, Basics, TypeOK, TablesTyped, EventRows
  <2> QED
    BY <2>1, SettledDecisions
<1>3. CASE CleanupEvents \/ CleanupChecks
  <2>1. Settled
    BY <1>3, CleanupEffect DEF CleanedUp, Settled, Basics
  <2> QED
    BY <2>1, SettledDecisions
<1> QED
  BY <1>1, <1>2, <1>3

(* Both hold of the empty database. *)
LEMMA InitDecisions == Init => Decisions
BY DEF Init, NoScenario, NoEvent, Decisions, DecisionsFollowTheirBasis, OneVersionPerDecision

(* Both are inductive relative to Basics. *)
LEMMA NextDecisions == Basics /\ Decisions /\ [Next]_vars => Decisions'
<1> SUFFICES ASSUME Basics, Decisions, [Next]_vars PROVE Decisions'
  OBVIOUS
<1>1. CASE UNCHANGED vars
  <2>1. UNCHANGED tables
    BY <1>1 DEF vars, tables
  <2> QED
    BY <2>1, QuietSettled, SettledDecisions
<1>2. CASE Next
  BY <1>2, ClientDecisions, WorkerDecisions, RetentionDecisions DEF Next
<1> QED
  BY <1>1, <1>2

(* Both properties hold of every reachable state. *)
THEOREM DecisionsHold == Spec => []Decisions
<1>1. Init => Decisions
  BY InitDecisions
<1>2. Basics /\ Decisions /\ [Next]_vars => Decisions'
  BY NextDecisions
<1> QED
  BY <1>1, <1>2, BasicsHold, PTL DEF Spec

(* A version that comes from a scenario or a drift event replaces exactly  *)
(* the version its author had seen.                                        *)
THEOREM DecisionsAreFollowed == Spec => []DecisionsFollowTheirBasis
<1>1. Decisions => DecisionsFollowTheirBasis
  BY DEF Decisions
<1> QED
  BY <1>1, DecisionsHold, PTL

(* Applying a scenario or accepting an event makes one version, however    *)
(* often the request is retried; keeping an event makes none.              *)
THEOREM DecisionsAreUnique == Spec => []OneVersionPerDecision
<1>1. Decisions => OneVersionPerDecision
  BY DEF Decisions
<1> QED
  BY <1>1, DecisionsHold, PTL

-------------------------------------------------------------------------------
(* The living plan implements the abstract plan history: every step of the *)
(* tables is a step of the history or leaves it alone.                     *)

(* An id that is not used yet has no baseline, and an event has the        *)
(* baseline of its check.                                                  *)
Baselines ==
    /\ \A s \in Scenarios : scenario[s].status = "absent" => scenario[s].baseline = 0
    /\ \A c \in Checks : event[c].status = "absent" => event[c].baseline = 0
    /\ \A c \in Checks : event[c].status # "absent" => event[c].baseline = check[c].baseline

(* The baselines of used ids never change. *)
Steady ==
    /\ \A s \in Scenarios :
          /\ scenario'[s].baseline = scenario[s].baseline
          /\ scenario'[s].status = "absent" => scenario[s].status = "absent"
    /\ \A c \in Checks :
          /\ event'[c].baseline = event[c].baseline
          /\ event'[c].status = "absent" <=> event[c].status = "absent"
          /\ event[c].status # "absent" => check'[c].baseline = check[c].baseline

(* A steady step keeps the baselines, and the abstract basis. *)
LEMMA SteadyBaselines ==
    ASSUME Baselines, Steady
    PROVE  Baselines' /\ UNCHANGED Basis
<1>1. \A x \in Scenarios \cup Checks : Basis'[x] = Basis[x]
  BY DEF Steady, Basis
<1> QED
  BY <1>1 DEF Baselines, Steady, Basis

(* A publication appends its origin to the history. *)
LEMMA OriginsAppended ==
    ASSUME NEW x, Published(x)
    PROVE  Origins' = Append(Origins, x) /\ Len(Origins) = Len(versions)
BY DEF Published, Origins

(* A step that publishes nothing keeps the history. *)
LEMMA OriginsKept ==
    ASSUME UNCHANGED versions
    PROVE  UNCHANGED Origins
BY DEF Origins

HistoryStep == [History!Next]_History!vars /\ Baselines'

(* A steady step that publishes nothing is a stutter of the history. *)
LEMMA SteadyStep ==
    ASSUME Baselines, Steady, UNCHANGED <<versions, current>>
    PROVE  HistoryStep
<1>1. UNCHANGED History!vars
  BY SteadyBaselines, OriginsKept DEF History!vars
<1> QED
  BY <1>1, SteadyBaselines DEF HistoryStep

(* So is a step that leaves the tables alone. *)
LEMMA QuietStep ==
    ASSUME Basics, Baselines, UNCHANGED tables
    PROVE  HistoryStep
<1>1. Steady /\ UNCHANGED <<versions, current>>
  BY DEF tables, Steady
<1> QED
  BY <1>1, SteadyStep

(* A first baseline given to a scenario or event is Propose. *)
LEMMA ProposeStep ==
    ASSUME NEW x \in Scenarios \cup Checks, NEW n \in 1..Len(versions),
           UNCHANGED <<versions, current>>, Baselines', Len(versions) \in Nat,
           Basis[x] = 0, Basis' = [Basis EXCEPT ![x] = n]
    PROVE  HistoryStep
<1>1. Len(Origins) = Len(versions)
  BY DEF Origins
<1>2. History!Propose(x)
  BY <1>1, OriginsKept DEF History!Propose
<1> QED
  BY <1>2 DEF HistoryStep, History!Next

(* A publication on the basis of an undecided proposal is Adopt. *)
LEMMA AdoptStep ==
    ASSUME Decisions, Baselines, NEW x \in Scenarios \cup Checks, Published(x), Steady,
           Len(versions) # 0, Basis[x] = Len(versions),
           \A i \in 1..Len(versions) : versions[i].origin # x
    PROVE  HistoryStep
<1>1. Origins' = Append(Origins, x) /\ Len(Origins) = Len(versions)
  BY OriginsAppended
<1>2. current = Len(versions) /\ current' = Len(versions) + 1
  BY DEF Decisions, DecisionsFollowTheirBasis, Published
<1>3. \A i \in 1..Len(Origins) : Origins[i] # x
  BY <1>1 DEF Origins
<1>4. History!Adopt(x)
  BY <1>1, <1>2, <1>3, SteadyBaselines DEF History!Adopt, History!Publish
<1> QED
  BY <1>4, SteadyBaselines DEF HistoryStep, History!Next

(* recalculatePlan implements Recalculate. *)
LEMMA RecalculatePlanStep ==
    ASSUME Basics, Baselines, NEW p \in Processes, RecalculatePlan(p)
    PROVE  HistoryStep
<1>1. Published(None)
  BY RecalculatePlanPublishes
<1>2. Steady
  BY DEF RecalculatePlan, Steady
<1>3. Origins' = Append(Origins, None) /\ Len(Origins) = Len(versions)
  BY <1>1, OriginsAppended
<1>4. History!Recalculate
  BY <1>1, <1>2, <1>3, SteadyBaselines DEF History!Recalculate, History!Publish, Published
<1> QED
  BY <1>2, <1>4, SteadyBaselines DEF HistoryStep, History!Next

(* applyScenario implements Adopt. *)
LEMMA ApplyScenarioStep ==
    ASSUME Basics, Decisions, Baselines, NEW p \in Processes, ApplyScenario(p)
    PROVE  HistoryStep
<1>1. PICK s : s = op[p].scenario
  OBVIOUS
<1>2. /\ s \in Scenarios /\ scenario[s].status = "draft"
      /\ scenario[s].baseline = Len(versions) /\ Len(versions) \in Nat \ {0}
      /\ current' = Len(versions) + 1 /\ Len(versions') = Len(versions) + 1
      /\ \A i \in 1..Len(versions) : versions'[i] = versions[i]
      /\ versions'[Len(versions) + 1] =
            [number |-> Len(versions) + 1,
             inputs |-> Merge(versions[Len(versions)].inputs, scenario[s].overlay),
             asOf |-> versions[Len(versions)].asOf, origin |-> s]
  BY <1>1, ApplyScenarioEffect, ZenonT(60)
<1>3. Published(s)
  BY <1>2 DEF Published
<1>4. Steady
  BY <1>1, <1>2 DEF ApplyScenario, Steady, Basics, TypeOK, TablesTyped, ScenarioRows
<1>5. \A i \in 1..Len(versions) : versions[i].origin # s
  BY <1>2 DEF Decisions, OneVersionPerDecision
<1>6. Basis[s] = Len(versions)
  BY <1>2 DEF Basis
<1> QED
  BY <1>2, <1>3, <1>4, <1>5, <1>6, AdoptStep

(* acceptDriftEvent implements Adopt. *)
LEMMA AcceptDriftEventStep ==
    ASSUME Basics, Decisions, Baselines, NEW p \in Processes, AcceptDriftEvent(p)
    PROVE  HistoryStep
<1>1. PICK c : c = op[p].check
  OBVIOUS
<1>2. /\ c \in Checks /\ event[c].status = "pending"
      /\ event[c].baseline = Len(versions) /\ Len(versions) \in Nat \ {0}
      /\ current' = Len(versions) + 1 /\ Len(versions') = Len(versions) + 1
      /\ \A i \in 1..Len(versions) : versions'[i] = versions[i]
      /\ versions'[Len(versions) + 1] =
            [number |-> Len(versions) + 1, inputs |-> event[c].inputs,
             asOf |-> check[c].asOf, origin |-> c]
  BY <1>1, AcceptDriftEventEffect, ZenonT(60)
<1>3. Published(c)
  BY <1>2 DEF Published
<1>4. Steady
  BY <1>1, <1>2 DEF AcceptDriftEvent, Steady, Basics, TypeOK, TablesTyped, EventRows
<1>5. \A i \in 1..Len(versions) : versions[i].origin # c
  BY <1>2 DEF Decisions, OneVersionPerDecision
<1>6. Basis[c] = Len(versions)
  BY <1>2, ProposalsAreDistinct DEF Basis
<1> QED
  BY <1>2, <1>3, <1>4, <1>5, <1>6, AdoptStep

(* createScenario implements Propose. *)
LEMMA CreateScenarioStep ==
    ASSUME Basics, Baselines, NEW p \in Processes, CreateScenario(p)
    PROVE  HistoryStep
<1>1. PICK s \in Scenarios :
         /\ scenario[s].status = "absent"
         /\ scenario' = [scenario EXCEPT ![s] =
                           [status |-> "draft", baseline |-> seen[p].current,
                            overlay |-> op[p].overlay, appliedVersion |-> 0]]
  BY DEF CreateScenario
<1>2. seen[p].current \in 1..Len(versions) /\ Len(versions) \in Nat
  BY DEF CreateScenario, Basics, ReadsStayTrue, SeesTruth, TypeOK, TablesTyped, ProcessesTyped
<1>3. UNCHANGED <<versions, current, check, event>>
  BY DEF CreateScenario
<1>4. /\ scenario'[s].baseline = seen[p].current /\ scenario'[s].status = "draft"
      /\ \A t \in Scenarios \ {s} : scenario'[t] = scenario[t]
  BY <1>1 DEF Basics, TypeOK, TablesTyped
<1>5. Basis[s] = 0 /\ Baselines'
  BY <1>1, <1>3, <1>4 DEF Baselines, Basis
<1>6. Basis' = [Basis EXCEPT ![s] = seen[p].current]
  BY <1>3, <1>4 DEF Basis
<1> QED
  BY <1>2, <1>3, <1>5, <1>6, ProposeStep

(* createOrDeduplicateCheck proposes nothing yet. *)
LEMMA CreateCheckStep ==
    ASSUME Basics, Baselines, NEW p \in Processes, CreateCheck(p)
    PROVE  HistoryStep
<1>1. UNCHANGED <<versions, current, scenario, event>>
  BY DEF CreateCheck
<1>2. \A c \in Checks : check[c].status # "absent" => check'[c] = check[c]
  BY DEF CreateCheck, Basics, TypeOK, TablesTyped
<1>3. Steady
  BY <1>1, <1>2 DEF Steady, Basics, Naming
<1> QED
  BY <1>1, <1>3, SteadyStep

(* keepDriftEvent is a stutter: it leaves the plan alone. *)
LEMMA KeepDriftEventStep ==
    ASSUME Basics, Baselines, NEW p \in Processes, KeepDriftEvent(p)
    PROVE  HistoryStep
<1>1. PICK c : c = op[p].check
  OBVIOUS
<1>2. Steady /\ UNCHANGED <<versions, current>>
  BY <1>1, KeepDriftEventEffect DEF Steady
<1> QED
  BY <1>2, SteadyStep

(* A worker inserts an event for a check that had none: a proposal.  An    *)
(* event that replaces a deleted one has the same baseline.                *)
LEMMA ProcessDriftCheckStep ==
    ASSUME Basics, Baselines, NEW w \in Processes, ProcessDriftCheck(w)
    PROVE  HistoryStep
<1>1. PICK c : c = op[w].check
  OBVIOUS
<1>2. /\ c \in Checks /\ UNCHANGED <<versions, current, scenario>>
      /\ \A d \in Checks : check'[d].baseline = check[d].baseline
  BY <1>1, ProcessDriftCheckEffect
<1>3. check[c].baseline \in 1..Len(versions) /\ Len(versions) \in Nat
  <2>1. op[w].kind = "process"
    BY DEF ProcessDriftCheck
  <2> QED
    BY <1>1, <1>2, <2>1 DEF Basics, Naming, TypeOK, TablesTyped
<1>4. CASE event' = event
  <2>1. Steady
    BY <1>2, <1>4 DEF Steady
  <2> QED
    BY <1>2, <2>1, SteadyStep
<1>5. ASSUME event' # event
      PROVE  /\ event[c].status \in {"absent", "deleted"}
             /\ event'[c].status # "absent" /\ event'[c].baseline = check[c].baseline
             /\ \A d \in Checks \ {c} : event'[d] = event[d]
  BY <1>1, <1>2, <1>5 DEF ProcessDriftCheck, Basics, TypeOK, TablesTyped
<1>6. CASE event' # event /\ event[c].status = "deleted"
  <2>1. Steady
    BY <1>2, <1>5, <1>6 DEF Steady, Baselines
  <2> QED
    BY <1>2, <2>1, SteadyStep
<1>7. CASE event' # event /\ event[c].status = "absent"
  <2>1. Basis[c] = 0 /\ Baselines'
    BY <1>2, <1>5, <1>7, ProposalsAreDistinct DEF Baselines, Basis
  <2>2. Basis' = [Basis EXCEPT ![c] = check[c].baseline]
    BY <1>2, <1>5, <1>7, ProposalsAreDistinct DEF Basis
  <2> QED
    BY <1>2, <1>3, <2>1, <2>2, ProposeStep
<1> QED
  BY <1>4, <1>5, <1>6, <1>7

(* The catch block is a stutter. *)
LEMMA MarkFailedStep ==
    ASSUME Basics, Baselines, NEW w \in Processes, MarkFailed(w)
    PROVE  HistoryStep
<1>1. PICK c : c = op[w].check
  OBVIOUS
<1>2. Steady /\ UNCHANGED <<versions, current>>
  BY <1>1, MarkFailedEffect DEF Steady
<1> QED
  BY <1>2, SteadyStep

(* The retention is a stutter: history outlives its rows. *)
LEMMA RetentionStep ==
    ASSUME Basics, Baselines,
           \/ \E c \in Checks : ExpireCheck(c) \/ ExpireEvent(c)
           \/ CleanupEvents
           \/ CleanupChecks
    PROVE  HistoryStep
<1>1. CASE \E c \in Checks : ExpireCheck(c)
  <2>1. Steady /\ UNCHANGED <<versions, current>>
    BY <1>1 DEF ExpireCheck, Steady, Basics, TypeOK, TablesTyped, CheckRows
  <2> QED
    BY <2>1, SteadyStep
<1>2. CASE \E c \in Checks : ExpireEvent(c)
  <2>1. Steady /\ UNCHANGED <<versions, current>>
    BY <1>2 DEF ExpireEvent, Steady, Basics, TypeOK, TablesTyped, EventRows
  <2> QED
    BY <2>1, SteadyStep
<1>3. CASE CleanupEvents \/ CleanupChecks
  <2>1. Steady /\ UNCHANGED <<versions, current>>
    BY <1>3, CleanupEffect DEF CleanedUp, Steady, Basics
  <2> QED
    BY <2>1, SteadyStep
<1> QED
  BY <1>1, <1>2, <1>3

(* Every step of a client implements a step of the history. *)
LEMMA ClientStep ==
    ASSUME Basics, Decisions, Baselines, NEW p \in Clients,
           \/ \E o \in Sendable : Begin(p, o)
           \/ Locking(p) \/ ReadPlan(p) \/ Commit(p)
           \/ Finish(p) \/ Crash(p)
    PROVE  HistoryStep
<1> USE DEF Processes
<1>1. CASE (\E o \in Sendable : Begin(p, o)) \/ Locking(p) \/ ReadPlan(p) \/ Finish(p) \/ Crash(p)
  <2>1. UNCHANGED tables
    BY <1>1 DEF Begin, Locking, LockHousehold, LockRow, LockPlan, ReadPlan, Finish, Crash, tables
  <2> QED
    BY <2>1, QuietStep
<1>2. CASE AnswersOnly(p)
  BY <1>2, AnswersOnlyEffect, QuietStep DEF Basics
<1>3. CASE RecalculatePlan(p) \/ ApplyScenario(p) \/ AcceptDriftEvent(p)
  BY <1>3, RecalculatePlanStep, ApplyScenarioStep, AcceptDriftEventStep
<1>4. CASE CreateScenario(p) \/ CreateCheck(p) \/ KeepDriftEvent(p)
  BY <1>4, CreateScenarioStep, CreateCheckStep, KeepDriftEventStep
<1> QED
  BY <1>1, <1>2, <1>3, <1>4 DEF Commit, AnswersOnly

(* Every step of a worker does. *)
LEMMA WorkerStep ==
    ASSUME Basics, Baselines, NEW w \in Workers,
           \/ \E o \in Deliverable : Begin(w, o)
           \/ LockRow(w) \/ ProcessDriftCheck(w) \/ RollBack(w) \/ MarkFailed(w) \/ Crash(w)
    PROVE  HistoryStep
<1> USE DEF Processes
<1>1. CASE (\E o \in Deliverable : Begin(w, o)) \/ LockRow(w) \/ RollBack(w) \/ Crash(w)
  <2>1. UNCHANGED tables
    BY <1>1 DEF Begin, LockRow, RollBack, Crash, tables
  <2> QED
    BY <2>1, QuietStep
<1>2. CASE ProcessDriftCheck(w) \/ MarkFailed(w)
  BY <1>2, ProcessDriftCheckStep, MarkFailedStep
<1> QED
  BY <1>1, <1>2

(* Every step of the tables does. *)
LEMMA NextStep == Basics /\ Decisions /\ Baselines /\ [Next]_vars => HistoryStep
<1> SUFFICES ASSUME Basics, Decisions, Baselines, [Next]_vars PROVE HistoryStep
  OBVIOUS
<1>1. CASE UNCHANGED vars
  <2>1. UNCHANGED tables
    BY <1>1 DEF vars, tables
  <2> QED
    BY <2>1, QuietStep
<1>2. CASE Next
  BY <1>2, ClientStep, WorkerStep, RetentionStep DEF Next
<1> QED
  BY <1>1, <1>2

(* The empty database is the empty history. *)
LEMMA InitMaps == Init => History!Init /\ Baselines
<1> SUFFICES ASSUME Init PROVE History!Init /\ Baselines
  OBVIOUS
<1>1. Origins = <<>> /\ current = 0
  BY DEF Init, Origins
<1>2. Baselines
  BY DEF Init, NoScenario, NoEvent, Baselines
<1>3. Basis = [x \in Scenarios \cup Checks |-> 0]
  BY DEF Init, NoScenario, NoEvent, Basis
<1> QED
  BY <1>1, <1>2, <1>3 DEF History!Init

(* The transactions of the backend implement the plan history: every       *)
(* behaviour of the tables is a behaviour of PlanHistory.                  *)
THEOREM Refinement == Spec => ImplementsHistory
<1>1. Init => History!Init /\ Baselines
  BY InitMaps
<1>2. Basics /\ Decisions /\ Baselines /\ [Next]_vars => [History!Next]_History!vars /\ Baselines'
  BY NextStep DEF HistoryStep
<1> QED
  BY <1>1, <1>2, BasicsHold, DecisionsHold, PTL DEF Spec, ImplementsHistory, History!Spec

-------------------------------------------------------------------------------
(* Checks, their events and what requests are answered *)

(* The step rewrites nothing that was written: no version changes, and the *)
(* row of a check keeps what it was created with.                          *)
RowsKept ==
    /\ \A i \in 1..Len(versions) : i \in 1..Len(versions') /\ versions'[i] = versions[i]
    /\ \A c \in Checks : check[c].status # "absent" =>
          /\ check'[c].status # "absent"
          /\ check'[c].baseline = check[c].baseline
          /\ check'[c].inputs = check[c].inputs

(* The step creates no check, and brings none back.                        *)
ChecksKept ==
    \A c \in Checks :
        /\ check'[c].baseline = check[c].baseline
        /\ check'[c].inputs = check[c].inputs
        /\ check'[c].key = check[c].key
        /\ check[c].status # "absent" => check'[c].status # "absent"
        /\ Live(c)' => Live(c)

(* createOrDeduplicateCheck writes one row, of an id nobody used before.   *)
LEMMA CreateCheckEffect ==
    ASSUME Basics, NEW p \in Processes, CreateCheck(p)
    PROVE  \E c \in Checks :
              /\ check[c].status = "absent" /\ event[c].status = "absent"
              /\ check'[c].status = "queued" /\ check'[c].baseline = op[p].baseline
              /\ check'[c].key = op[p].key /\ check'[c].inputs = op[p].inputs
              /\ check'[c].expired = FALSE
              /\ \A d \in Checks \ {c} : check'[d] = check[d]
              /\ WithKey(op[p]) = {} /\ Canonical(op[p]) = {}
              /\ Answer(p, "ok", 0, c)
              /\ UNCHANGED <<versions, current, scenario, event>>
<1>1. PICK c \in Checks :
         /\ check[c].status = "absent"
         /\ check' = [check EXCEPT ![c] =
                         [status |-> "queued", baseline |-> op[p].baseline, key |-> op[p].key,
                          inputs |-> op[p].inputs, asOf |-> op[p].asOf, attempts |-> 0,
                          expired |-> FALSE]]
         /\ Answer(p, "ok", 0, c)
  BY DEF CreateCheck
<1>2. event[c].status = "absent"
  BY <1>1 DEF Basics, Naming
<1>3. /\ WithKey(op[p]) = {} /\ Canonical(op[p]) = {}
      /\ UNCHANGED <<versions, current, scenario, event>>
  BY DEF CreateCheck
<1>4. /\ check'[c] = [status |-> "queued", baseline |-> op[p].baseline, key |-> op[p].key,
                      inputs |-> op[p].inputs, asOf |-> op[p].asOf, attempts |-> 0,
                      expired |-> FALSE]
      /\ \A d \in Checks \ {c} : check'[d] = check[d]
  BY <1>1 DEF Basics, TypeOK, TablesTyped
<1>5. /\ check'[c].status = "queued" /\ check'[c].baseline = op[p].baseline
      /\ check'[c].key = op[p].key /\ check'[c].inputs = op[p].inputs
      /\ check'[c].expired = FALSE
  BY <1>4
<1> QED
  BY <1>1, <1>2, <1>3, <1>4, <1>5

(* processDriftCheck rewrites the status of a live check, and inserts the  *)
(* event of this check, with its observation and its verdict.              *)
LEMMA ProcessDriftCheckRows ==
    ASSUME Basics, NEW w \in Processes, ProcessDriftCheck(w), NEW c, c = op[w].check
    PROVE  /\ ChecksKept
           /\ \A d \in Checks : check'[d].expired = check[d].expired /\ (Live(d) => Live(d)')
           /\ \A d \in Checks \ {c} : event'[d] = event[d]
           /\ \/ event'[c] = event[c]
              \/ /\ event[c].status \in {"absent", "deleted"}
                 /\ event'[c].status \in {"pending", "no_change"}
                 /\ event'[c].status = "pending" =>
                       <<versions[check[c].baseline].inputs, check[c].inputs>> \in Material
                 /\ event'[c].baseline = check[c].baseline
                 /\ event'[c].inputs = check[c].inputs
                 /\ event'[c].expired = FALSE
                 /\ Live(c)'
<1> DEFINE material == <<versions[check[c].baseline].inputs, check[c].inputs>> \in Material
           row == [status |-> IF material THEN "pending" ELSE "no_change",
                   baseline |-> check[c].baseline, inputs |-> check[c].inputs,
                   createdVersion |-> 0, expired |-> FALSE]
<1>1. c \in Checks /\ check[c].status # "absent" /\ seen[w].status = check[c].status
  BY OperationShape DEF ProcessDriftCheck, Basics, Naming, TypeOK, TablesTyped, ProcessesTyped,
     ReadsStayTrue, SeesTruth, Targeting, StatusOf
<1>2. CASE UNCHANGED <<check, event>>
  BY <1>1, <1>2 DEF ChecksKept, Live
<1>3. CASE /\ seen[w].status \in {"queued", "failed"}
           /\ check' = [check EXCEPT ![c].status = "completed", ![c].attempts = @ + 1]
           /\ event' = IF event[c].status \notin {"absent", "deleted"} THEN event
                       ELSE [event EXCEPT ![c] = row]
  <2>1. Live(c)
    BY <1>1, <1>3 DEF Live
  <2>2. \A d \in Checks :
           /\ check'[d].baseline = check[d].baseline /\ check'[d].inputs = check[d].inputs
           /\ check'[d].key = check[d].key /\ check'[d].expired = check[d].expired
           /\ check[d].status # "absent" => check'[d].status # "absent"
    BY <1>1, <1>3, AttemptCounted DEF Basics
  <2>3. \A d \in Checks :
           check'[d].status = IF d = c THEN "completed" ELSE check[d].status
    BY <1>1, <1>3 DEF Basics, TypeOK, TablesTyped, CheckRows
  <2>4. (\A d \in Checks : Live(d)' <=> Live(d)) /\ Live(c)'
    BY <1>1, <2>1, <2>3 DEF Live
  <2>5. /\ \A d \in Checks \ {c} : event'[d] = event[d]
        /\ \/ event'[c] = event[c]
           \/ event[c].status \in {"absent", "deleted"} /\ event'[c] = row
    <3> HIDE DEF row
    <3> QED
      BY <1>1, <1>3 DEF Basics, TypeOK, TablesTyped
  <2>6. ChecksKept
    BY <2>2, <2>4 DEF ChecksKept
  <2> QED
    BY <2>2, <2>4, <2>5, <2>6
<1> QED
  BY <1>2, <1>3 DEF ProcessDriftCheck

(* The catch block rewrites the status of a live check. *)
LEMMA MarkFailedRows ==
    ASSUME Basics, NEW w \in Processes, MarkFailed(w)
    PROVE  /\ ChecksKept
           /\ \A d \in Checks : check'[d].expired = check[d].expired /\ (Live(d) => Live(d)')
           /\ UNCHANGED event
<1> DEFINE c == op[w].check
<1>1. c \in Checks /\ check[c].status # "absent" /\ UNCHANGED event
  BY OperationShape DEF MarkFailed, Basics, Naming, TypeOK, ProcessesTyped
<1>2. CASE check' = check
  BY <1>1, <1>2 DEF ChecksKept, Live
<1>3. CASE Live(c) /\ check' = [check EXCEPT ![c].status = "failed", ![c].attempts = @ + 1]
  <2>1. \A d \in Checks :
           /\ check'[d].baseline = check[d].baseline /\ check'[d].inputs = check[d].inputs
           /\ check'[d].key = check[d].key /\ check'[d].expired = check[d].expired
           /\ check[d].status # "absent" => check'[d].status # "absent"
    BY <1>1, <1>3, AttemptCounted DEF Basics
  <2>2. \A d \in Checks :
           check'[d].status = IF d = c THEN "failed" ELSE check[d].status
    BY <1>1, <1>3 DEF Basics, TypeOK, TablesTyped, CheckRows
  <2>3. Live(c)
    BY <1>3
  <2>4. \A d \in Checks : Live(d)' <=> Live(d)
    BY <2>2, <2>3 DEF Live
  <2> QED
    BY <1>1, <2>1, <2>4 DEF ChecksKept
<1> QED
  BY <1>2, <1>3 DEF MarkFailed

(* A deadline that passes changes the mark of one row. *)
LEMMA ExpiryRows ==
    ASSUME Basics, NEW c \in Checks, ExpireCheck(c) \/ ExpireEvent(c)
    PROVE  /\ ChecksKept
           /\ \A d \in Checks :
                 /\ Live(d)' <=> Live(d)
                 /\ event'[d].status = event[d].status
                 /\ event'[d].baseline = event[d].baseline
                 /\ event'[d].inputs = event[d].inputs
                 /\ \/ check'[d].expired = check[d].expired
                    \/ d = c /\ check'[d].expired /\ ~Processing(c)
                 /\ event'[d].expired = event[d].expired \/ (d = c /\ check[c].expired)
<1>1. CASE ExpireCheck(c)
  <2>1. \A d \in Checks : check'[d] = IF d = c THEN [check[c] EXCEPT !.expired = TRUE]
                                               ELSE check[d]
    BY <1>1 DEF ExpireCheck, Basics, TypeOK, TablesTyped
  <2>2. \A d \in Checks :
           /\ check'[d].status = check[d].status /\ check'[d].baseline = check[d].baseline
           /\ check'[d].inputs = check[d].inputs /\ check'[d].key = check[d].key
           /\ check'[d].expired = check[d].expired \/ (d = c /\ check'[d].expired)
    BY <2>1 DEF Basics, TypeOK, TablesTyped, CheckRows
  <2>3. UNCHANGED event /\ ~Processing(c)
    BY <1>1 DEF ExpireCheck
  <2> QED
    BY <2>2, <2>3 DEF ChecksKept, Live
<1>2. CASE ExpireEvent(c)
  <2>1. \A d \in Checks : event'[d] = IF d = c THEN [event[c] EXCEPT !.expired = TRUE]
                                               ELSE event[d]
    BY <1>2 DEF ExpireEvent, Basics, TypeOK, TablesTyped
  <2>2. \A d \in Checks :
           /\ event'[d].status = event[d].status /\ event'[d].baseline = event[d].baseline
           /\ event'[d].inputs = event[d].inputs
           /\ event'[d].expired = event[d].expired \/ d = c
    BY <2>1 DEF Basics, TypeOK, TablesTyped, EventRows
  <2>3. UNCHANGED check /\ check[c].expired
    BY <1>2 DEF ExpireEvent
  <2> QED
    BY <2>2, <2>3 DEF ChecksKept, Live
<1> QED
  BY <1>1, <1>2

(* The job of a worker begins before the deadline of its check, the        *)
(* deadline of an event passes after that of its check, and nothing is     *)
(* deleted before its deadline: so an event is never inserted again.       *)
Timely ==
    \A c \in Checks :
        /\ event[c].status = "deleted" => check[c].expired
        /\ event[c].status # "absent" /\ event[c].expired => check[c].expired
        /\ check[c].expired => ~Processing(c)

(* No worker takes up a job. *)
NoJobBegins ==
    \A w \in Workers : stage'[w] = "idle" \/ (stage[w] # "idle" /\ op'[w] = op[w])

(* What keeps the deadlines in order. *)
DeadlinesKept ==
    \A c \in Checks :
        /\ \/ check'[c].expired = check[c].expired
           \/ check'[c].expired /\ ~Processing(c)
        /\ event'[c].status = "deleted" => event[c].status = "deleted" \/ check[c].expired
              \/ (event[c].status # "absent" /\ event[c].expired)
        /\ event'[c].status # "absent" /\ event'[c].expired =>
              check[c].expired \/ (event[c].status # "absent" /\ event[c].expired)

LEMMA TimelyStays ==
    ASSUME Timely, NoJobBegins, DeadlinesKept
    PROVE  Timely'
<1>1. \A c \in Checks : Processing(c)' => Processing(c)
  BY DEF NoJobBegins, Processing
<1>2. ASSUME NEW c \in Checks
      PROVE  /\ event'[c].status = "deleted" => check'[c].expired
             /\ event'[c].status # "absent" /\ event'[c].expired => check'[c].expired
             /\ check'[c].expired => ~Processing(c)'
  BY <1>1 DEF Timely, DeadlinesKept
<1> QED
  BY <1>2 DEF Timely

(* A step that leaves checks and events alone keeps the deadlines. *)
LEMMA QuietDeadlines ==
    ASSUME UNCHANGED <<check, event>>
    PROVE  DeadlinesKept
BY DEF DeadlinesKept

(* A step of a client begins no job. *)
LEMMA ClientsBeginNoJob ==
    ASSUME Basics, NEW p \in Clients,
           \/ \E o \in Sendable : Begin(p, o)
           \/ Locking(p) \/ ReadPlan(p) \/ Commit(p)
           \/ Finish(p) \/ Crash(p)
    PROVE  NoJobBegins
<1>1. \A w \in Workers : w # p /\ w \in Processes
  BY ProcessesAreDistinct DEF Processes
<1>2. p \in Processes
  BY DEF Processes
<1>3. stage \in [Processes -> Stages] /\ op \in [Processes -> Requests \cup Jobs \cup {Idle}]
  BY DEF Basics, TypeOK, ProcessesTyped
<1>4. ASSUME NEW code, NEW v, NEW c, Answer(p, code, v, c)
      PROVE  \A w \in Workers : stage'[w] = stage[w] /\ op'[w] = op[w]
  BY <1>1, <1>3, <1>4 DEF Answer
<1>5. \A w \in Workers : stage'[w] = stage[w] /\ op'[w] = op[w]
  <2>1. CASE (\E o \in Sendable : Begin(p, o)) \/ Finish(p) \/ Crash(p)
    BY <1>1, <1>3, <2>1 DEF Begin, Finish, Crash, Forget
  <2>2. CASE Locking(p) \/ ReadPlan(p)
    BY <1>1, <1>3, <2>2 DEF Locking, LockHousehold, LockRow, LockPlan, ReadPlan
  <2>3. CASE AnswersOnly(p)
    BY <1>2, <1>4, <2>3, AnswersOnlyEffect DEF Basics
  <2>4. CASE RecalculatePlan(p) \/ CreateScenario(p) \/ ApplyScenario(p) \/ CreateCheck(p)
             \/ AcceptDriftEvent(p) \/ KeepDriftEvent(p)
    BY <1>4, <2>4 DEF RecalculatePlan, CreateScenario, ApplyScenario, CreateCheck,
                      AcceptDriftEvent, KeepDriftEvent
  <2> QED
    BY <2>1, <2>2, <2>3, <2>4 DEF Commit, AnswersOnly
<1> QED
  BY <1>5 DEF NoJobBegins

(* Nor does a worker that has one. *)
LEMMA BusyWorkersBeginNoJob ==
    ASSUME Basics, NEW w \in Workers,
           LockRow(w) \/ ProcessDriftCheck(w) \/ RollBack(w) \/ MarkFailed(w) \/ Crash(w)
    PROVE  NoJobBegins
<1>1. /\ stage \in [Processes -> Stages] /\ op \in [Processes -> Requests \cup Jobs \cup {Idle}]
      /\ w \in Processes /\ \A v \in Workers : v \in Processes
  BY DEF Basics, TypeOK, ProcessesTyped, Processes
<1>2. stage[w] # "idle"
  BY DEF LockRow, ProcessDriftCheck, RollBack, MarkFailed, Crash
<1>3. \/ stage'[w] = "idle" \/ op'[w] = op[w]
  BY <1>1 DEF LockRow, ProcessDriftCheck, RollBack, MarkFailed, Crash, Forget
<1>4. \A v \in Workers \ {w} : stage'[v] = stage[v] /\ op'[v] = op[v]
  BY <1>1 DEF LockRow, ProcessDriftCheck, RollBack, MarkFailed, Crash, Forget
<1> QED
  BY <1>2, <1>3, <1>4 DEF NoJobBegins

(* Every step of a client keeps the deadlines in order. *)
LEMMA ClientTimely ==
    ASSUME Basics, Timely, NEW p \in Clients,
           \/ \E o \in Sendable : Begin(p, o)
           \/ Locking(p) \/ ReadPlan(p) \/ Commit(p)
           \/ Finish(p) \/ Crash(p)
    PROVE  Timely'
<1> USE DEF Processes
<1>1. NoJobBegins
  BY ClientsBeginNoJob
<1>2. CASE (\E o \in Sendable : Begin(p, o)) \/ Locking(p) \/ ReadPlan(p) \/ Finish(p) \/ Crash(p)
           \/ RecalculatePlan(p) \/ CreateScenario(p) \/ ApplyScenario(p)
  <2>1. UNCHANGED <<check, event>>
    BY <1>2 DEF Begin, Locking, LockHousehold, LockRow, LockPlan, ReadPlan, Finish, Crash,
                RecalculatePlan, CreateScenario, ApplyScenario, tables
  <2> QED
    BY <1>1, <2>1, QuietDeadlines, TimelyStays
<1>3. CASE AnswersOnly(p)
  <2>1. UNCHANGED <<check, event>>
    BY <1>3, AnswersOnlyEffect DEF Basics, tables
  <2> QED
    BY <1>1, <2>1, QuietDeadlines, TimelyStays
<1>4. CASE CreateCheck(p)
  <2>1. PICK c \in Checks :
           /\ event[c].status = "absent" /\ check'[c].expired = FALSE
           /\ \A d \in Checks \ {c} : check'[d] = check[d]
           /\ UNCHANGED event
    BY <1>4, CreateCheckEffect
  <2>2. \A d \in Checks : Processing(d)' => Processing(d)
    BY <1>1 DEF NoJobBegins, Processing
  <2> QED
    BY <2>1, <2>2 DEF Timely
<1>5. CASE AcceptDriftEvent(p)
  <2>1. PICK c \in Checks :
           /\ event[c] \in EventRows
           /\ event' = [event EXCEPT ![c].status = "accepted", ![c].expired = FALSE,
                                     ![c].createdVersion = Len(versions) + 1]
           /\ UNCHANGED check
    BY ZenonT(30), <1>5, AcceptDriftEventEffect DEF Basics, TypeOK, TablesTyped
  <2>2. /\ event'[c].status = "accepted" /\ event'[c].expired = FALSE
        /\ \A d \in Checks \ {c} : event'[d] = event[d]
    BY <2>1 DEF Basics, TypeOK, TablesTyped, EventRows
  <2>3. DeadlinesKept
    BY <2>1, <2>2 DEF DeadlinesKept
  <2> QED
    BY <1>1, <2>3, TimelyStays
<1>6. CASE KeepDriftEvent(p)
  <2>1. PICK c : c = op[p].check
    OBVIOUS
  <2>2. /\ c \in Checks /\ UNCHANGED check
        /\ event[c].status = "pending" /\ event'[c].status = "kept"
        /\ \A d \in Checks \ {c} : event'[d] = event[d]
    BY <1>6, <2>1, KeepDriftEventEffect
  <2>3. event'[c].expired = event[c].expired
    BY <1>6, <2>1, <2>2 DEF KeepDriftEvent, Basics, TypeOK, TablesTyped, EventRows
  <2>4. DeadlinesKept
    BY <2>2, <2>3 DEF DeadlinesKept
  <2> QED
    BY <1>1, <2>4, TimelyStays
<1> QED
  BY <1>2, <1>3, <1>4, <1>5, <1>6 DEF Commit, AnswersOnly

(* So does every step of a worker: it takes a job before the deadline. *)
LEMMA WorkerTimely ==
    ASSUME Basics, Timely, NEW w \in Workers,
           \/ \E o \in Deliverable : Begin(w, o)
           \/ LockRow(w) \/ ProcessDriftCheck(w) \/ RollBack(w) \/ MarkFailed(w) \/ Crash(w)
    PROVE  Timely'
<1> USE DEF Processes
<1>1. CASE \E o \in Deliverable : Begin(w, o)
  <2>1. PICK o \in Deliverable : Begin(w, o)
    BY <1>1
  <2>2. ~check[o.check].expired
    BY DEF Deliverable
  <2>3. /\ UNCHANGED <<check, event>> /\ op'[w] = o
        /\ \A v \in Workers \ {w} : stage'[v] = stage[v] /\ op'[v] = op[v]
    BY <2>1 DEF Begin, tables, Basics, TypeOK, ProcessesTyped
  <2>4. ASSUME NEW c \in Checks, check[c].expired
        PROVE  Processing(c)' => Processing(c)
    BY <2>2, <2>3, <2>4 DEF Processing
  <2> QED
    BY <2>3, <2>4 DEF Timely
<1>2. CASE LockRow(w) \/ RollBack(w) \/ Crash(w)
  <2>1. UNCHANGED <<check, event>>
    BY <1>2 DEF LockRow, RollBack, Crash, tables
  <2> QED
    BY <1>2, <2>1, QuietDeadlines, BusyWorkersBeginNoJob, TimelyStays
<1>3. CASE ProcessDriftCheck(w)
  <2>1. PICK c : c = op[w].check
    OBVIOUS
  <2>2. /\ \A d \in Checks : check'[d].expired = check[d].expired
        /\ \A d \in Checks \ {c} : event'[d] = event[d]
        /\ \/ event'[c] = event[c]
           \/ event'[c].status \in {"pending", "no_change"} /\ event'[c].expired = FALSE
    BY ZenonT(30), <1>3, <2>1, ProcessDriftCheckRows
  <2>3. DeadlinesKept
    BY <2>2 DEF DeadlinesKept
  <2> QED
    BY <1>3, <2>3, BusyWorkersBeginNoJob, TimelyStays
<1>4. CASE MarkFailed(w)
  <2>1. DeadlinesKept
    BY <1>4, MarkFailedRows DEF DeadlinesKept
  <2> QED
    BY <1>4, <2>1, BusyWorkersBeginNoJob, TimelyStays
<1> QED
  BY <1>1, <1>2, <1>3, <1>4

(* The retention acts after the deadline. *)
LEMMA RetentionTimely ==
    ASSUME Basics, Timely,
           \/ \E c \in Checks : ExpireCheck(c) \/ ExpireEvent(c)
           \/ CleanupEvents
           \/ CleanupChecks
    PROVE  Timely'
<1>1. NoJobBegins
  <2>1. UNCHANGED <<stage, op>>
    BY CleanupEffect DEF ExpireCheck, ExpireEvent, process, Basics
  <2> QED
    BY <2>1 DEF NoJobBegins
<1>2. CASE \E c \in Checks : ExpireCheck(c) \/ ExpireEvent(c)
  <2>1. DeadlinesKept
    BY <1>2, ExpiryRows DEF DeadlinesKept
  <2> QED
    BY <1>1, <2>1, TimelyStays
<1>3. CASE CleanupEvents \/ CleanupChecks
  <2>1. DeadlinesKept
    BY <1>3, CleanupEffect DEF CleanedUp, DeadlinesKept, Basics
  <2> QED
    BY <1>1, <2>1, TimelyStays
<1> QED
  BY <1>2, <1>3

(* The deadlines are in order in every reachable state. *)
LEMMA TimelyHolds == Spec => []Timely
<1>1. Init => Timely
  BY DEF Init, Timely, NoCheck, NoEvent, Processing
<1>2. Basics /\ Timely /\ [Next]_vars => Timely'
  <2> SUFFICES ASSUME Basics, Timely, [Next]_vars PROVE Timely'
    OBVIOUS
  <2>1. CASE UNCHANGED vars
    BY <2>1 DEF vars, Timely, Processing
  <2>2. CASE Next
    BY <2>2, ClientTimely, WorkerTimely, RetentionTimely DEF Next
  <2> QED
    BY <2>1, <2>2
<1> QED
  BY <1>1, <1>2, BasicsHold, PTL DEF Spec

(* An event stays as it is or is resolved; or it is inserted, with the     *)
(* observation of its check and a verdict that is its own.                 *)
Resolves(c) ==
    /\ event'[c].baseline = event[c].baseline /\ event'[c].inputs = event[c].inputs
    /\ \/ event'[c].status = event[c].status
       \/ /\ event[c].status # "absent"
          /\ <<event[c].status, event'[c].status>> \in Resolution

Inserts(c) ==
    /\ check[c].status # "absent" /\ event[c].status = "absent"
    /\ event'[c].status \in {"pending", "no_change"}
    /\ event'[c].status = "pending" =>
          <<versions[check[c].baseline].inputs, check[c].inputs>> \in Material
    /\ event'[c].baseline = check[c].baseline /\ event'[c].inputs = check[c].inputs
    /\ Live(c)'

Moves(c) ==
    /\ Resolves(c) \/ Inserts(c)
    /\ event'[c].status \in {"pending", "accepted"} /\ Live(c) => Live(c)'

EventsMove == \A c \in Checks : Moves(c)

(* A step that rewrites nothing and moves events only that way keeps each  *)
(* event matched to its check.                                             *)
LEMMA MatchStays ==
    ASSUME Basics, EventMatchesItsCheck, RowsKept, EventsMove
    PROVE  EventMatchesItsCheck'
<1> SUFFICES ASSUME NEW c \in Checks
             PROVE  /\ event'[c].status # "absent" =>
                          event'[c].baseline = check'[c].baseline
                          /\ event'[c].inputs = check'[c].inputs
                    /\ event'[c].status \in {"pending", "kept", "accepted"} =>
                          <<versions'[event'[c].baseline].inputs, event'[c].inputs>> \in Material
                    /\ event'[c].status \in {"pending", "accepted"} => Live(c)'
  BY DEF EventMatchesItsCheck
<1>1. check[c].status # "absent" =>
         /\ check'[c].baseline = check[c].baseline /\ check'[c].inputs = check[c].inputs
         /\ versions'[check[c].baseline] = versions[check[c].baseline]
  BY DEF RowsKept, Basics, TypeOK, TablesTyped
<1>2. event[c].status # "absent" => check[c].status # "absent"
  BY DEF Basics, Naming
<1>3. CASE Resolves(c)
  <2>1. /\ event'[c].status # "absent" => event[c].status # "absent"
        /\ event'[c].status \in {"pending", "kept", "accepted"} =>
              event[c].status \in {"pending", "kept", "accepted"}
        /\ event'[c].status \in {"pending", "accepted"} =>
              event[c].status \in {"pending", "accepted"}
    BY <1>3 DEF Resolves, Resolution
  <2>2. Live(c) /\ event'[c].status \in {"pending", "accepted"} => Live(c)'
    BY DEF EventsMove, Moves
  <2> QED
    BY <1>1, <1>2, <1>3, <2>1, <2>2 DEF EventMatchesItsCheck, Resolves
<1>4. CASE Inserts(c)
  BY <1>1, <1>4 DEF Inserts
<1> QED
  BY <1>3, <1>4 DEF EventsMove, Moves

(* A step that leaves checks and events alone moves nothing. *)
LEMMA QuietEvents ==
    ASSUME UNCHANGED <<check, event>>
    PROVE  ChecksKept /\ EventsMove
BY DEF ChecksKept, EventsMove, Moves, Resolves, Live

(* Publishing a version, or none, rewrites none. *)
LEMMA PublishedRows ==
    ASSUME Basics, UNCHANGED check, UNCHANGED versions \/ \E x : Published(x)
    PROVE  RowsKept
<1>1. Len(versions) \in Nat
  BY DEF Basics, TypeOK, TablesTyped
<1> QED
  BY <1>1 DEF RowsKept, Published

(* What every step does to checks and events. *)
ObservationStep ==
    /\ RowsKept
    /\ EventsMove
    /\ ChecksKept \/ \E p \in Clients : CreateCheck(p)

(* Every step of a client does. *)
LEMMA ClientObserves ==
    ASSUME Basics, NEW p \in Clients,
           \/ \E o \in Sendable : Begin(p, o)
           \/ Locking(p) \/ ReadPlan(p) \/ Commit(p)
           \/ Finish(p) \/ Crash(p)
    PROVE  ObservationStep
<1> USE DEF Processes
<1>1. CASE (\E o \in Sendable : Begin(p, o)) \/ Locking(p) \/ ReadPlan(p) \/ Finish(p) \/ Crash(p)
           \/ CreateScenario(p)
  <2>1. UNCHANGED <<versions, check, event>>
    BY <1>1 DEF Begin, Locking, LockHousehold, LockRow, LockPlan, ReadPlan, Finish, Crash,
                CreateScenario, tables
  <2> QED
    BY <2>1, QuietEvents, PublishedRows DEF ObservationStep
<1>2. CASE AnswersOnly(p)
  <2>1. UNCHANGED <<versions, check, event>>
    BY <1>2, AnswersOnlyEffect DEF Basics, tables
  <2> QED
    BY <2>1, QuietEvents, PublishedRows DEF ObservationStep
<1>3. CASE RecalculatePlan(p)
  <2>1. Published(None) /\ UNCHANGED <<check, event>>
    BY <1>3, RecalculatePlanPublishes DEF RecalculatePlan
  <2> QED
    BY <2>1, QuietEvents, PublishedRows DEF ObservationStep
<1>4. CASE ApplyScenario(p)
  <2>1. PICK s : s = op[p].scenario
    OBVIOUS
  <2>2. /\ Len(versions) \in Nat \ {0} /\ Len(versions') = Len(versions) + 1
        /\ current' = Len(versions) + 1
        /\ \A i \in 1..Len(versions) : versions'[i] = versions[i]
        /\ versions'[Len(versions) + 1] =
              [number |-> Len(versions) + 1,
               inputs |-> Merge(versions[Len(versions)].inputs, scenario[s].overlay),
               asOf |-> versions[Len(versions)].asOf, origin |-> s]
    BY <1>4, <2>1, ApplyScenarioEffect, ZenonT(60)
  <2>3. Published(s) /\ UNCHANGED <<check, event>>
    BY <1>4, <2>2 DEF Published, ApplyScenario
  <2> QED
    BY <2>3, QuietEvents, PublishedRows DEF ObservationStep
<1>5. CASE AcceptDriftEvent(p)
  <2>1. PICK c : c = op[p].check
    OBVIOUS
  <2>2. /\ c \in Checks /\ event[c].status = "pending" /\ UNCHANGED check
        /\ event' = [event EXCEPT ![c].status = "accepted", ![c].expired = FALSE,
                                  ![c].createdVersion = Len(versions) + 1]
    BY <1>5, <2>1, AcceptDriftEventEffect
  <2>3. Published(c)
    <3>1. /\ Len(versions) \in Nat \ {0} /\ Len(versions') = Len(versions) + 1
          /\ current' = Len(versions) + 1
          /\ \A i \in 1..Len(versions) : versions'[i] = versions[i]
          /\ versions'[Len(versions) + 1] =
                [number |-> Len(versions) + 1, inputs |-> event[c].inputs,
                 asOf |-> check[c].asOf, origin |-> c]
      BY <1>5, <2>1, AcceptDriftEventEffect, ZenonT(60)
    <3> QED
      BY <3>1 DEF Published
  <2>4. /\ event'[c].status = "accepted" /\ event'[c].baseline = event[c].baseline
        /\ event'[c].inputs = event[c].inputs
        /\ \A d \in Checks \ {c} : event'[d] = event[d]
    BY <2>2 DEF Basics, TypeOK, TablesTyped, EventRows
  <2>5. ChecksKept
    BY <2>2 DEF ChecksKept, Live
  <2>6. ASSUME NEW d \in Checks
        PROVE  Moves(d)
    BY <2>2, <2>4 DEF Moves, Resolves, Resolution, Live
  <2> QED
    BY <2>2, <2>3, <2>5, <2>6, PublishedRows DEF ObservationStep, EventsMove
<1>6. CASE KeepDriftEvent(p)
  <2>1. PICK c : c = op[p].check
    OBVIOUS
  <2>2. /\ c \in Checks /\ event[c].status = "pending" /\ event'[c].status = "kept"
        /\ event'[c].baseline = event[c].baseline
        /\ \A d \in Checks \ {c} : event'[d] = event[d]
        /\ UNCHANGED <<versions, check>>
    BY <1>6, <2>1, KeepDriftEventEffect
  <2>3. event'[c].inputs = event[c].inputs
    BY <1>6, <2>1, <2>2 DEF KeepDriftEvent, Basics, TypeOK, TablesTyped, EventRows
  <2>4. ChecksKept
    BY <2>2 DEF ChecksKept, Live
  <2>5. ASSUME NEW d \in Checks
        PROVE  Moves(d)
    BY <2>2, <2>3 DEF Moves, Resolves, Resolution, Live
  <2> QED
    BY <2>2, <2>4, <2>5, PublishedRows DEF ObservationStep, EventsMove
<1>7. CASE CreateCheck(p)
  <2>1. PICK c \in Checks :
           /\ check[c].status = "absent" /\ event[c].status = "absent"
           /\ \A d \in Checks \ {c} : check'[d] = check[d]
           /\ UNCHANGED <<versions, event>>
    BY <1>7, CreateCheckEffect
  <2>2. RowsKept
    BY <2>1 DEF RowsKept
  <2>3. ASSUME NEW d \in Checks
        PROVE  Moves(d)
    BY <2>1 DEF Moves, Resolves, Live
  <2> QED
    BY <1>7, <2>2, <2>3 DEF ObservationStep, EventsMove
<1> QED
  BY <1>1, <1>2, <1>3, <1>4, <1>5, <1>6, <1>7 DEF Commit, AnswersOnly

(* Every step of a worker does: it inserts an event that was never there. *)
LEMMA WorkerObserves ==
    ASSUME Basics, Timely, NEW w \in Workers,
           \/ \E o \in Deliverable : Begin(w, o)
           \/ LockRow(w) \/ ProcessDriftCheck(w) \/ RollBack(w) \/ MarkFailed(w) \/ Crash(w)
    PROVE  ObservationStep
<1> USE DEF Processes
<1>1. CASE (\E o \in Deliverable : Begin(w, o)) \/ LockRow(w) \/ RollBack(w) \/ Crash(w)
  <2>1. UNCHANGED <<versions, check, event>>
    BY <1>1 DEF Begin, LockRow, RollBack, Crash, tables
  <2> QED
    BY <2>1, QuietEvents, PublishedRows DEF ObservationStep
<1>2. CASE ProcessDriftCheck(w)
  <2>1. PICK c : c = op[w].check
    OBVIOUS
  <2>2. /\ ChecksKept /\ (\A d \in Checks : Live(d) => Live(d)')
        /\ \A d \in Checks \ {c} : event'[d] = event[d]
    BY ZenonT(30), <1>2, <2>1, ProcessDriftCheckRows
  <2>3. c \in Checks /\ UNCHANGED versions
    BY <1>2, <2>1, ProcessDriftCheckEffect
  <2>4. ~check[c].expired /\ check[c].status # "absent"
    <3>1. Processing(c)
      BY <1>2, <2>1 DEF Processing, ProcessDriftCheck
    <3>2. op[w].kind = "process"
      BY <1>2 DEF ProcessDriftCheck
    <3> QED
      BY <2>1, <2>3, <3>1, <3>2 DEF Timely, Basics, Naming
  <2>5. event[c].status # "deleted"
    BY <2>3, <2>4 DEF Timely
  <2>6. event'[c] = event[c] \/ Inserts(c)
    BY ZenonT(30), <1>2, <2>1, <2>4, <2>5, ProcessDriftCheckRows DEF Inserts
  <2>7. ASSUME NEW d \in Checks
        PROVE  Moves(d)
    BY <2>2, <2>6 DEF Moves, Resolves
  <2>8. RowsKept
    BY <2>2, <2>3 DEF RowsKept, ChecksKept
  <2> QED
    BY <2>2, <2>7, <2>8 DEF ObservationStep, EventsMove
<1>3. CASE MarkFailed(w)
  <2>1. ChecksKept /\ UNCHANGED <<versions, event>> /\ \A d \in Checks : Live(d) => Live(d)'
    BY <1>3, MarkFailedRows DEF MarkFailed
  <2>2. RowsKept
    BY <2>1 DEF RowsKept, ChecksKept
  <2>3. EventsMove
    BY <2>1 DEF EventsMove, Moves, Resolves
  <2> QED
    BY <2>1, <2>2, <2>3 DEF ObservationStep
<1> QED
  BY <1>1, <1>2, <1>3

(* The retention does: the cleanup takes what was kept or immaterial. *)
LEMMA RetentionObserves ==
    ASSUME Basics,
           \/ \E c \in Checks : ExpireCheck(c) \/ ExpireEvent(c)
           \/ CleanupEvents
           \/ CleanupChecks
    PROVE  ObservationStep
<1>1. CASE \E c \in Checks : ExpireCheck(c) \/ ExpireEvent(c)
  <2>1. ChecksKept /\ UNCHANGED versions
    BY <1>1, ExpiryRows DEF ExpireCheck, ExpireEvent
  <2>2. EventsMove
    BY <1>1, ExpiryRows DEF EventsMove, Moves, Resolves
  <2>3. RowsKept
    BY <2>1 DEF RowsKept, ChecksKept
  <2> QED
    BY <2>1, <2>2, <2>3 DEF ObservationStep
<1>2. CASE CleanupEvents \/ CleanupChecks
  <2>1. UNCHANGED versions /\ \A c \in Checks : CleanedUp(c)
    BY <1>2, CleanupEffect DEF Basics
  <2>2. ChecksKept
    BY <2>1 DEF CleanedUp, ChecksKept, Live
  <2>3. EventsMove
    <3> SUFFICES ASSUME NEW c \in Checks PROVE Moves(c)
      BY DEF EventsMove
    <3>1. Resolves(c)
      BY <2>1 DEF CleanedUp, Resolves, Resolution
    <3>2. event'[c].status \in {"pending", "accepted"} /\ Live(c) => Live(c)'
      BY <2>1 DEF CleanedUp, Live
    <3> QED
      BY <3>1, <3>2 DEF Moves
  <2>4. RowsKept
    BY <2>1, <2>2 DEF RowsKept, ChecksKept
  <2> QED
    BY <2>2, <2>3, <2>4 DEF ObservationStep
<1> QED
  BY <1>1, <1>2

(* So does every step. *)
LEMMA EveryStepObserves ==
    ASSUME Basics, Timely, [Next]_vars
    PROVE  ObservationStep
<1>1. CASE UNCHANGED vars
  <2>1. UNCHANGED <<versions, check, event>>
    BY <1>1 DEF vars
  <2> QED
    BY <2>1, QuietEvents, PublishedRows DEF ObservationStep
<1>2. CASE Next
  BY <1>2, ClientObserves, WorkerObserves, RetentionObserves DEF Next
<1> QED
  BY <1>1, <1>2

(* An event carries the observation of its check, waits only for a         *)
(* decision about a material change, and is not cleaned up while it waits. *)
THEOREM EventsMatch == Spec => []EventMatchesItsCheck
<1>1. Init => EventMatchesItsCheck
  BY DEF Init, EventMatchesItsCheck, NoEvent
<1>2. Basics /\ Timely /\ EventMatchesItsCheck /\ [Next]_vars => EventMatchesItsCheck'
  BY EveryStepObserves, MatchStays DEF ObservationStep
<1> QED
  BY <1>1, <1>2, BasicsHold, TimelyHolds, PTL DEF Spec

(* A drift event is inserted once and resolved once, whatever deliveries   *)
(* of its check, requests and cleanups run side by side.                   *)
THEOREM EventsResolve == Spec => EventsResolveOnce
<1>1. Basics /\ Timely /\ [Next]_vars =>
         [\A c \in Checks :
             \/ event'[c].status = event[c].status
             \/ <<event[c].status, event'[c].status>> \in Resolution]_event
  <2> SUFFICES ASSUME Basics, Timely, [Next]_vars, NEW c \in Checks
               PROVE  \/ event'[c].status = event[c].status
                      \/ <<event[c].status, event'[c].status>> \in Resolution
    OBVIOUS
  <2>1. Moves(c)
    BY EveryStepObserves DEF ObservationStep, EventsMove
  <2> QED
    BY <2>1 DEF Moves, Resolves, Inserts, Resolution
<1> QED
  BY <1>1, BasicsHold, TimelyHolds, PTL DEF Spec, EventsResolveOnce

(* The two unique indexes are never violated: createOrDeduplicateCheck     *)
(* looks both identities up under the lock of the household.               *)
THEOREM ChecksStayDistinct == Spec => []ChecksAreDistinct
<1>1. Init => ChecksAreDistinct
  BY DEF Init, ChecksAreDistinct, NoCheck, Live
<1>2. ASSUME ChecksAreDistinct, ChecksKept
      PROVE  ChecksAreDistinct'
  BY <1>2 DEF ChecksAreDistinct, ChecksKept
<1>3. ASSUME Basics, ChecksAreDistinct, NEW p \in Clients, CreateCheck(p)
      PROVE  ChecksAreDistinct'
  <2>1. PICK c \in Checks :
           /\ check'[c].baseline = op[p].baseline
           /\ check'[c].key = op[p].key /\ check'[c].inputs = op[p].inputs
           /\ \A d \in Checks \ {c} : check'[d] = check[d]
           /\ WithKey(op[p]) = {} /\ Canonical(op[p]) = {}
    BY <1>3, CreateCheckEffect DEF Processes
  <2>2. ASSUME NEW d \in Checks \ {c}, Live(d)'
        PROVE  /\ Live(d)
               /\ check[d].key # op[p].key
               /\ check[d].baseline # op[p].baseline \/ check[d].inputs # op[p].inputs
    BY <2>1, <2>2 DEF Live, WithKey, Canonical
  <2> SUFFICES ASSUME NEW a \in Checks, NEW b \in Checks, a # b, Live(a)', Live(b)'
               PROVE  /\ check'[a].key # check'[b].key
                      /\ \/ check'[a].baseline # check'[b].baseline
                         \/ check'[a].inputs # check'[b].inputs
    BY DEF ChecksAreDistinct
  <2>3. CASE a = c
    BY <2>1, <2>2, <2>3
  <2>4. CASE b = c
    BY <2>1, <2>2, <2>4
  <2>5. CASE a # c /\ b # c
    BY <2>1, <2>2, <2>5, <1>3 DEF ChecksAreDistinct
  <2> QED
    BY <2>3, <2>4, <2>5
<1>4. Basics /\ Timely /\ ChecksAreDistinct /\ [Next]_vars => ChecksAreDistinct'
  BY <1>2, <1>3, EveryStepObserves DEF ObservationStep
<1> QED
  BY <1>1, <1>4, BasicsHold, TimelyHolds, PTL DEF Spec

(* The version a request is answered with came from what the request       *)
(* names, and the check it is answered with exists and observes the same.  *)
NamesDecision(p) ==
    /\ op[p].kind = "apply" =>
          /\ reply[p].version \in 1..Len(versions)
          /\ versions[reply[p].version].origin = op[p].scenario
    /\ op[p].kind = "accept" =>
          /\ reply[p].version \in 1..Len(versions)
          /\ versions[reply[p].version].origin = op[p].check
    /\ op[p].kind = "create_check" =>
          /\ reply[p].check \in Checks
          /\ check[reply[p].check].status # "absent"
          /\ check[reply[p].check].baseline = op[p].baseline
          /\ check[reply[p].check].inputs = op[p].inputs

IsRight(p) == stage[p] = "replied" /\ reply[p].code = "ok" => NamesDecision(p)

RightAnswers == \A p \in Clients : IsRight(p)

(* An answer stays right while nothing that was written is rewritten. *)
LEMMA RightAnswerStays ==
    ASSUME RowsKept, NEW p \in Clients, IsRight(p),
           stage'[p] = stage[p], op'[p] = op[p], reply'[p] = reply[p]
    PROVE  IsRight(p)'
BY DEF RowsKept, IsRight, NamesDecision

(* The step leaves the requests of the other clients alone. *)
OthersWait(p) ==
    \A q \in Clients \ {p} :
        stage'[q] = stage[q] /\ op'[q] = op[q] /\ reply'[q] = reply[q]

LEMMA OnlyOneAnswers ==
    ASSUME RowsKept, RightAnswers, NEW p, OthersWait(p),
           p \in Clients => IsRight(p)'
    PROVE  RightAnswers'
<1>1. ASSUME NEW q \in Clients \ {p}
      PROVE  IsRight(q)'
  BY RightAnswerStays DEF RightAnswers, OthersWait
<1> QED
  BY <1>1 DEF RightAnswers

(* The answer that ends a transaction. *)
LEMMA AnswerWrites ==
    ASSUME TypeOK, NEW p \in Processes, NEW code, NEW v, NEW c, Answer(p, code, v, c)
    PROVE  /\ OthersWait(p)
           /\ op'[p] = op[p]
           /\ reply'[p].code = code /\ reply'[p].version = v /\ reply'[p].check = c
BY DEF Answer, OthersWait, TypeOK, ProcessesTyped, Processes

(* An answer that is an error, or that names nothing, is right. *)
LEMMA NothingNamed ==
    ASSUME TypeOK, NEW p \in Processes, NEW code, NEW v, NEW c, Answer(p, code, v, c),
           code # "ok" \/ op[p].kind \notin {"apply", "accept", "create_check"}
    PROVE  OthersWait(p) /\ IsRight(p)'
<1>1. /\ OthersWait(p) /\ op'[p] = op[p] /\ reply'[p].code = code
  BY AnswerWrites
<1> QED
  BY <1>1 DEF IsRight, NamesDecision

(* A version that came from what the request names makes its answer right. *)
LEMMA VersionNamed ==
    ASSUME TypeOK, NEW p \in Processes, NEW v, Answer(p, "ok", v, None),
           v \in 1..Len(versions'), NEW x, versions'[v].origin = x,
           \/ op[p].kind = "apply" /\ op[p].scenario = x
           \/ op[p].kind = "accept" /\ op[p].check = x
    PROVE  OthersWait(p) /\ IsRight(p)'
<1>1. OthersWait(p) /\ op'[p] = op[p] /\ reply'[p].version = v
  BY AnswerWrites
<1> QED
  BY <1>1 DEF IsRight, NamesDecision

(* A decision is answered with the version it made, now or the first time. *)
LEMMA DecisionAnswered ==
    ASSUME Basics, Decisions, NEW p \in Clients,
           ApplyScenario(p) \/ ApplyReplayed(p) \/ AcceptDriftEvent(p) \/ AcceptReplayed(p)
    PROVE  OthersWait(p) /\ IsRight(p)'
<1> USE DEF Processes
<1>1. TypeOK /\ Len(versions) \in Nat
  BY DEF Basics, TypeOK, TablesTyped
<1>2. CASE ApplyScenario(p)
  <2>1. PICK s : s = op[p].scenario
    OBVIOUS
  <2>2. /\ Len(versions') = Len(versions) + 1
        /\ versions'[Len(versions) + 1] =
              [number |-> Len(versions) + 1,
               inputs |-> Merge(versions[Len(versions)].inputs, scenario[s].overlay),
               asOf |-> versions[Len(versions)].asOf, origin |-> s]
    BY <1>2, <2>1, ApplyScenarioEffect, ZenonT(60)
  <2>3. versions'[Len(versions) + 1].origin = s /\ Len(versions) + 1 \in 1..Len(versions')
    BY <1>1, <2>2
  <2>4. Answer(p, "ok", Len(versions) + 1, None) /\ op[p].kind = "apply"
    BY <1>2 DEF ApplyScenario
  <2> QED
    BY <1>1, <2>1, <2>3, <2>4, VersionNamed
<1>3. CASE AcceptDriftEvent(p)
  <2>1. PICK c : c = op[p].check
    OBVIOUS
  <2>2. /\ Len(versions') = Len(versions) + 1
        /\ versions'[Len(versions) + 1] =
              [number |-> Len(versions) + 1, inputs |-> event[c].inputs,
               asOf |-> check[c].asOf, origin |-> c]
    BY <1>3, <2>1, AcceptDriftEventEffect, ZenonT(60)
  <2>3. versions'[Len(versions) + 1].origin = c /\ Len(versions) + 1 \in 1..Len(versions')
    BY <1>1, <2>2
  <2>4. Answer(p, "ok", Len(versions) + 1, None) /\ op[p].kind = "accept"
    BY <1>3 DEF AcceptDriftEvent
  <2> QED
    BY <1>1, <2>1, <2>3, <2>4, VersionNamed
<1>4. CASE ApplyReplayed(p)
  <2>1. /\ op[p].kind = "apply" /\ stage[p] = "plan" /\ seen[p].status = "applied"
        /\ Answer(p, "ok", scenario[op[p].scenario].appliedVersion, None)
        /\ UNCHANGED versions
    BY <1>4 DEF ApplyReplayed, tables
  <2>2. op[p].scenario \in Scenarios
    BY <2>1, OperationShape DEF Basics, TypeOK, ProcessesTyped
  <2>3. scenario[op[p].scenario].status = "applied"
    BY <2>1 DEF Basics, ReadsStayTrue, SeesTruth, StatusOf, Targeting
  <2>4. /\ scenario[op[p].scenario].appliedVersion \in 1..Len(versions)
        /\ versions[scenario[op[p].scenario].appliedVersion].origin = op[p].scenario
    BY <2>2, <2>3 DEF Decisions, OneVersionPerDecision
  <2> QED
    BY <1>1, <2>1, <2>4, VersionNamed
<1>5. CASE AcceptReplayed(p)
  <2>1. /\ op[p].kind = "accept" /\ stage[p] = "plan" /\ seen[p].status = "accepted"
        /\ Answer(p, "ok", event[op[p].check].createdVersion, None)
        /\ UNCHANGED versions
    BY <1>5 DEF AcceptReplayed, tables
  <2>2. op[p].check \in Checks
    BY <2>1, OperationShape DEF Basics, TypeOK, ProcessesTyped
  <2>3. event[op[p].check].status = "accepted"
    BY <2>1 DEF Basics, ReadsStayTrue, SeesTruth, StatusOf, Targeting
  <2>4. /\ event[op[p].check].createdVersion \in 1..Len(versions)
        /\ versions[event[op[p].check].createdVersion].origin = op[p].check
    BY <2>2, <2>3 DEF Decisions, OneVersionPerDecision
  <2> QED
    BY <1>1, <2>1, <2>4, VersionNamed
<1> QED
  BY <1>2, <1>3, <1>4, <1>5

(* A request for a check is answered with a check of its observation. *)
LEMMA CheckAnswered ==
    ASSUME Basics, NEW p \in Clients, CreateCheck(p) \/ CheckReplayed(p)
    PROVE  OthersWait(p) /\ IsRight(p)'
<1> USE DEF Processes
<1>1. PICK c \in Checks :
         /\ Answer(p, "ok", 0, c)
         /\ check'[c].status # "absent"
         /\ check'[c].baseline = op[p].baseline
         /\ check'[c].inputs = op[p].inputs
  <2>1. CASE CreateCheck(p)
    BY <2>1, CreateCheckEffect
  <2>2. CASE CheckReplayed(p)
    BY <2>2 DEF CheckReplayed, tables, WithKey, Canonical, SameRequest, Live
  <2> QED
    BY <2>1, <2>2
<1>2. op[p].kind = "create_check"
  BY DEF CreateCheck, CheckReplayed
<1>3. OthersWait(p) /\ op'[p] = op[p] /\ reply'[p].check = c
  BY <1>1, AnswerWrites DEF Basics
<1> QED
  BY <1>1, <1>2, <1>3 DEF IsRight, NamesDecision

(* Every step of a client leaves its own answer right. *)
LEMMA ClientAnswers ==
    ASSUME Basics, Decisions, NEW p \in Clients,
           \/ \E o \in Sendable : Begin(p, o)
           \/ Locking(p) \/ ReadPlan(p) \/ Commit(p)
           \/ Finish(p) \/ Crash(p)
    PROVE  OthersWait(p) /\ IsRight(p)'
<1> USE DEF Processes
<1>1. TypeOK /\ p \in Processes
  BY DEF Basics
<1>2. CASE (\E o \in Sendable : Begin(p, o)) \/ Locking(p) \/ ReadPlan(p) \/ Finish(p) \/ Crash(p)
  <2>1. OthersWait(p)
    BY <1>1, <1>2 DEF Begin, Locking, LockHousehold, LockRow, LockPlan, ReadPlan, Finish, Crash,
                      Forget, OthersWait, TypeOK, ProcessesTyped
  <2>2. stage'[p] # "replied"
    BY <1>1, <1>2 DEF Begin, Locking, LockHousehold, LockRow, LockPlan, ReadPlan, Finish, Crash,
                      Forget, TypeOK, ProcessesTyped
  <2> QED
    BY <2>1, <2>2 DEF IsRight
<1>3. CASE NoCurrentPlan(p) \/ ApplyRefused(p) \/ CheckRefused(p) \/ AcceptRefused(p)
           \/ KeepRefused(p)
  <2>1. PICK code : code # "ok" /\ Answer(p, code, 0, None)
    BY <1>3 DEF NoCurrentPlan, ApplyRefused, CheckRefused, AcceptRefused, KeepRefused, Refuse
  <2> QED
    BY <1>1, <2>1, NothingNamed
<1>4. CASE RecalculatePlan(p) \/ CreateScenario(p) \/ KeepDriftEvent(p) \/ KeepReplayed(p)
  <2>1. op[p].kind \notin {"apply", "accept", "create_check"}
    BY <1>4 DEF RecalculatePlan, CreateScenario, KeepDriftEvent, KeepReplayed
  <2>2. PICK v : Answer(p, "ok", v, None)
    BY <1>4 DEF RecalculatePlan, CreateScenario, KeepDriftEvent, KeepReplayed
  <2> QED
    BY <1>1, <2>1, <2>2, NothingNamed
<1>5. CASE ApplyScenario(p) \/ ApplyReplayed(p) \/ AcceptDriftEvent(p) \/ AcceptReplayed(p)
  BY <1>5, DecisionAnswered
<1>6. CASE CreateCheck(p) \/ CheckReplayed(p)
  BY <1>6, CheckAnswered
<1> QED
  BY <1>2, <1>3, <1>4, <1>5, <1>6 DEF Commit

(* A worker answers nobody. *)
LEMMA WorkerAnswers ==
    ASSUME Basics, NEW w \in Workers,
           \/ \E o \in Deliverable : Begin(w, o)
           \/ LockRow(w) \/ ProcessDriftCheck(w) \/ RollBack(w) \/ MarkFailed(w) \/ Crash(w)
    PROVE  OthersWait(w) /\ w \notin Clients
<1>1. w \notin Clients
  BY ProcessesAreDistinct
<1>2. OthersWait(w)
  BY <1>1 DEF Begin, LockRow, ProcessDriftCheck, RollBack, MarkFailed, Crash, Forget, OthersWait,
              Basics, TypeOK, ProcessesTyped, Processes
<1> QED
  BY <1>1, <1>2

(* A successful answer names the version of this scenario or event, or a   *)
(* check of this observation, however often the request was retried and    *)
(* whatever happened to the plan since.                                    *)
THEOREM AnswersAreRight == Spec => []AnswersNameTheirDecision
<1>1. Init => RightAnswers
  BY DEF Init, RightAnswers, IsRight, Processes
<1>2. Basics /\ Timely /\ Decisions /\ RightAnswers /\ [Next]_vars => RightAnswers'
  <2> SUFFICES ASSUME Basics, Timely, Decisions, RightAnswers, [Next]_vars PROVE RightAnswers'
    OBVIOUS
  <2>1. RowsKept
    BY EveryStepObserves DEF ObservationStep
  <2>2. ASSUME NEW p, OthersWait(p), p \in Clients => IsRight(p)'
        PROVE  RightAnswers'
    BY <2>1, <2>2, OnlyOneAnswers
  <2>3. CASE UNCHANGED vars
    <3>1. \A q \in Clients : stage'[q] = stage[q] /\ op'[q] = op[q] /\ reply'[q] = reply[q]
      BY <2>3 DEF vars
    <3> QED
      BY <2>1, <3>1, RightAnswerStays DEF RightAnswers
  <2>4. ASSUME NEW p \in Clients,
               \/ \E o \in Sendable : Begin(p, o)
               \/ Locking(p) \/ ReadPlan(p) \/ Commit(p)
               \/ Finish(p) \/ Crash(p)
        PROVE  RightAnswers'
    BY <2>2, <2>4, ClientAnswers
  <2>5. ASSUME NEW w \in Workers,
               \/ \E o \in Deliverable : Begin(w, o)
               \/ LockRow(w) \/ ProcessDriftCheck(w) \/ RollBack(w) \/ MarkFailed(w) \/ Crash(w)
        PROVE  RightAnswers'
    BY <2>2, <2>5, WorkerAnswers
  <2>6. CASE (\E c \in Checks : ExpireCheck(c) \/ ExpireEvent(c)) \/ CleanupEvents \/ CleanupChecks
    <3>1. UNCHANGED <<stage, op, reply>>
      BY <2>6, CleanupEffect DEF ExpireCheck, ExpireEvent, process, Basics
    <3> QED
      BY <2>1, <3>1, RightAnswerStays DEF RightAnswers
  <2> QED
    BY <2>3, <2>4, <2>5, <2>6 DEF Next
<1>3. RightAnswers => AnswersNameTheirDecision
  BY DEF RightAnswers, IsRight, NamesDecision, AnswersNameTheirDecision
<1> QED
  BY <1>1, <1>2, <1>3, BasicsHold, TimelyHolds, DecisionsHold, PTL DEF Spec
===============================================================================
