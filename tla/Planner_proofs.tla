---------------------------- MODULE Planner_proofs ----------------------------
(***************************************************************************)
(* What the planning assistant promises of its messages, its citations and *)
(* its research runs, proved for any number of questions under way, any    *)
(* pages, budgets and retention.                                           *)
(*                                                                         *)
(* The invariant has five parts.  Typed is about rows and questions,       *)
(* Numbered about the numbers of messages, Waiting about the number an     *)
(* answer will get, Researched about runs and their evidence, and Cited    *)
(* about the evidence that questions and messages refer to.                *)
(***************************************************************************)
EXTENDS Planner, FiniteSetTheorems, WellFoundedInduction, TLAPS

Questions ==
    [stage : Stages, no : 0..MaxAsked, at : 0..MaxClock, in : 0..MaxAsked, analyze : BOOLEAN,
     seq : Nat, tool : BOOLEAN, run : 0..MaxRuns, found : SUBSET Items, evidence : SUBSET Items,
     cites : SUBSET Items, unchecked : SUBSET Items, calls : 0..CallBudget, tools : Nat,
     pending : Nat]

MessageRows ==
    [seq : Nat \ {0}, sender : Senders, of : 1..MaxAsked, cites : SUBSET Items, at : 0..MaxClock]

(* A question that is under way has a number, a conversation and the time  *)
(* it was asked at, and keeps to its budget of tools.                      *)
Proper(q) ==
    /\ q \in Questions
    /\ q.tools + q.pending <= ToolBudget
    /\ q.unchecked \subseteq q.cites
    /\ q.stage # "critic" => q.unchecked = {}
    /\ q.stage = "idle" => q = Idle
    /\ q.stage # "idle" => q.no \in 1..asked /\ q.in \in 1..asked
    /\ q.stage \in {"searching", "found", "saved"} => q.run \in 1..started
    /\ q.stage \in {"idle", "question"} <=> q.seq = 0
    /\ q.stage # "idle" => q.at <= clock /\ clock <= q.at + 1

RowsTyped ==
    /\ clock \in 0..MaxClock /\ household \in BOOLEAN /\ plan \in BOOLEAN
    /\ asked \in 0..MaxAsked /\ started \in 0..MaxRuns
    /\ conversation \in [id : 0..asked, at : 0..MaxClock]
    /\ conversation.id = 0 => conversation = NoConversation /\ messages = {}
    /\ messages \subseteq MessageRows
    /\ runs \in [1..MaxRuns -> [status : ResearchStatuses, at : 0..MaxClock]]
    /\ evidence \subseteq Items

QuestionsTyped == question \in [Slots -> Questions] /\ \A s \in Slots : Proper(question[s])

(* The questions that were numbered in their conversation, or given up.    *)
Past == 1..asked \ {question[s].no : s \in {t \in Slots : question[t].stage = "question"}}

(* A question's message has an odd number, an answer's an even one, and no *)
(* number is above those that so many questions take.                      *)
Numbered ==
    /\ \A m \in messages : m.seq <= 2 * Cardinality(Past)
    /\ \A m \in messages : m.sender = "user" <=> m.seq % 2 = 1
    /\ AnswersFollowTheirQuestion

Distinct ==
    \A s, t \in Slots : question[s].stage # "idle" /\ question[s].no = question[t].no => s = t

(* The message of a question under way is stored, and the next number free. *)
Held(q) ==
    q.seq # 0 /\ q.in = conversation.id =>
        /\ Message(q, "user", q.seq, {}) \in messages
        /\ \A m \in messages : m.seq # q.seq + 1

Waiting == \A s \in Slots : Held(question[s])

(* What a search found belongs to its run. *)
Equipped(q) ==
    q.stage \in {"found", "saved"} => q.found # {} /\ \A e \in q.found : e[1] = q.run

Researched ==
    /\ \A r \in 1..MaxRuns : r > started => runs[r] = NoRun
    /\ \A e \in evidence : runs[e[1]].status = "completed"
    /\ \A r \in 1..MaxRuns :
          runs[r].status = "completed" /\ ~RunExpired(r) => \E e \in evidence : e[1] = r
    /\ \A s \in Slots : Equipped(question[s])

(* A run that was started no earlier than a time, or is gone. *)
Since(r, at) == r \in 1..started /\ (runs[r] # NoRun => runs[r].at >= at)

Sourced(q) ==
    /\ q.run # 0 => Since(q.run, q.at)
    /\ \A e \in q.found \cup q.evidence \cup q.cites : Since(e[1], q.at)

Cited ==
    /\ \A s \in Slots : Sourced(question[s])
    /\ \A m \in messages : ~Expired(m.at) =>
          m.cites \subseteq evidence /\ \A e \in m.cites : runs[e[1]].at >= m.at

-----------------------------------------------------------------------------
(* The numbers of messages *)

LEMMA HasMax ==
    ASSUME NEW b \in Nat, NEW S \in SUBSET (0..b), S # {}
    PROVE  \E x \in S : \A y \in S : x >= y
<1> DEFINE T == {b - x : x \in S}
           less == {p \in Nat \X Nat : p[1] < p[2]}
<1>1. T \subseteq Nat /\ T # {}
  <2>1. \A x \in S : b - x \in Nat
    OBVIOUS
  <2>2. PICK x \in S : TRUE
    OBVIOUS
  <2> QED
    BY <2>1, <2>2
<1>2. IsWellFoundedOn(less, Nat)
  BY NatLessThanWellFounded DEF OpToRel
<1>3. PICK t \in T : \A u \in T : <<u, t>> \notin less
  <2> HIDE DEF T, less
  <2> QED
    BY <1>1, <1>2, WFMin
<1>4. \A u \in T : u >= t
  <2>1. ASSUME NEW u \in Nat, NEW v \in Nat, <<u, v>> \notin less PROVE u >= v
    BY <2>1
  <2> HIDE DEF T, less
  <2> QED
    BY <1>1, <1>3, <2>1
<1>5. PICK x \in S : t = b - x
  BY <1>3
<1>6. \A y \in S : b - y >= b - x
  BY <1>4, <1>5
<1> QED
  BY <1>5, <1>6

LEMMA LastIsLargest ==
    ASSUME RowsTyped, NEW b \in Nat, \A m \in messages : m.seq <= b
    PROVE  LastSequence \in 0..b /\ \A m \in messages : m.seq <= LastSequence
<1> DEFINE S == {m.seq : m \in messages} \union {0}
<1>1. S \subseteq 0..b /\ S # {}
  BY DEF RowsTyped, MessageRows
<1>2. LastSequence = CHOOSE x \in S : \A y \in S : x >= y
  BY DEF LastSequence, Max
<1>3. \E x \in S : \A y \in S : x >= y
  <2> HIDE DEF S
  <2> QED
    BY <1>1, HasMax
<1>4. LastSequence \in S /\ \A y \in S : LastSequence >= y
  <2> HIDE DEF S
  <2> QED
    BY <1>2, <1>3
<1>5. \A m \in messages : m.seq \in S
  OBVIOUS
<1> HIDE DEF S
<1>6. LastSequence \in 0..b
  BY <1>1, <1>4
<1>7. ASSUME NEW m \in messages PROVE m.seq <= LastSequence
  <2>1. PICK n : n = m.seq
    OBVIOUS
  <2>2. n \in 0..b /\ LastSequence >= n
    BY <1>1, <1>4, <1>5, <2>1
  <2> QED
    BY <1>6, <2>1, <2>2
<1> QED
  BY <1>6, <1>7

(* A new question takes the next odd number. *)
LEMMA NextIsOdd ==
    ASSUME RowsTyped, NEW b \in Nat, \A m \in messages : m.seq <= 2 * b
    PROVE  /\ NextUserSequence \in 1..(2 * b + 1)
           /\ NextUserSequence % 2 = 1
           /\ \A m \in messages : m.seq < NextUserSequence
<1>1. LastSequence \in 0..(2 * b) /\ \A m \in messages : m.seq <= LastSequence /\ m.seq \in Nat
  <2>1. PICK bound \in Nat : bound = 2 * b
    OBVIOUS
  <2>2. LastSequence \in 0..bound /\ \A m \in messages : m.seq <= LastSequence
    BY <2>1, LastIsLargest
  <2>3. \A m \in messages : m.seq \in Nat
    BY DEF RowsTyped, MessageRows
  <2> QED
    BY <2>1, <2>2, <2>3
<1>2. PICK last : last = LastSequence
  OBVIOUS
<1>3. last \in Nat /\ last <= 2 * b
  BY <1>1, <1>2
<1>4. CASE last % 2 = 0
  BY <1>1, <1>2, <1>3, <1>4 DEF NextUserSequence
<1>5. CASE last % 2 # 0
  <2>1. (last + 2) % 2 = 1 /\ last # 2 * b
    BY <1>3, <1>5
  <2> QED
    BY <1>1, <1>2, <1>3, <1>5, <2>1 DEF NextUserSequence
<1> QED
  BY <1>4, <1>5

-----------------------------------------------------------------------------
(* The steps of a question that write no row *)

(* It ends, or goes on with what it had. *)
Carries(new, q) ==
    \/ new = Idle
    \/ /\ Proper(new) /\ Equipped(new)
       /\ new.stage \notin {"idle", "question"}
       /\ new.no = q.no /\ new.at = q.at /\ new.in = q.in /\ new.seq = q.seq
       /\ new.run \in {0, q.run}
       /\ \A e \in new.found \cup new.evidence \cup new.cites :
             e \in q.found \cup q.evidence \cup q.cites \/ (q.run # 0 /\ e[1] = q.run)

Goes(s) ==
    /\ \E new : question' = [question EXCEPT ![s] = new] /\ Carries(new, question[s])
    /\ UNCHANGED <<clock, asked, started>>

LEMMA SuperviseGoes ==
    ASSUME QuestionsTyped, NEW s \in Slots, Supervise(s)
    PROVE  Goes(s)
<1>1. PICK q : q = question[s]
  OBVIOUS
<1>2. Proper(q) /\ q.stage = "supervisor"
  BY <1>1 DEF QuestionsTyped, Supervise
<1>3. PICK new : new = [q EXCEPT !.stage = "financial_state"]
  OBVIOUS
<1>4. Carries(new, q)
  BY <1>2, <1>3 DEF Carries, Proper, Equipped, Questions, Stages
<1> QED
  BY ZenonT(30), <1>1, <1>3, <1>4 DEF Goes, Supervise, Becomes, Reject, Carries, outside

(* A question that is given up. *)
LEMMA RejectGoes ==
    ASSUME NEW s \in Slots, Reject(s), UNCHANGED <<clock, asked, started>>
    PROVE  Goes(s)
BY DEF Reject, Goes, Carries

LEMMA ReadPlanGoes ==
    ASSUME QuestionsTyped, NEW s \in Slots, ReadPlan(s)
    PROVE  Goes(s)
<1>1. PICK q : q = question[s]
  OBVIOUS
<1>2. Proper(q) /\ q.stage = "financial_state" /\ UNCHANGED <<clock, asked, started>>
  BY <1>1 DEF QuestionsTyped, ReadPlan, outside
<1>3. CASE Reject(s)
  BY <1>2, <1>3, RejectGoes
<1>4. CASE Becomes(s, [q EXCEPT !.stage = "planner", !.analyze = FALSE])
  <2>1. PICK new : new = [q EXCEPT !.stage = "planner", !.analyze = FALSE]
    OBVIOUS
  <2>2. Carries(new, q)
    BY <1>2, <2>1 DEF Carries, Proper, Equipped, Questions, Stages
  <2> QED
    BY <1>1, <1>2, <1>4, <2>1, <2>2 DEF Goes, Becomes
<1>5. CASE Becomes(s, [q EXCEPT !.stage = "research"])
  <2>1. PICK new : new = [q EXCEPT !.stage = "research"]
    OBVIOUS
  <2>2. Carries(new, q)
    BY <1>2, <2>1 DEF Carries, Proper, Equipped, Questions, Stages
  <2> QED
    BY <1>1, <1>2, <1>5, <2>1, <2>2 DEF Goes, Becomes
<1> QED
  BY <1>1, <1>3, <1>4, <1>5 DEF ReadPlan

(* Research that is given up. *)
LEMMA GiveUpGoes ==
    ASSUME QuestionsTyped, NEW s \in Slots, GiveUpResearch(s), UNCHANGED <<clock, asked, started>>,
           question[s].stage \in {"research", "searching", "found", "saved"}
    PROVE  Goes(s)
<1>1. PICK q : q = question[s]
  OBVIOUS
<1>2. Proper(q) /\ q.stage \in {"research", "searching", "found", "saved"}
  BY <1>1 DEF QuestionsTyped
<1>3. PICK new : new = [q EXCEPT !.stage = "planner"]
  OBVIOUS
<1>4. Carries(new, q)
  BY <1>2, <1>3 DEF Carries, Proper, Equipped, Questions, Stages
<1>5. CASE Reject(s)
  BY <1>5, RejectGoes
<1>6. CASE Becomes(s, new)
  BY <1>1, <1>4, <1>6 DEF Goes, Becomes
<1> QED
  BY <1>1, <1>3, <1>5, <1>6 DEF GiveUpResearch

LEMMA SearchGoes ==
    ASSUME RowsTyped, QuestionsTyped, NEW s \in Slots, NEW pages \in SUBSET Pages, Search(s, pages)
    PROVE  Goes(s)
<1>1. PICK q : q = question[s]
  OBVIOUS
<1>2. Proper(q) /\ q.stage = "searching" /\ pages # {}
  BY <1>1 DEF QuestionsTyped, Search
<1>3. PICK found : found = {q.run} \X pages
  OBVIOUS
<1>4. /\ q.run # 0 /\ found # {} /\ found \subseteq Items
      /\ \A e \in found : e[1] = q.run
  <2>1. q.run \in 1..MaxRuns
    BY <1>2 DEF Proper, RowsTyped, Questions
  <2>2. PICK r : r = q.run
    OBVIOUS
  <2>3. PICK page \in pages : TRUE
    BY <1>2
  <2>4. <<r, page>> \in found
    BY <1>3, <2>2, <2>3
  <2>5. \A e \in found : e \in Items /\ e[1] = r
    BY <1>3, <2>1, <2>2 DEF Items
  <2> QED
    BY <2>1, <2>2, <2>4, <2>5
<1>5. PICK new : new = [q EXCEPT !.stage = "found", !.found = found]
  OBVIOUS
<1>6. Carries(new, q)
  BY <1>2, <1>4, <1>5 DEF Carries, Proper, Equipped, Questions, Stages
<1> QED
  BY <1>1, <1>3, <1>5, <1>6 DEF Goes, Search, Becomes, outside

LEMMA SaveEvidenceGoes ==
    ASSUME Researched, QuestionsTyped, NEW s \in Slots, SaveEvidence(s)
    PROVE  Goes(s)
<1>1. PICK q : q = question[s]
  OBVIOUS
<1>2. Proper(q) /\ q.stage = "found" /\ Equipped(q)
  BY <1>1 DEF QuestionsTyped, SaveEvidence, Researched
<1>3. PICK new : new = [q EXCEPT !.stage = "saved"]
  OBVIOUS
<1>4. Carries(new, q)
  BY <1>2, <1>3 DEF Carries, Proper, Equipped, Questions, Stages
<1> QED
  BY <1>1, <1>3, <1>4 DEF Goes, SaveEvidence, Becomes, outside

LEMMA ReturnEvidenceGoes ==
    ASSUME QuestionsTyped, NEW s \in Slots, ReturnEvidence(s)
    PROVE  Goes(s)
<1>1. PICK q : q = question[s]
  OBVIOUS
<1>2. Proper(q) /\ q.stage = "saved"
  BY <1>1 DEF QuestionsTyped, ReturnEvidence
<1>3. PICK shown, kept :
        /\ shown = [q EXCEPT !.stage = "tools", !.tool = FALSE, !.found = {}, !.run = 0]
        /\ kept = [q EXCEPT !.stage = "planner", !.evidence = q.found, !.found = {}, !.run = 0]
  OBVIOUS
<1>4. 0 \in 0..MaxRuns
  BY PlannerAssumption
<1>5. Carries(shown, q)
  BY <1>2, <1>3, <1>4 DEF Carries, Proper, Equipped, Questions, Stages
<1>6. Carries(kept, q)
  BY <1>2, <1>3, <1>4 DEF Carries, Proper, Equipped, Questions, Stages
<1> QED
  BY <1>1, <1>3, <1>5, <1>6 DEF Goes, ReturnEvidence, Becomes, outside

LEMMA RequestToolsGoes ==
    ASSUME QuestionsTyped, NEW s \in Slots, NEW n \in 1..ToolBudget + 1, RequestTools(s, n)
    PROVE  Goes(s)
<1>1. PICK q : q = question[s]
  OBVIOUS
<1>2. /\ Proper(q) /\ q.stage = "planner" /\ q.calls < CallBudget /\ q.tools + n <= ToolBudget
      /\ n \in Nat
  BY <1>1 DEF QuestionsTyped, RequestTools, WithinToolBudget
<1>3. PICK c : c = q.calls + 1
  OBVIOUS
<1>4. c \in 0..CallBudget
  BY <1>2, <1>3, PlannerAssumption DEF Proper, Questions
<1>5. PICK new : new = [q EXCEPT !.stage = "tools", !.calls = c, !.pending = n]
  OBVIOUS
<1>6. Carries(new, q)
  BY <1>2, <1>4, <1>5 DEF Carries, Proper, Equipped, Questions, Stages
<1> QED
  BY <1>1, <1>3, <1>5, <1>6 DEF Goes, RequestTools, Becomes, outside

LEMMA RunToolGoes ==
    ASSUME QuestionsTyped, NEW s \in Slots, NEW research \in BOOLEAN, RunTool(s, research)
    PROVE  Goes(s)
<1>1. PICK q : q = question[s]
  OBVIOUS
<1>2. Proper(q) /\ q.stage = "tools" /\ q.pending > 0
  BY <1>1 DEF QuestionsTyped, RunTool
<1>3. PICK used, left, to :
        /\ used = q.tools + 1 /\ left = q.pending - 1
        /\ to = IF research THEN "research" ELSE "tools"
  OBVIOUS
<1>4. used \in Nat /\ left \in Nat /\ used + left <= ToolBudget /\ to \in {"research", "tools"}
  BY <1>2, <1>3, PlannerAssumption DEF Proper, Questions
<1>5. PICK new :
        new = [q EXCEPT !.stage = to, !.tool = research, !.tools = used, !.pending = left]
  OBVIOUS
<1>6. Carries(new, q)
  BY <1>2, <1>4, <1>5 DEF Carries, Proper, Equipped, Questions, Stages
<1> QED
  BY <1>1, <1>3, <1>5, <1>6 DEF Goes, RunTool, Becomes, outside

LEMMA AskAgainGoes ==
    ASSUME QuestionsTyped, NEW s \in Slots, AskAgain(s)
    PROVE  Goes(s)
<1>1. PICK q : q = question[s]
  OBVIOUS
<1>2. Proper(q) /\ q.stage = "tools" /\ UNCHANGED <<clock, asked, started>>
  BY <1>1 DEF QuestionsTyped, AskAgain, outside
<1>3. PICK new : new = [q EXCEPT !.stage = "planner"]
  OBVIOUS
<1>4. Carries(new, q)
  BY <1>2, <1>3 DEF Carries, Proper, Equipped, Questions, Stages
<1>5. CASE Reject(s)
  BY <1>2, <1>5, RejectGoes
<1>6. CASE Becomes(s, new)
  BY <1>1, <1>2, <1>4, <1>6 DEF Goes, Becomes
<1> QED
  BY <1>1, <1>3, <1>5, <1>6 DEF AskAgain

LEMMA AnswerGoes ==
    ASSUME QuestionsTyped, NEW s \in Slots, NEW cites \in SUBSET Items, Answer(s, cites)
    PROVE  Goes(s)
<1>1. PICK q : q = question[s]
  OBVIOUS
<1>2. Proper(q) /\ q.stage = "planner" /\ cites \subseteq q.evidence
  BY <1>1 DEF QuestionsTyped, Answer
<1>3. PICK new : new = [q EXCEPT !.stage = "risk", !.cites = cites, !.evidence = {}, !.calls = 0,
                                 !.tools = 0]
  OBVIOUS
<1>4. q.tools \in Nat /\ q.pending \in Nat /\ 0 + q.pending <= ToolBudget /\ 0 \in 0..CallBudget
  BY <1>2, PlannerAssumption DEF Proper, Questions
<1>5. Carries(new, q)
  BY <1>2, <1>3, <1>4 DEF Carries, Proper, Equipped, Questions, Stages
<1> QED
  BY <1>1, <1>3, <1>5 DEF Goes, Answer, Becomes, outside

LEMMA ReviewRiskGoes ==
    ASSUME QuestionsTyped, NEW s \in Slots, ReviewRisk(s)
    PROVE  Goes(s)
<1>1. PICK q : q = question[s]
  OBVIOUS
<1>2. Proper(q) /\ q.stage = "risk" /\ UNCHANGED <<clock, asked, started>>
  BY <1>1 DEF QuestionsTyped, ReviewRisk, outside
<1>3. PICK new : new = [q EXCEPT !.stage = "critic", !.unchecked = q.cites]
  OBVIOUS
<1>4. Carries(new, q)
  BY <1>2, <1>3 DEF Carries, Proper, Equipped, Questions, Stages
<1>5. CASE Reject(s)
  BY <1>2, <1>5, RejectGoes
<1>6. CASE Becomes(s, new)
  BY <1>1, <1>2, <1>4, <1>6 DEF Goes, Becomes
<1> QED
  BY <1>1, <1>3, <1>5, <1>6 DEF ReviewRisk

LEMMA ReviewCitationGoes ==
    ASSUME QuestionsTyped, NEW s \in Slots, NEW e \in Items, ReviewCitation(s, e)
    PROVE  Goes(s)
<1>1. PICK q : q = question[s]
  OBVIOUS
<1>2. Proper(q) /\ q.stage = "critic" /\ UNCHANGED <<clock, asked, started>>
  BY <1>1 DEF QuestionsTyped, ReviewCitation, outside
<1>3. PICK left : left = q.unchecked \ {e}
  OBVIOUS
<1>4. left \subseteq q.cites /\ left \in SUBSET Items
  BY <1>2, <1>3 DEF Proper, Questions
<1>5. PICK new : new = [q EXCEPT !.unchecked = left]
  OBVIOUS
<1>6. Carries(new, q)
  BY <1>2, <1>4, <1>5 DEF Carries, Proper, Equipped, Questions
<1>7. CASE Reject(s)
  BY <1>2, <1>7, RejectGoes
<1>8. CASE Becomes(s, new)
  BY <1>1, <1>2, <1>6, <1>8 DEF Goes, Becomes
<1> QED
  BY <1>1, <1>3, <1>5, <1>7, <1>8 DEF ReviewCitation

LEMMA ApproveGoes ==
    ASSUME QuestionsTyped, NEW s \in Slots, Approve(s)
    PROVE  Goes(s)
<1>1. PICK q : q = question[s]
  OBVIOUS
<1>2. Proper(q) /\ q.stage = "critic" /\ q.unchecked = {} /\ UNCHANGED <<clock, asked, started>>
  BY <1>1 DEF QuestionsTyped, Approve, outside
<1>3. PICK new : new = [q EXCEPT !.stage = "answer"]
  OBVIOUS
<1>4. Carries(new, q)
  BY <1>2, <1>3 DEF Carries, Proper, Equipped, Questions, Stages
<1>5. CASE Reject(s)
  BY <1>2, <1>5, RejectGoes
<1>6. CASE Becomes(s, new)
  BY <1>1, <1>2, <1>4, <1>6 DEF Goes, Becomes
<1> QED
  BY <1>1, <1>3, <1>5, <1>6 DEF Approve

(* The steps of a question but those that ask it, store it or start a      *)
(* research run.                                                           *)
Quiet(s) ==
    \/ Supervise(s) \/ ReadPlan(s) \/ ReturnEvidence(s) \/ AskAgain(s) \/ PlannerFails(s)
    \/ ReviewRisk(s) \/ Approve(s) \/ Crash(s)
    \/ \E found \in SUBSET Pages : Search(s, found)
    \/ \E n \in 1..ToolBudget + 1 : RequestTools(s, n)
    \/ \E research \in BOOLEAN : RunTool(s, research)
    \/ \E cites \in SUBSET Items : Answer(s, cites)
    \/ \E e \in Items : ReviewCitation(s, e)

LEMMA QuietGoes ==
    ASSUME RowsTyped, QuestionsTyped, NEW s \in Slots, Quiet(s)
    PROVE  Goes(s) /\ UNCHANGED <<outside, rows>>
<1>1. CASE PlannerFails(s) \/ Crash(s)
  BY <1>1, RejectGoes DEF PlannerFails, Crash, outside
<1>2. Goes(s)
  BY <1>1, SuperviseGoes, ReadPlanGoes, ReturnEvidenceGoes, AskAgainGoes, ReviewRiskGoes,
     ApproveGoes, SearchGoes, RequestToolsGoes, RunToolGoes, AnswerGoes, ReviewCitationGoes
     DEF Quiet
<1>3. UNCHANGED <<outside, rows>>
  BY DEF Quiet, Supervise, ReadPlan, ReturnEvidence, AskAgain, PlannerFails, ReviewRisk, Approve,
         Crash, Search, RequestTools, RunTool, Answer, ReviewCitation
<1> QED
  BY <1>2, <1>3

LEMMA ResearchFailsGoes ==
    ASSUME QuestionsTyped, NEW s \in Slots, ResearchFails(s)
    PROVE  Goes(s)
BY GiveUpGoes DEF ResearchFails, outside

LEMMA PutAnswerGoes ==
    ASSUME NEW s \in Slots, PutAnswer(s)
    PROVE  Goes(s)
BY RejectGoes DEF PutAnswer, outside

LEMMA IdleIsProper == Proper(Idle)
BY PlannerAssumption DEF Proper, Idle, Questions, Stages

LEMMA ProperStays ==
    ASSUME RowsTyped, NEW q, Proper(q), asked' \in Nat, asked <= asked', started' \in Nat,
           started <= started', UNCHANGED clock
    PROVE  Proper(q)'
<1>1. Proper(q) /\ asked \in Nat /\ started \in Nat
  BY PlannerAssumption DEF RowsTyped
<1> QED
  BY <1>1 DEF Proper

LEMMA GoesTyped ==
    ASSUME RowsTyped, QuestionsTyped, NEW s \in Slots, Goes(s)
    PROVE  QuestionsTyped'
<1>1. PICK new : question' = [question EXCEPT ![s] = new] /\ Carries(new, question[s])
  BY DEF Goes
<1>2. Proper(new) /\ new \in Questions
  BY <1>1, IdleIsProper DEF Carries, Proper
<1>3. UNCHANGED <<clock, asked, started>> /\ asked \in Nat /\ started \in Nat
  BY DEF Goes, RowsTyped
<1>4. question' \in [Slots -> Questions] /\ \A t \in Slots : Proper(question'[t])
  BY <1>1, <1>2 DEF QuestionsTyped
<1> QED
  BY <1>3, <1>4 DEF QuestionsTyped, Proper

LEMMA GoesDistinct ==
    ASSUME Distinct, NEW s \in Slots, Goes(s), QuestionsTyped
    PROVE  Distinct'
<1>1. PICK new : question' = [question EXCEPT ![s] = new] /\ Carries(new, question[s])
  BY DEF Goes
<1>2. question'[s] = new /\ \A t \in Slots \ {s} : question'[t] = question[t]
  BY <1>1 DEF QuestionsTyped
<1>3. CASE new = Idle
  <2>1. new.stage = "idle" /\ new.no = 0
    BY <1>3 DEF Idle
  <2>2. \A t \in Slots : question[t].stage # "idle" => question[t].no # 0
    BY DEF QuestionsTyped, Proper
  <2> QED
    BY <1>2, <2>1, <2>2 DEF Distinct
<1>4. CASE new # Idle
  <2>1. new.stage # "idle" /\ new.no = question[s].no /\ (question[s].stage = "idle" => new.no = 0)
    BY <1>1, <1>4 DEF Carries, QuestionsTyped, Proper, Idle
  <2>2. new.no # 0
    BY <1>1, <1>4, <2>1 DEF Carries, Proper
  <2> QED
    BY <1>2, <2>1, <2>2 DEF Distinct
<1> QED
  BY <1>3, <1>4

LEMMA UpToIsFinite ==
    ASSUME NEW n \in Nat, NEW S \in SUBSET (1..n)
    PROVE  IsFiniteSet(S) /\ Cardinality(S) \in Nat
<1>1. IsFiniteSet(1..n)
  BY FS_Interval
<1>2. IsFiniteSet(S)
  BY <1>1, FS_Subset
<1> QED
  BY <1>2, FS_CardinalityType

LEMMA PastIsFinite ==
    /\ RowsTyped => IsFiniteSet(Past) /\ Cardinality(Past) \in Nat
    /\ RowsTyped' => IsFiniteSet(Past') /\ Cardinality(Past') \in Nat
<1>1. RowsTyped => asked \in Nat /\ Past \subseteq 1..asked
  BY DEF RowsTyped, Past
<1>2. RowsTyped' => asked' \in Nat /\ Past' \subseteq 1..asked'
  BY DEF RowsTyped, Past
<1> QED
  BY <1>1, <1>2, UpToIsFinite

(* No question is numbered again. *)
LEMMA GoesPast ==
    ASSUME NEW s \in Slots, Goes(s), QuestionsTyped
    PROVE  Past \subseteq Past'
<1>1. PICK new : question' = [question EXCEPT ![s] = new] /\ Carries(new, question[s])
  BY DEF Goes
<1>2. new.stage # "question"
  BY <1>1 DEF Carries, Idle
<1>3. \A t \in Slots : question'[t].stage = "question" => question'[t] = question[t]
  BY <1>1, <1>2 DEF QuestionsTyped
<1>4. UNCHANGED asked
  BY DEF Goes
<1> QED
  BY <1>3, <1>4 DEF Past

LEMMA BoundStays ==
    ASSUME RowsTyped, RowsTyped', Past \subseteq Past', NEW n \in Nat, n <= 2 * Cardinality(Past)
    PROVE  n <= 2 * Cardinality(Past')
<1>1. PICK old, new : old = Past /\ new = Past'
  OBVIOUS
<1>2. /\ IsFiniteSet(new) /\ Cardinality(new) \in Nat /\ Cardinality(old) \in Nat
      /\ Cardinality(old) <= Cardinality(new)
  BY <1>1, PastIsFinite, FS_Subset
<1> QED
  BY <1>1, <1>2

-----------------------------------------------------------------------------
(* What a step does to questions, for the parts of the invariant that are  *)
(* about runs and citations. *)

LEMMA GoesEquipped ==
    ASSUME QuestionsTyped, NEW s \in Slots, Goes(s), \A t \in Slots : Equipped(question[t])
    PROVE  \A t \in Slots : Equipped(question[t])'
<1>1. PICK new : question' = [question EXCEPT ![s] = new] /\ Carries(new, question[s])
  BY DEF Goes
<1>2. Equipped(new)
  BY <1>1 DEF Carries, Equipped, Idle
<1> QED
  BY <1>1, <1>2 DEF Equipped, QuestionsTyped

(* Runs keep the time they were started at while they are there. *)
RunsKept ==
    /\ started' \in Nat /\ started <= started'
    /\ \A r \in 1..started : runs'[r] # NoRun => runs[r] # NoRun /\ runs'[r].at = runs[r].at

LEMMA SinceStays ==
    ASSUME RowsTyped, RunsKept, NEW r, NEW at, Since(r, at)
    PROVE  Since(r, at)'
<1>1. started \in Nat
  BY DEF RowsTyped
<1> QED
  BY <1>1 DEF RunsKept, Since

LEMMA SourcedStays ==
    ASSUME RowsTyped, RunsKept, NEW q, Sourced(q)
    PROVE  Sourced(q)'
BY SinceStays DEF Sourced

LEMMA GoesSourced ==
    ASSUME RowsTyped, QuestionsTyped, RunsKept, NEW s \in Slots, Goes(s),
           \A t \in Slots : Sourced(question[t])
    PROVE  \A t \in Slots : Sourced(question[t])'
<1>1. PICK new : question' = [question EXCEPT ![s] = new] /\ Carries(new, question[s])
  BY DEF Goes
<1>2. Sourced(new)
  BY <1>1 DEF Carries, Sourced, Idle
<1>3. \A t \in Slots : Sourced(question'[t])
  BY <1>1, <1>2 DEF QuestionsTyped
<1>4. ASSUME NEW t \in Slots PROVE Sourced(question[t])'
  <2>1. PICK q : q = question'[t]
    OBVIOUS
  <2>2. Sourced(q)'
    BY <1>3, <2>1, SourcedStays
  <2> QED
    BY <2>1, <2>2 DEF Sourced
<1> QED
  BY <1>4

(* A sweep or a run's update keeps the evidence that has not expired. *)
EvidenceKept ==
    \A e \in evidence : ~EvidenceExpired(e) => e \in evidence' /\ runs'[e[1]].at = runs[e[1]].at

LEMMA ShownStays ==
    ASSUME RowsTyped, EvidenceKept, clock' \in Nat, clock <= clock', NEW m \in MessageRows,
           ~Expired(m.at) => m.cites \subseteq evidence /\ \A e \in m.cites : runs[e[1]].at >= m.at,
           ~Expired(m.at)'
    PROVE  m.cites \subseteq evidence' /\ \A e \in m.cites : runs'[e[1]].at >= m.at
<1>1. m.at \in Nat /\ clock \in Nat /\ Retention \in Nat
  BY PlannerAssumption DEF MessageRows, RowsTyped
<1>2. ~Expired(m.at)
  BY <1>1 DEF Expired
<1>3. ASSUME NEW e \in m.cites
      PROVE  e \in evidence' /\ runs'[e[1]].at >= m.at
  <2>1. e \in evidence /\ runs[e[1]].at >= m.at
    BY <1>2
  <2>2. runs[e[1]].at \in Nat
    BY <2>1 DEF RowsTyped, Items
  <2>3. ~EvidenceExpired(e)
    BY <1>1, <1>2, <2>1, <2>2 DEF EvidenceExpired, Expired
  <2> QED
    BY <2>1, <2>3 DEF EvidenceKept
<1> QED
  BY <1>3

(* The message and the free number of a question under way stay. *)
LEMMA GoesWaiting ==
    ASSUME QuestionsTyped, Waiting, NEW s \in Slots, Goes(s), UNCHANGED <<conversation, messages>>
    PROVE  Waiting'
<1>1. PICK new : question' = [question EXCEPT ![s] = new] /\ Carries(new, question[s])
  BY DEF Goes
<1>2. Held(new)
  BY <1>1 DEF Carries, Waiting, Held, Message, Idle
<1>3. \A t \in Slots : Held(question'[t])
  BY <1>1, <1>2 DEF Waiting, QuestionsTyped
<1> QED
  BY <1>3 DEF Waiting, Held, Message

-----------------------------------------------------------------------------
(* Typed *)

(* What PutQuestion does when its conversation is there. *)
LEMMA PutQuestionAdds ==
    ASSUME RowsTyped, QuestionsTyped, Numbered, NEW s \in Slots, PutQuestion(s),
           question[s].in = conversation.id
    PROVE  \E n \in Nat :
              /\ n # 0 /\ n % 2 = 1 /\ n <= 2 * Cardinality(Past) + 1
              /\ \A m \in messages : m.seq < n
              /\ Message(question[s], "user", n, {}) \in MessageRows
              /\ messages' = messages \cup {Message(question[s], "user", n, {})}
              /\ question' = [question EXCEPT ![s] =
                                [question[s] EXCEPT !.stage = "supervisor", !.seq = n]]
<1>1. PICK b \in Nat : b = Cardinality(Past)
  BY PastIsFinite
<1>2. PICK n : n = NextUserSequence
  OBVIOUS
<1>3. n \in 1..(2 * b + 1) /\ n % 2 = 1 /\ \A m \in messages : m.seq < n
  BY <1>1, <1>2, NextIsOdd DEF Numbered
<1>4. n \in Nat /\ n # 0 /\ n <= 2 * b + 1
  BY <1>3
<1>5. /\ question[s].no \in 1..MaxAsked /\ question[s].at \in 0..MaxClock
  BY DEF PutQuestion, QuestionsTyped, Proper, Questions
<1>6. Message(question[s], "user", n, {}) \in MessageRows
  BY <1>4, <1>5 DEF Message, MessageRows, Senders
<1>7. /\ messages' = messages \cup {Message(question[s], "user", n, {})}
      /\ question' = [question EXCEPT ![s] =
                        [question[s] EXCEPT !.stage = "supervisor", !.seq = n]]
  BY <1>2 DEF PutQuestion, Becomes
<1> QED
  BY <1>1, <1>3, <1>4, <1>6, <1>7

(* What PutAnswer does when it is accepted. *)
Accepted(q) ==
    /\ q.in = conversation.id
    /\ q.cites \subseteq evidence
    /\ \A m \in messages : m.seq # q.seq + 1

LEMMA PutAnswerAdds ==
    ASSUME RowsTyped, QuestionsTyped, NEW s \in Slots, PutAnswer(s)
    PROVE  \/ UNCHANGED messages
           \/ \E n \in Nat :
                /\ Accepted(question[s]) /\ conversation.id # 0 /\ question[s].stage = "answer"
                /\ n = question[s].seq + 1 /\ question[s].seq \in Nat
                /\ Message(question[s], "assistant", n, question[s].cites) \in MessageRows
                /\ messages' = messages \cup {Message(question[s], "assistant", n, question[s].cites)}
<1>1. PICK q : q = question[s]
  OBVIOUS
<1>2. /\ q.stage = "answer" /\ q.no \in 1..MaxAsked /\ q.at \in 0..MaxClock /\ q.seq \in Nat
      /\ q.cites \subseteq Items /\ q.in # 0
  BY <1>1 DEF PutAnswer, QuestionsTyped, Proper, Questions
<1>3. PICK n : n = q.seq + 1
  OBVIOUS
<1>4. n \in Nat \ {0}
  BY <1>2, <1>3
<1>5. Message(q, "assistant", n, q.cites) \in MessageRows
  BY <1>2, <1>4 DEF Message, MessageRows, Senders
<1>6. messages' = IF Accepted(q) THEN messages \cup {Message(q, "assistant", n, q.cites)} ELSE messages
  BY <1>1, <1>3 DEF PutAnswer, Accepted
<1>7. CASE ~Accepted(q)
  BY <1>6, <1>7
<1>8. CASE Accepted(q)
  <2>1. conversation.id # 0
    BY <1>2, <1>8 DEF Accepted
  <2>2. messages' = messages \cup {Message(q, "assistant", n, q.cites)}
    BY <1>6, <1>8
  <2> QED
    BY <1>1, <1>2, <1>3, <1>4, <1>5, <1>8, <2>1, <2>2
<1> QED
  BY <1>7, <1>8

LEMMA HandleRowsTyped ==
    ASSUME RowsTyped, QuestionsTyped, Numbered, NEW s \in Slots, Handle(s)
    PROVE  RowsTyped'
<1>1. CASE Quiet(s)
  BY <1>1, QuietGoes DEF Goes, RowsTyped, outside, rows
<1>2. ASSUME NEW analyze \in BOOLEAN, NEW opens \in BOOLEAN, Ask(s, analyze, opens) PROVE RowsTyped'
  <2>1. /\ asked' = asked + 1 /\ asked' \in 0..MaxAsked /\ asked \in Nat
        /\ UNCHANGED <<clock, household, plan, messages, runs, evidence, started>>
    BY <1>2, PlannerAssumption DEF Ask, RowsTyped, outside
  <2>2. conversation' \in [id : 0..asked', at : 0..MaxClock]
        /\ (conversation'.id = 0 => conversation' = conversation)
    <3>1. CASE opens
      BY <1>2, <2>1, <3>1 DEF Ask, RowsTyped
    <3>2. CASE ~opens
      <4>1. conversation' = conversation
        BY <1>2, <3>2 DEF Ask
      <4> QED
        BY <2>1, <4>1 DEF RowsTyped
    <3> QED
      BY <3>1, <3>2
  <2> QED
    BY <2>1, <2>2 DEF RowsTyped
<1>3. CASE PutQuestion(s)
  <2>1. /\ UNCHANGED <<clock, household, plan, conversation, runs, evidence, asked, started>>
        /\ question[s].in # 0
    BY <1>3 DEF PutQuestion, outside, QuestionsTyped, Proper
  <2>2. CASE question[s].in = conversation.id
    BY <1>3, <2>1, <2>2, PutQuestionAdds DEF RowsTyped
  <2>3. CASE question[s].in # conversation.id
    <3>1. UNCHANGED messages
      BY <1>3, <2>3 DEF PutQuestion
    <3> QED
      BY <2>1, <3>1 DEF RowsTyped
  <2> QED
    BY <2>2, <2>3
<1>4. CASE StartResearch(s)
  <2>1. UNCHANGED <<clock, household, plan, conversation, messages, evidence, asked>>
    BY <1>4 DEF StartResearch, outside
  <2>2. started' \in 0..MaxRuns /\ runs' \in [1..MaxRuns -> [status : ResearchStatuses, at : 0..MaxClock]]
    <3>1. CASE UNCHANGED <<runs, started>>
      BY <3>1 DEF RowsTyped
    <3>2. CASE ~UNCHANGED <<runs, started>>
      <4>1. PICK r : r = started'
        OBVIOUS
      <4>2. /\ r = started + 1 /\ started < MaxRuns
            /\ runs' = [runs EXCEPT ![r] = [status |-> "running", at |-> clock]]
        BY <1>4, <3>2, <4>1 DEF StartResearch
      <4>3. r \in 0..MaxRuns
        BY <4>2, PlannerAssumption DEF RowsTyped
      <4>4. [status |-> "running", at |-> clock] \in [status : ResearchStatuses, at : 0..MaxClock]
        BY DEF RowsTyped, ResearchStatuses
      <4> QED
        BY <4>1, <4>2, <4>3, <4>4 DEF RowsTyped
    <3> QED
      BY <3>1, <3>2
  <2> QED
    BY <2>1, <2>2 DEF RowsTyped
<1>5. CASE SaveEvidence(s)
  <2>1. UNCHANGED <<clock, household, plan, conversation, messages, asked, started>>
    BY <1>5 DEF SaveEvidence, outside
  <2>2. /\ runs' \in [1..MaxRuns -> [status : ResearchStatuses, at : 0..MaxClock]]
        /\ evidence' \subseteq Items
    BY <1>5 DEF SaveEvidence, RowsTyped, ResearchStatuses, QuestionsTyped, Questions
  <2> QED
    BY <2>1, <2>2 DEF RowsTyped
<1>6. CASE ResearchFails(s)
  <2>1. UNCHANGED <<clock, household, plan, conversation, messages, evidence, asked, started>>
    BY <1>6 DEF ResearchFails, outside
  <2>2. runs' \in [1..MaxRuns -> [status : ResearchStatuses, at : 0..MaxClock]]
    BY <1>6 DEF ResearchFails, Failed, RowsTyped, ResearchStatuses
  <2> QED
    BY <2>1, <2>2 DEF RowsTyped
<1>7. CASE PutAnswer(s)
  <2>1. UNCHANGED <<clock, household, plan, conversation, runs, evidence, asked, started>>
    BY <1>7 DEF PutAnswer, outside
  <2>2. CASE UNCHANGED messages
    BY <2>1, <2>2 DEF RowsTyped
  <2>3. CASE ~UNCHANGED messages
    BY <1>7, <2>1, <2>3, PutAnswerAdds DEF RowsTyped
  <2> QED
    BY <2>2, <2>3
<1> QED
  BY <1>1, <1>2, <1>3, <1>4, <1>5, <1>6, <1>7 DEF Handle, Quiet

(* Steps of the sweeps, of a household's deletion and of the clock. *)
Outer == SweepMessages \/ SweepConversations \/ SweepEvidence \/ SweepRuns \/ DeleteHousehold \/ Tick

LEMMA BatchIsSubset ==
    ASSUME NEW S, NEW T \in Batches(S)
    PROVE  T \subseteq S
BY DEF Batches, kSubset

LEMMA OuterRowsTyped ==
    ASSUME RowsTyped, Outer
    PROVE  RowsTyped'
<1>1. CASE SweepMessages \/ SweepEvidence
  BY <1>1 DEF SweepMessages, SweepEvidence, RowsTyped, outside
<1>2. CASE SweepConversations \/ DeleteHousehold
  <2>1. /\ conversation' = NoConversation /\ messages' = {} /\ UNCHANGED <<clock, asked, started>>
        /\ household' \in BOOLEAN /\ plan' \in BOOLEAN
    BY <1>2 DEF SweepConversations, DeleteHousehold, RemoveConversation, RowsTyped, outside
  <2>2. NoConversation \in [id : 0..asked, at : 0..MaxClock]
    BY PlannerAssumption DEF NoConversation, RowsTyped
  <2>3. /\ runs' \in [1..MaxRuns -> [status : ResearchStatuses, at : 0..MaxClock]]
        /\ evidence' \subseteq Items
    BY SMTT(30), <1>2, PlannerAssumption DEF SweepConversations, DeleteHousehold, RowsTyped, NoRun,
       ResearchStatuses
  <2> QED
    BY <2>1, <2>2, <2>3 DEF RowsTyped
<1>3. CASE SweepRuns
  BY <1>3, PlannerAssumption DEF SweepRuns, RowsTyped, NoRun, ResearchStatuses, outside
<1>4. CASE Tick
  BY <1>4, PlannerAssumption DEF Tick, RowsTyped, rows
<1> QED
  BY <1>1, <1>2, <1>3, <1>4 DEF Outer

LEMMA HandleQuestionsTyped ==
    ASSUME RowsTyped, QuestionsTyped, Numbered, Researched, NEW s \in Slots, Handle(s)
    PROVE  QuestionsTyped'
<1>1. CASE Goes(s)
  BY <1>1, GoesTyped
<1>2. CASE Quiet(s) \/ SaveEvidence(s) \/ ResearchFails(s) \/ PutAnswer(s)
  BY <1>1, <1>2, QuietGoes, SaveEvidenceGoes, ResearchFailsGoes, PutAnswerGoes
<1>3. ASSUME NEW analyze \in BOOLEAN, NEW opens \in BOOLEAN, Ask(s, analyze, opens)
      PROVE  QuestionsTyped'
  <2>1. PICK no, in : no = asked' /\ in = conversation'.id
    OBVIOUS
  <2>2. /\ no = asked + 1 /\ no \in 1..MaxAsked /\ asked \in Nat /\ started \in Nat
        /\ UNCHANGED <<clock, started>> /\ clock \in 0..MaxClock
    BY SMTT(30), <1>3, <2>1, PlannerAssumption DEF Ask, RowsTyped, outside
  <2>3. in \in 1..no
    BY <1>3, <2>1, <2>2 DEF Ask, RowsTyped, Visible
  <2>4. question[s] = Idle
    BY <1>3 DEF Ask, QuestionsTyped, Proper
  <2> DEFINE q == question[s]
  <2>5. PICK new : new = [q EXCEPT !.stage = "question", !.no = no, !.at = clock, !.in = in,
                                   !.analyze = analyze]
    OBVIOUS
  <2>6. question' = [question EXCEPT ![s] = new]
    BY <1>3, <2>1, <2>5 DEF Ask, Becomes
  <2>7. /\ new \in Questions /\ new.stage = "question" /\ new.no = no /\ new.in = in /\ new.at = clock
        /\ new.tools = 0 /\ new.pending = 0 /\ new.unchecked = {} /\ new.cites = {} /\ new.seq = 0
    <3>1. /\ q \in Questions /\ q.tools = 0 /\ q.pending = 0 /\ q.unchecked = {} /\ q.cites = {}
          /\ q.seq = 0
      BY <2>4, IdleIsProper DEF Proper, Idle
    <3>2. in \in 0..MaxAsked /\ no \in 0..MaxAsked
      BY <2>2, <2>3, PlannerAssumption
    <3> HIDE DEF q
    <3> QED
      BY <2>2, <2>5, <3>1, <3>2 DEF Questions, Stages
  <2>8. \A t \in Slots : Proper(question[t])'
    <3>1. asked' \in Nat /\ asked <= asked' /\ started' \in Nat /\ started <= started'
      BY <2>1, <2>2
    <3>2. ASSUME NEW t \in Slots \ {s} PROVE Proper(question[t])'
      <4>1. PICK other : other = question[t]
        OBVIOUS
      <4>2. Proper(other)'
        BY <2>2, <3>1, <4>1, ProperStays DEF QuestionsTyped
      <4>3. question'[t] = other
        BY <2>6, <4>1 DEF QuestionsTyped
      <4> QED
        BY <4>2, <4>3 DEF Proper
    <3>3. Proper(question[s])'
      <4>1. question'[s] = new
        BY <2>6 DEF QuestionsTyped
      <4> QED
        BY <2>1, <2>2, <2>3, <2>7, <4>1, PlannerAssumption DEF Proper
    <3> QED
      BY <3>2, <3>3
  <2> QED
    BY <2>6, <2>7, <2>8 DEF QuestionsTyped
<1>4. CASE PutQuestion(s) /\ question[s].in # conversation.id
  <2>1. Reject(s) /\ UNCHANGED <<clock, asked, started>>
    BY <1>4 DEF PutQuestion, outside
  <2> QED
    BY <1>1, <2>1, RejectGoes
<1>5. CASE PutQuestion(s) /\ question[s].in = conversation.id
  <2>1. PICK n \in Nat \ {0} : question' = [question EXCEPT ![s] =
                            [question[s] EXCEPT !.stage = "supervisor", !.seq = n]]
    BY <1>5, PutQuestionAdds
  <2>2. PICK q : q = question[s]
    OBVIOUS
  <2>3. Proper(q) /\ q.stage = "question" /\ UNCHANGED <<clock, asked, started>>
    BY <1>5, <2>2 DEF QuestionsTyped, PutQuestion, outside
  <2>4. PICK new : new = [q EXCEPT !.stage = "supervisor", !.seq = n]
    OBVIOUS
  <2>5. Proper(new)
    BY <2>3, <2>4 DEF Proper, Questions, Stages
  <2>6. question' \in [Slots -> Questions] /\ \A t \in Slots : Proper(question'[t])
    BY <2>1, <2>2, <2>4, <2>5 DEF QuestionsTyped, Proper
  <2> QED
    BY <2>3, <2>6 DEF QuestionsTyped, Proper
<1>6. CASE StartResearch(s)
  <2>1. CASE GiveUpResearch(s) /\ UNCHANGED started
    <3>1. Goes(s)
      BY <1>6, <2>1, GiveUpGoes DEF StartResearch, outside
    <3> QED
      BY <1>1, <3>1
  <2>2. CASE /\ started < MaxRuns /\ started' = started + 1
             /\ Becomes(s, [question[s] EXCEPT !.stage = "searching", !.run = started'])
    <3>1. PICK run : run = started'
      OBVIOUS
    <3>2. PICK q : q = question[s]
      OBVIOUS
    <3>3. PICK new : new = [q EXCEPT !.stage = "searching", !.run = run]
      OBVIOUS
    <3>4. /\ Proper(q) /\ q.stage = "research" /\ UNCHANGED <<clock, asked>>
          /\ run \in 1..MaxRuns /\ asked \in Nat /\ started \in Nat /\ started <= run
      BY SMTT(30), <1>6, <2>2, <3>1, <3>2, PlannerAssumption
         DEF QuestionsTyped, StartResearch, outside, RowsTyped
    <3>5. question' = [question EXCEPT ![s] = new]
      BY <2>2, <3>1, <3>2, <3>3 DEF Becomes
    <3>6. \A t \in Slots \ {s} : Proper(question[t])'
      <4>1. ASSUME NEW t \in Slots \ {s} PROVE Proper(question[t])'
        <5>1. PICK p : p = question[t]
          OBVIOUS
        <5>2. Proper(p)'
          BY <3>1, <3>4, <5>1, ProperStays DEF QuestionsTyped
        <5>3. question'[t] = p
          BY <3>5, <5>1 DEF QuestionsTyped
        <5> QED
          BY <5>2, <5>3 DEF Proper
      <4> QED
        BY <4>1
    <3>7. new \in Questions /\ Proper(new)'
      <4>1. /\ new \in Questions /\ new.stage = "searching" /\ new.run = run
            /\ new.tools = q.tools /\ new.pending = q.pending /\ new.cites = q.cites
            /\ new.unchecked = q.unchecked /\ new.no = q.no /\ new.in = q.in /\ new.at = q.at
            /\ new.seq = q.seq
        <5>1. run \in 0..MaxRuns /\ q \in Questions
          BY <3>4, PlannerAssumption DEF Proper
        <5> QED
          BY <3>3, <5>1 DEF Questions, Stages
      <4>2. run \in 1..started' /\ UNCHANGED <<asked, clock>> /\ q.seq # 0
        BY <3>1, <3>4 DEF Proper
      <4> QED
        BY <3>4, <4>1, <4>2 DEF Proper
    <3> QED
      BY <3>5, <3>6, <3>7 DEF QuestionsTyped, Proper
  <2> QED
    BY <1>6, <2>1, <2>2 DEF StartResearch
<1> QED
  BY <1>2, <1>3, <1>4, <1>5, <1>6 DEF Handle, Quiet

LEMMA OuterQuestionsTyped ==
    ASSUME RowsTyped, QuestionsTyped, Outer
    PROVE  QuestionsTyped'
<1>1. UNCHANGED <<question, asked, started>>
  BY DEF Outer, SweepMessages, SweepConversations, SweepEvidence, SweepRuns, DeleteHousehold, Tick
<1>2. CASE UNCHANGED clock
  BY <1>1, <1>2 DEF QuestionsTyped, Proper
<1>3. CASE Tick
  <2>1. clock' = clock + 1 /\ clock \in Nat
    BY <1>3 DEF Tick, RowsTyped
  <2>2. \A s \in Slots : question[s].stage = "idle" \/ question[s].at = clock
    BY <1>3 DEF Tick
  <2> QED
    BY <1>1, <2>1, <2>2 DEF QuestionsTyped, Proper
<1> QED
  BY <1>2, <1>3 DEF Outer, SweepMessages, SweepConversations, SweepEvidence, SweepRuns,
     DeleteHousehold, outside

-----------------------------------------------------------------------------
(* The steps that ask a question, store it and start a research run *)

LEMMA AskBecomes ==
    ASSUME RowsTyped, QuestionsTyped, NEW s \in Slots, NEW analyze, NEW opens,
           Ask(s, analyze, opens)
    PROVE  \E new :
              /\ question' = [question EXCEPT ![s] = new]
              /\ new.stage = "question" /\ new.no = asked' /\ new.seq = 0 /\ new.run = 0
              /\ new.found = {} /\ new.evidence = {} /\ new.cites = {}
              /\ asked' = asked + 1 /\ asked \in Nat
              /\ conversation' # conversation =>
                    conversation.id = 0 /\ conversation'.id = asked' /\ messages = {}
              /\ UNCHANGED <<clock, messages, runs, evidence, started>>
<1> DEFINE q == question[s]
<1>1. PICK no, in, at : no = asked' /\ in = conversation'.id /\ at = clock
  OBVIOUS
<1>2. PICK new : new = [q EXCEPT !.stage = "question", !.no = no, !.at = at, !.in = in,
                                 !.analyze = analyze]
  OBVIOUS
<1>3. question' = [question EXCEPT ![s] = new]
  BY <1>1, <1>2 DEF Ask, Becomes
<1>4. /\ q \in Questions /\ q.seq = 0 /\ q.run = 0 /\ q.found = {} /\ q.evidence = {} /\ q.cites = {}
  BY IdleIsProper DEF Ask, QuestionsTyped, Proper, Idle
<1>5. /\ new.stage = "question" /\ new.no = no /\ new.seq = 0 /\ new.run = 0
      /\ new.found = {} /\ new.evidence = {} /\ new.cites = {}
  <2> HIDE DEF q
  <2> QED
    BY <1>2, <1>4 DEF Questions
<1>6. /\ asked' = asked + 1 /\ asked \in Nat
      /\ UNCHANGED <<clock, messages, runs, evidence, started>>
  BY DEF Ask, RowsTyped, outside
<1>7. conversation' # conversation =>
         conversation.id = 0 /\ conversation'.id = asked' /\ messages = {}
  BY DEF Ask, NoConversation, RowsTyped
<1> QED
  BY <1>1, <1>3, <1>5, <1>6, <1>7

LEMMA StartResearchBecomes ==
    ASSUME RowsTyped, QuestionsTyped, NEW s \in Slots, StartResearch(s)
    PROVE  /\ UNCHANGED <<clock, asked, conversation, messages, evidence>>
           /\ \/ Goes(s) /\ UNCHANGED <<runs, started>>
              \/ \E q, new :
                   /\ q = question[s] /\ q.stage = "research" /\ Proper(q)
                   /\ question' = [question EXCEPT ![s] = new]
                   /\ new.stage = "searching" /\ new.run = started'
                   /\ new.no = q.no /\ new.at = q.at /\ new.in = q.in /\ new.seq = q.seq
                   /\ new.found = q.found /\ new.evidence = q.evidence /\ new.cites = q.cites
                   /\ started \in Nat /\ started' = started + 1 /\ started' \in 1..MaxRuns
                   /\ runs' = [runs EXCEPT ![started'] = [status |-> "running", at |-> clock]]
<1>1. UNCHANGED <<clock, asked, conversation, messages, evidence>>
  BY DEF StartResearch, outside
<1>2. CASE GiveUpResearch(s) /\ UNCHANGED <<runs, started>>
  BY <1>1, <1>2, GiveUpGoes DEF StartResearch
<1>3. CASE /\ started < MaxRuns /\ started' = started + 1
           /\ runs' = [runs EXCEPT ![started'] = [status |-> "running", at |-> clock]]
           /\ Becomes(s, [question[s] EXCEPT !.stage = "searching", !.run = started'])
  <2>1. PICK run : run = started'
    OBVIOUS
  <2>2. PICK q : q = question[s]
    OBVIOUS
  <2>3. PICK new : new = [q EXCEPT !.stage = "searching", !.run = run]
    OBVIOUS
  <2>4. q.stage = "research" /\ Proper(q) /\ question' = [question EXCEPT ![s] = new]
    BY <1>3, <2>1, <2>2, <2>3 DEF StartResearch, Becomes, QuestionsTyped
  <2>5. /\ new.stage = "searching" /\ new.run = run
        /\ new.no = q.no /\ new.at = q.at /\ new.in = q.in /\ new.seq = q.seq
        /\ new.found = q.found /\ new.evidence = q.evidence /\ new.cites = q.cites
    BY <2>3, <2>4 DEF Proper, Questions
  <2>6. started \in Nat /\ started' \in 1..MaxRuns
    BY SMTT(30), <1>3, PlannerAssumption DEF RowsTyped
  <2> QED
    BY <1>1, <1>3, <2>1, <2>2, <2>4, <2>5, <2>6
<1> QED
  BY <1>1, <1>2, <1>3 DEF StartResearch

(* What PutQuestion does to its question. *)
LEMMA PutQuestionBecomes ==
    ASSUME RowsTyped, QuestionsTyped, Numbered, NEW s \in Slots, PutQuestion(s)
    PROVE  /\ UNCHANGED <<clock, asked, started, conversation, runs, evidence>>
           /\ \/ Goes(s) /\ UNCHANGED messages
              \/ \E n, q, new :
                   /\ n \in Nat \ {0}
                   /\ q = question[s] /\ q.stage = "question" /\ Proper(q) /\ q.in = conversation.id
                   /\ question' = [question EXCEPT ![s] = new]
                   /\ new.stage = "supervisor" /\ new.seq = n
                   /\ new.no = q.no /\ new.at = q.at /\ new.in = q.in /\ new.run = q.run
                   /\ new.found = q.found /\ new.evidence = q.evidence /\ new.cites = q.cites
                   /\ n % 2 = 1 /\ n <= 2 * Cardinality(Past) + 1
                   /\ \A m \in messages : m.seq < n
                   /\ messages' = messages \cup {Message(q, "user", n, {})}
<1>1. UNCHANGED <<clock, asked, started, conversation, runs, evidence>>
  BY DEF PutQuestion, outside
<1>2. CASE question[s].in # conversation.id
  <2>1. Reject(s) /\ UNCHANGED messages
    BY <1>2 DEF PutQuestion
  <2> QED
    BY <1>1, <2>1, RejectGoes
<1>3. CASE question[s].in = conversation.id
  <2>1. PICK n \in Nat \ {0} :
          /\ n % 2 = 1 /\ n <= 2 * Cardinality(Past) + 1
          /\ \A m \in messages : m.seq < n
          /\ messages' = messages \cup {Message(question[s], "user", n, {})}
          /\ question' = [question EXCEPT ![s] =
                            [question[s] EXCEPT !.stage = "supervisor", !.seq = n]]
    BY <1>3, PutQuestionAdds
  <2>2. PICK q : q = question[s]
    OBVIOUS
  <2>3. q.stage = "question" /\ Proper(q) /\ q.in = conversation.id
    BY <1>3, <2>2 DEF PutQuestion, QuestionsTyped
  <2>4. PICK new : new = [q EXCEPT !.stage = "supervisor", !.seq = n]
    OBVIOUS
  <2>5. /\ new.stage = "supervisor" /\ new.seq = n
        /\ new.no = q.no /\ new.at = q.at /\ new.in = q.in /\ new.run = q.run
        /\ new.found = q.found /\ new.evidence = q.evidence /\ new.cites = q.cites
    BY <2>3, <2>4 DEF Proper, Questions
  <2>6. question' = [question EXCEPT ![s] = new]
    BY <2>1, <2>2, <2>4
  <2> QED
    BY <1>1, <2>1, <2>2, <2>3, <2>5, <2>6
<1> QED
  BY <1>2, <1>3

(* The other steps keep their question going, or end it. *)
LEMMA OthersGo ==
    ASSUME RowsTyped, QuestionsTyped, Researched, NEW s \in Slots,
           Quiet(s) \/ SaveEvidence(s) \/ ResearchFails(s) \/ PutAnswer(s)
    PROVE  /\ Goes(s) /\ UNCHANGED conversation
           /\ PutAnswer(s) \/ UNCHANGED messages
BY QuietGoes, SaveEvidenceGoes, ResearchFailsGoes, PutAnswerGoes
   DEF rows, SaveEvidence, ResearchFails, PutAnswer

-----------------------------------------------------------------------------
(* Numbers of questions *)

LEMMA SameNoDistinct ==
    ASSUME Distinct, QuestionsTyped, NEW s \in Slots, NEW new, question' = [question EXCEPT ![s] = new],
           new.no = question[s].no, question[s].stage # "idle"
    PROVE  Distinct'
<1>1. question'[s] = new /\ \A t \in Slots \ {s} : question'[t] = question[t]
  BY DEF QuestionsTyped
<1> QED
  BY <1>1 DEF Distinct

LEMMA NextDistinct ==
    ASSUME RowsTyped, QuestionsTyped, Numbered, Researched, Distinct, [Next]_vars
    PROVE  Distinct'
<1>1. ASSUME NEW s \in Slots, Goes(s) PROVE Distinct'
  BY <1>1, GoesDistinct
<1>2. ASSUME NEW s \in Slots, Quiet(s) \/ SaveEvidence(s) \/ ResearchFails(s) \/ PutAnswer(s)
      PROVE  Distinct'
  BY <1>1, <1>2, OthersGo
<1>3. ASSUME NEW s \in Slots, NEW analyze, NEW opens, Ask(s, analyze, opens) PROVE Distinct'
  <2>1. PICK new : /\ question' = [question EXCEPT ![s] = new] /\ new.stage = "question"
                   /\ new.no = asked' /\ asked' = asked + 1 /\ asked \in Nat
    BY <1>3, AskBecomes
  <2>2. question'[s] = new /\ \A t \in Slots \ {s} : question'[t] = question[t]
    BY <2>1 DEF QuestionsTyped
  <2>3. \A t \in Slots : question[t].no \in 0..asked
    BY IdleIsProper, <2>1 DEF QuestionsTyped, Proper, Idle
  <2>4. \A t \in Slots : question[t].no # new.no
    BY <2>1, <2>3
  <2> QED
    BY <2>2, <2>4 DEF Distinct
<1>4. ASSUME NEW s \in Slots, PutQuestion(s) PROVE Distinct'
  BY <1>1, <1>4, PutQuestionBecomes, SameNoDistinct
<1>5. ASSUME NEW s \in Slots, StartResearch(s) PROVE Distinct'
  BY <1>1, <1>5, StartResearchBecomes, SameNoDistinct
<1>6. CASE UNCHANGED question
  BY <1>6 DEF Distinct
<1>7. Outer => UNCHANGED question
  BY DEF Outer, SweepMessages, SweepConversations, SweepEvidence, SweepRuns, DeleteHousehold, Tick
<1> QED
  BY <1>2, <1>3, <1>4, <1>5, <1>6, <1>7 DEF Next, Handle, Quiet, Outer, vars

-----------------------------------------------------------------------------
(* Numbered *)

(* A step that adds no message and numbers no question again. *)
LEMMA NumberedStays ==
    ASSUME RowsTyped, RowsTyped', Numbered, messages' \subseteq messages, Past \subseteq Past'
    PROVE  Numbered'
<1>1. \A m \in messages : m.seq \in Nat
  BY DEF RowsTyped, MessageRows
<1>2. \A m \in messages' : m.seq <= 2 * Cardinality(Past')
  BY <1>1, BoundStays DEF Numbered
<1> QED
  BY <1>2 DEF Numbered, AnswersFollowTheirQuestion

(* A question that is stored is one more. *)
LEMMA PutPast ==
    ASSUME RowsTyped, QuestionsTyped, Distinct, NEW s \in Slots, NEW new,
           question[s].stage = "question", question' = [question EXCEPT ![s] = new],
           new.stage = "supervisor", UNCHANGED asked
    PROVE  Cardinality(Past') = Cardinality(Past) + 1
<1> DEFINE no == question[s].no
<1>1. /\ question'[s] = new /\ \A t \in Slots \ {s} : question'[t] = question[t]
      /\ no \in 1..asked
  BY DEF QuestionsTyped, Proper
<1>2. \A t \in Slots : question[t].stage = "question" /\ question[t].no = no => t = s
  BY DEF Distinct
<1>3. no \notin Past
  BY DEF Past
<1>4. Past' = Past \cup {no}
  <2>1. ASSUME NEW x \in 1..asked
        PROVE  x \in Past' <=> x \in Past \/ x = no
    <3>1. x \in Past' <=> \A t \in Slots : question'[t].stage = "question" => question'[t].no # x
      BY DEF Past
    <3>2. x \in Past <=> \A t \in Slots : question[t].stage = "question" => question[t].no # x
      BY DEF Past
    <3> QED
      BY <1>1, <1>2, <3>1, <3>2
  <2>2. Past \subseteq 1..asked /\ Past' \subseteq 1..asked
    BY DEF Past
  <2> QED
    BY <1>1, <2>1, <2>2
<1> HIDE DEF no
<1>5. PICK old, next : old = Past /\ next = Past'
  OBVIOUS
<1>6. next = old \cup {no} /\ no \notin old /\ IsFiniteSet(old)
  BY <1>3, <1>4, <1>5, PastIsFinite
<1>7. Cardinality(next) = Cardinality(old) + 1
  BY <1>6, FS_AddElement
<1> QED
  BY <1>5, <1>7

(* A question's number is larger than all others. *)
LEMMA AddQuestion ==
    ASSUME RowsTyped, Numbered, NEW n \in Nat, NEW q, NEW c \in Nat,
           \A m \in messages : m.seq < n,
           n % 2 = 1, n <= 2 * c + 1, Cardinality(Past) = c, Cardinality(Past') = c + 1,
           messages' = messages \cup {Message(q, "user", n, {})}
    PROVE  Numbered'
<1>1. PICK u : u = Message(q, "user", n, {})
  OBVIOUS
<1>2. u.seq = n /\ u.sender = "user" /\ u.of = q.no
  BY <1>1 DEF Message
<1>3. \A m \in messages : m.seq \in Nat /\ m.seq < n /\ m.seq <= 2 * c
  BY DEF RowsTyped, MessageRows, Numbered
<1>4. \A m \in messages' : m.seq <= 2 * Cardinality(Past')
  <2>1. \A m \in messages : m.seq <= 2 * (c + 1)
    BY <1>3
  <2>2. u.seq <= 2 * (c + 1)
    BY <1>2
  <2> QED
    BY <1>1, <2>1, <2>2
<1>5. \A m \in messages' : m.sender = "user" <=> m.seq % 2 = 1
  BY <1>1, <1>2 DEF Numbered
<1>6. AnswersFollowTheirQuestion'
  <2>1. \A m \in messages : m.seq # n /\ n # m.seq - 1
    BY <1>3
  <2>2. messages' = messages \cup {u}
    BY <1>1
  <2>3. \A m, k \in messages' : m.seq = k.seq => m = k
    BY <1>2, <2>1, <2>2 DEF Numbered, AnswersFollowTheirQuestion
  <2>4. \A m, k \in messages' :
            k.sender = "assistant" /\ m.seq = k.seq - 1 => m.sender = "user" /\ m.of = k.of
    BY <1>2, <2>1, <2>2 DEF Numbered, AnswersFollowTheirQuestion
  <2> QED
    BY <2>3, <2>4 DEF AnswersFollowTheirQuestion
<1> QED
  BY <1>4, <1>5, <1>6 DEF Numbered

(* An answer gets the number after its question's. *)
LEMMA AddAnswer ==
    ASSUME RowsTyped, Numbered, NEW k \in Nat, NEW q, NEW c \in Nat, NEW cites,
           Message(q, "user", k, {}) \in messages,
           \A m \in messages : m.seq # k + 1,
           Cardinality(Past) = c, Cardinality(Past') \in Nat, c <= Cardinality(Past'),
           messages' = messages \cup {Message(q, "assistant", k + 1, cites)}
    PROVE  Numbered'
<1>1. PICK u, a : u = Message(q, "user", k, {}) /\ a = Message(q, "assistant", k + 1, cites)
  OBVIOUS
<1>2. /\ u.seq = k /\ u.sender = "user" /\ u.of = q.no /\ u \in messages
      /\ a.seq = k + 1 /\ a.sender = "assistant" /\ a.of = q.no
  BY <1>1 DEF Message
<1>3. k % 2 = 1 /\ k <= 2 * c
  BY <1>2 DEF Numbered
<1>4. k + 1 <= 2 * c /\ (k + 1) % 2 = 0
  BY <1>3
<1>5. \A m \in messages : m.seq \in Nat /\ m.seq <= 2 * c
  BY DEF RowsTyped, MessageRows, Numbered
<1>6. \A m \in messages' : m.seq <= 2 * Cardinality(Past')
  <2>1. PICK d \in Nat : d = Cardinality(Past')
    OBVIOUS
  <2>2. \A m \in messages : m.seq <= 2 * d
    BY <1>5, <2>1
  <2>3. a.seq <= 2 * d
    BY <1>2, <1>4, <2>1
  <2> QED
    BY <1>1, <2>1, <2>2, <2>3
<1>7. \A m \in messages' : m.sender = "user" <=> m.seq % 2 = 1
  BY <1>1, <1>2, <1>4 DEF Numbered
<1>8. AnswersFollowTheirQuestion'
  <2>1. messages' = messages \cup {a}
    BY <1>1
  <2>2. \A m, n \in messages' : m.seq = n.seq => m = n
    BY <1>2, <2>1 DEF Numbered, AnswersFollowTheirQuestion
  <2>3. \A m \in messages : m.seq = a.seq - 1 => m = u
    BY <1>2 DEF Numbered, AnswersFollowTheirQuestion
  <2>4. \A n \in messages : a.seq = n.seq - 1 => n.seq = k + 2 /\ n.seq % 2 = 1
    BY <1>2, <1>3, <1>5
  <2>5. \A n \in messages : n.sender = "assistant" => a.seq # n.seq - 1
    BY <2>4 DEF Numbered
  <2>6. a.seq # a.seq - 1
    BY <1>2
  <2>7. \A m, n \in messages' :
            n.sender = "assistant" /\ m.seq = n.seq - 1 => m.sender = "user" /\ m.of = n.of
    BY <1>2, <2>1, <2>3, <2>5, <2>6 DEF Numbered, AnswersFollowTheirQuestion
  <2> QED
    BY <2>2, <2>7 DEF AnswersFollowTheirQuestion
<1> QED
  BY <1>6, <1>7, <1>8 DEF Numbered

(* What is stored for the question of an accepted answer. *)
LEMMA AnswerIsExpected ==
    ASSUME RowsTyped, QuestionsTyped, Waiting, NEW s \in Slots, NEW q, q = question[s],
           q.stage = "answer", q.in = conversation.id
    PROVE  q.seq \in Nat /\ Message(q, "user", q.seq, {}) \in messages
BY DEF Waiting, Held, QuestionsTyped, Proper, Questions

LEMMA NextNumbered ==
    ASSUME RowsTyped, RowsTyped', QuestionsTyped, Distinct, Numbered, Waiting, Researched, [Next]_vars
    PROVE  Numbered'
<1>1. ASSUME NEW s \in Slots, Goes(s), UNCHANGED messages PROVE Numbered'
  BY <1>1, GoesPast, NumberedStays
<1>2. ASSUME NEW s \in Slots, Quiet(s) \/ SaveEvidence(s) \/ ResearchFails(s) PROVE Numbered'
  <2>1. UNCHANGED messages
    BY <1>2, QuietGoes DEF rows, SaveEvidence, ResearchFails
  <2> QED
    BY <1>1, <1>2, <2>1, OthersGo
<1>3. ASSUME NEW s \in Slots, NEW analyze, NEW opens, Ask(s, analyze, opens) PROVE Numbered'
  <2>1. PICK new :
          /\ question' = [question EXCEPT ![s] = new] /\ new.stage = "question"
          /\ new.no = asked' /\ asked' = asked + 1 /\ asked \in Nat /\ UNCHANGED messages
    BY <1>3, AskBecomes
  <2>2. question'[s] = new /\ \A t \in Slots \ {s} : question'[t] = question[t]
    BY <2>1 DEF QuestionsTyped
  <2>3. ASSUME NEW x \in Past PROVE x \in Past'
    <3>1. x \in 1..asked /\ \A t \in Slots : question[t].stage = "question" => question[t].no # x
      BY DEF Past
    <3>2. x \in 1..asked' /\ x # asked'
      BY <2>1, <3>1
    <3>3. \A t \in Slots : question'[t].stage = "question" => question'[t].no # x
      BY <2>1, <2>2, <3>1, <3>2
    <3> QED
      BY <3>2, <3>3 DEF Past
  <2> QED
    BY <2>1, <2>3, NumberedStays
<1>4. ASSUME NEW s \in Slots, PutQuestion(s) PROVE Numbered'
  <2>1. CASE Goes(s) /\ UNCHANGED messages
    BY <1>1, <2>1
  <2>2. CASE ~(Goes(s) /\ UNCHANGED messages)
    <3>1. PICK n, q, new :
            /\ n \in Nat \ {0}
            /\ q = question[s] /\ q.stage = "question"
            /\ question' = [question EXCEPT ![s] = new] /\ new.stage = "supervisor"
            /\ n % 2 = 1 /\ n <= 2 * Cardinality(Past) + 1
            /\ \A m \in messages : m.seq < n
            /\ messages' = messages \cup {Message(q, "user", n, {})}
      BY <1>4, <2>2, PutQuestionBecomes
    <3>2. UNCHANGED asked
      BY <1>4, PutQuestionBecomes
    <3>3. PICK c \in Nat : c = Cardinality(Past)
      BY PastIsFinite
    <3>4. Cardinality(Past') = c + 1
      BY <3>1, <3>2, <3>3, PutPast
    <3> QED
      BY <3>1, <3>3, <3>4, AddQuestion
  <2> QED
    BY <2>1, <2>2
<1>5. ASSUME NEW s \in Slots, StartResearch(s) PROVE Numbered'
  <2>1. UNCHANGED <<asked, messages>>
    BY <1>5, StartResearchBecomes
  <2>2. CASE Goes(s)
    BY <1>1, <2>1, <2>2
  <2>3. CASE ~Goes(s)
    <3>1. PICK new : question' = [question EXCEPT ![s] = new] /\ new.stage = "searching"
      BY <1>5, <2>3, StartResearchBecomes
    <3>2. Past \subseteq Past'
      BY <2>1, <3>1 DEF Past, QuestionsTyped
    <3> QED
      BY <2>1, <3>2, NumberedStays
  <2> QED
    BY <2>2, <2>3
<1>6. ASSUME NEW s \in Slots, PutAnswer(s) PROVE Numbered'
  <2>1. Goes(s)
    BY <1>6, PutAnswerGoes
  <2>2. CASE UNCHANGED messages
    BY <1>1, <2>1, <2>2
  <2>3. CASE ~UNCHANGED messages
    <3>1. PICK q : q = question[s]
      OBVIOUS
    <3>2. /\ Accepted(q) /\ q.stage = "answer"
          /\ messages' = messages \cup {Message(q, "assistant", q.seq + 1, q.cites)}
      BY <1>6, <2>3, <3>1, PutAnswerAdds
    <3>3. PICK k \in Nat : k = q.seq /\ Message(q, "user", k, {}) \in messages
      BY <3>1, <3>2, AnswerIsExpected DEF Accepted
    <3>4. \A m \in messages : m.seq # k + 1
      BY <3>2, <3>3 DEF Accepted
    <3>5. PICK c \in Nat : c = Cardinality(Past)
      BY PastIsFinite
    <3>6. PICK old, next : old = Past /\ next = Past'
      OBVIOUS
    <3>7. Cardinality(next) \in Nat /\ Cardinality(old) <= Cardinality(next)
      BY <2>1, <3>6, GoesPast, PastIsFinite, FS_Subset
    <3>8. messages' = messages \cup {Message(q, "assistant", k + 1, q.cites)}
      BY <3>2, <3>3
    <3> QED
      BY <3>3, <3>4, <3>5, <3>6, <3>7, <3>8, AddAnswer
  <2> QED
    BY <2>2, <2>3
<1>7. CASE UNCHANGED <<question, asked>> /\ messages' \subseteq messages
  <2>1. Past' = Past
    BY <1>7 DEF Past
  <2> QED
    BY <1>7, <2>1, NumberedStays
<1>8. Outer \/ UNCHANGED vars => UNCHANGED <<question, asked>> /\ messages' \subseteq messages
  BY DEF Outer, SweepMessages, SweepConversations, SweepEvidence, SweepRuns, DeleteHousehold, Tick,
     RemoveConversation, rows, vars
<1> QED
  BY <1>2, <1>3, <1>4, <1>5, <1>6, <1>7, <1>8 DEF Next, Handle, Quiet, Outer

-----------------------------------------------------------------------------
(* Waiting *)

(* Each question is looked at after the step. *)
LEMMA WaitingByQuestion ==
    ASSUME QuestionsTyped, NEW s \in Slots, NEW new, question' = [question EXCEPT ![s] = new],
           Held(new)', \A q \in Questions : (\E t \in Slots \ {s} : q = question[t]) => Held(q)'
    PROVE  Waiting'
<1>1. question'[s] = new /\ \A t \in Slots \ {s} : question'[t] = question[t]
  BY DEF QuestionsTyped
<1>2. ASSUME NEW t \in Slots PROVE Held(question[t])'
  <2>1. CASE t = s
    BY <1>1, <2>1 DEF Held
  <2>2. CASE t # s
    <3>1. PICK q \in Questions : q = question[t]
      BY DEF QuestionsTyped
    <3>2. Held(q)' /\ question'[t] = q
      BY <1>1, <2>2, <3>1
    <3> QED
      BY <3>2 DEF Held
  <2> QED
    BY <2>1, <2>2
<1> QED
  BY <1>2 DEF Waiting

(* The steps of a question leave the numbers others wait for alone. *)
LEMMA AddLeavesFree ==
    ASSUME RowsTyped, Numbered, NEW q \in Questions, Held(q), NEW a, UNCHANGED conversation,
           messages' = messages \cup {a},
           q.seq # 0 /\ q.in = conversation.id => a.seq # q.seq + 1
    PROVE  Held(q)'
BY DEF Held, Message

LEMMA HeldIsOdd ==
    ASSUME Numbered, NEW q, Held(q), q.seq # 0, q.in = conversation.id
    PROVE  q.seq % 2 = 1
<1>1. Message(q, "user", q.seq, {}) \in messages
  BY DEF Held
<1>2. PICK u : u = Message(q, "user", q.seq, {})
  OBVIOUS
<1>3. u.seq = q.seq /\ u.sender = "user"
  BY <1>2 DEF Message
<1> QED
  BY <1>1, <1>2, <1>3 DEF Numbered

LEMMA HandleWaiting ==
    ASSUME RowsTyped, QuestionsTyped, Distinct, Numbered, Waiting, Researched,
           NEW s \in Slots, Handle(s)
    PROVE  Waiting'
<1>1. CASE Goes(s) /\ UNCHANGED <<conversation, messages>>
  BY <1>1, GoesWaiting
<1>2. CASE Quiet(s) \/ SaveEvidence(s) \/ ResearchFails(s)
  <2>1. UNCHANGED messages
    BY <1>2, QuietGoes DEF rows, SaveEvidence, ResearchFails
  <2> QED
    BY <1>1, <1>2, <2>1, OthersGo
<1>3. ASSUME NEW analyze, NEW opens, Ask(s, analyze, opens) PROVE Waiting'
  <2>1. PICK new :
          /\ question' = [question EXCEPT ![s] = new] /\ new.seq = 0
          /\ asked' = asked + 1 /\ asked \in Nat /\ UNCHANGED messages
          /\ conversation' # conversation => conversation'.id = asked'
    BY <1>3, AskBecomes
  <2>2. Held(new)'
    BY <2>1 DEF Held
  <2>3. ASSUME NEW q \in Questions, NEW t \in Slots, q = question[t] PROVE Held(q)'
    <3>1. Held(q) /\ (q.seq # 0 => q.in \in 1..asked)
      BY <2>3 DEF Waiting, QuestionsTyped, Proper
    <3>2. CASE UNCHANGED conversation
      BY <2>1, <3>1, <3>2 DEF Held, Message
    <3>3. CASE conversation' # conversation
      <4>1. q.seq # 0 => q.in # conversation'.id
        BY <2>1, <3>1, <3>3
      <4> QED
        BY <4>1 DEF Held
    <3> QED
      BY <3>2, <3>3
  <2> QED
    BY <2>1, <2>2, <2>3, WaitingByQuestion
<1>4. CASE PutQuestion(s)
  <2>1. UNCHANGED conversation
    BY <1>4, PutQuestionBecomes
  <2>2. CASE Goes(s) /\ UNCHANGED messages
    BY <1>1, <2>1, <2>2
  <2>3. CASE ~(Goes(s) /\ UNCHANGED messages)
    <3>1. PICK n, q, new :
            /\ n \in Nat \ {0}
            /\ q = question[s] /\ q.in = conversation.id
            /\ question' = [question EXCEPT ![s] = new] /\ new.seq = n
            /\ new.no = q.no /\ new.at = q.at /\ new.in = q.in
            /\ n % 2 = 1
            /\ \A m \in messages : m.seq < n
            /\ messages' = messages \cup {Message(q, "user", n, {})}
      BY <1>4, <2>3, PutQuestionBecomes
    <3>2. PICK u : u = Message(q, "user", n, {})
      OBVIOUS
    <3>3. u.seq = n /\ u = Message(new, "user", n, {})
      BY <3>1, <3>2 DEF Message
    <3>4. \A m \in messages : m.seq # n + 1
      <4>1. \A m \in messages : m.seq \in Nat
        BY DEF RowsTyped, MessageRows
      <4> QED
        BY <3>1, <4>1
    <3>5. Held(new)'
      BY <3>1, <3>2, <3>3, <3>4 DEF Held, Message
    <3>6. ASSUME NEW p \in Questions, NEW t \in Slots, p = question[t] PROVE Held(p)'
      <4>1. Held(p) /\ p.seq \in Nat
        BY <3>6 DEF Waiting, Questions
      <4>2. p.seq # 0 /\ p.in = conversation.id => p.seq % 2 = 1
        BY <4>1, HeldIsOdd
      <4>3. p.seq # 0 /\ p.in = conversation.id => u.seq # p.seq + 1
        BY <3>1, <3>3, <4>1, <4>2
      <4> QED
        BY <2>1, <3>1, <3>2, <4>1, <4>3, AddLeavesFree
    <3> QED
      BY <3>1, <3>5, <3>6, WaitingByQuestion
  <2> QED
    BY <2>2, <2>3
<1>5. CASE StartResearch(s)
  <2>1. UNCHANGED <<conversation, messages>>
    BY <1>5, StartResearchBecomes
  <2>2. CASE Goes(s)
    BY <1>1, <2>1, <2>2
  <2>3. CASE ~Goes(s)
    <3>1. PICK q, new :
            /\ q = question[s] /\ question' = [question EXCEPT ![s] = new]
            /\ new.no = q.no /\ new.at = q.at /\ new.in = q.in /\ new.seq = q.seq
      BY <1>5, <2>3, StartResearchBecomes
    <3>2. Held(new)'
      BY <2>1, <3>1 DEF Waiting, Held, Message
    <3>3. ASSUME NEW p \in Questions, NEW t \in Slots, p = question[t] PROVE Held(p)'
      BY <2>1, <3>3 DEF Waiting, Held, Message
    <3> QED
      BY <3>1, <3>2, <3>3, WaitingByQuestion
  <2> QED
    BY <2>2, <2>3
<1>6. CASE PutAnswer(s)
  <2>1. Goes(s) /\ UNCHANGED conversation
    BY <1>6, PutAnswerGoes DEF PutAnswer
  <2>2. CASE UNCHANGED messages
    BY <1>1, <2>1, <2>2
  <2>3. CASE ~UNCHANGED messages
    <3>1. PICK q : q = question[s]
      OBVIOUS
    <3>2. /\ Accepted(q) /\ q.stage = "answer"
          /\ messages' = messages \cup {Message(q, "assistant", q.seq + 1, q.cites)}
      BY <1>6, <2>3, <3>1, PutAnswerAdds
    <3>3. q.seq \in Nat /\ Message(q, "user", q.seq, {}) \in messages
      BY <3>1, <3>2, AnswerIsExpected DEF Accepted
    <3>4. PICK a : a = Message(q, "assistant", q.seq + 1, q.cites)
      OBVIOUS
    <3>5. a.seq = q.seq + 1
      BY <3>4 DEF Message
    <3>6. question' = [question EXCEPT ![s] = Idle]
      BY <1>6 DEF PutAnswer, Reject
    <3>7. Held(Idle)'
      BY DEF Held, Idle
    <3>8. ASSUME NEW p \in Questions, NEW t \in Slots \ {s}, p = question[t] PROVE Held(p)'
      <4>1. Held(p) /\ p.seq \in Nat
        BY <3>8 DEF Waiting, Questions
      <4>2. ASSUME p.seq # 0, p.in = conversation.id, p.seq = q.seq PROVE FALSE
        <5>1. PICK u, v : u = Message(q, "user", q.seq, {}) /\ v = Message(p, "user", p.seq, {})
          OBVIOUS
        <5>2. u \in messages /\ v \in messages
          BY <3>3, <4>1, <4>2, <5>1 DEF Held
        <5>3. u.seq = v.seq /\ u.of = q.no /\ v.of = p.no
          BY <4>2, <5>1 DEF Message
        <5>4. q.no = p.no
          BY <5>2, <5>3 DEF Numbered, AnswersFollowTheirQuestion
        <5> QED
          BY <3>1, <3>2, <3>8, <5>4 DEF Distinct
      <4>3. p.seq # 0 /\ p.in = conversation.id => a.seq # p.seq + 1
        BY <3>3, <3>5, <4>1, <4>2
      <4> QED
        BY <2>1, <3>2, <3>4, <4>1, <4>3, AddLeavesFree
    <3> QED
      BY <3>6, <3>7, <3>8, WaitingByQuestion
  <2> QED
    BY <2>2, <2>3
<1> QED
  BY <1>2, <1>3, <1>4, <1>5, <1>6 DEF Handle, Quiet

(* A message is not swept while its question is under way: a question does *)
(* not last as long as rows are kept.                                      *)
LEMMA OuterWaiting ==
    ASSUME RowsTyped, QuestionsTyped, Waiting, Outer
    PROVE  Waiting'
<1>1. UNCHANGED question
  BY DEF Outer, SweepMessages, SweepConversations, SweepEvidence, SweepRuns, DeleteHousehold, Tick
<1>2. CASE SweepMessages
  <2>1. PICK gone \in SUBSET {m \in messages : Expired(m.at)} : messages' = messages \ gone
    BY <1>2, BatchIsSubset DEF SweepMessages
  <2>2. UNCHANGED conversation
    BY <1>2 DEF SweepMessages
  <2>3. ASSUME NEW s \in Slots, NEW q, q = question[s] PROVE Held(q)'
    <3>1. Held(q) /\ q \in Questions /\ Proper(q)
      BY <2>3 DEF Waiting, QuestionsTyped
    <3>2. PICK u : u = Message(q, "user", q.seq, {})
      OBVIOUS
    <3>3. u.at = q.at
      BY <3>2 DEF Message
    <3>4. q.seq # 0 => ~Expired(u.at)
      <4>1. q.seq # 0 => q.at \in Nat /\ clock <= q.at + 1
        BY <3>1 DEF Proper, Questions
      <4>2. Retention \in Nat /\ 2 <= Retention /\ clock \in Nat
        BY PlannerAssumption DEF RowsTyped
      <4> QED
        BY <3>3, <4>1, <4>2 DEF Expired
    <3> QED
      BY <2>1, <2>2, <3>1, <3>2, <3>4 DEF Held, Message
  <2> QED
    BY <1>1, <2>3 DEF Waiting, Held
<1>3. CASE SweepConversations \/ DeleteHousehold
  <2>1. conversation'.id = 0
    BY <1>3 DEF SweepConversations, DeleteHousehold, RemoveConversation, NoConversation
  <2>2. \A s \in Slots : question[s].seq # 0 => question[s].in # 0
    BY DEF QuestionsTyped, Proper
  <2> QED
    BY <1>1, <2>1, <2>2 DEF Waiting, Held
<1>4. CASE UNCHANGED <<conversation, messages>>
  BY <1>1, <1>4 DEF Waiting, Held, Message
<1> QED
  BY <1>2, <1>3, <1>4 DEF Outer, SweepEvidence, SweepRuns, Tick, rows

-----------------------------------------------------------------------------
(* Researched *)

(* What is said of runs and evidence, apart from questions. *)
RunsMatch ==
    /\ \A r \in 1..MaxRuns : r > started => runs[r] = NoRun
    /\ \A e \in evidence : runs[e[1]].status = "completed"
    /\ \A r \in 1..MaxRuns :
          runs[r].status = "completed" /\ ~RunExpired(r) => \E e \in evidence : e[1] = r

LEMMA RunsMatchUntouched ==
    ASSUME RunsMatch, UNCHANGED <<clock, runs, evidence, started>>
    PROVE  RunsMatch'
BY DEF RunsMatch, RunExpired, Expired

LEMMA StartResearchRuns ==
    ASSUME RowsTyped, QuestionsTyped, RunsMatch, NEW s \in Slots, StartResearch(s)
    PROVE  RunsMatch'
<1>1. UNCHANGED <<clock, evidence>>
  BY StartResearchBecomes
<1>2. CASE UNCHANGED <<runs, started>>
  BY <1>1, <1>2, RunsMatchUntouched
<1>3. CASE ~UNCHANGED <<runs, started>>
  <2>1. /\ started \in Nat /\ started' = started + 1 /\ started' \in 1..MaxRuns
        /\ runs' = [runs EXCEPT ![started'] = [status |-> "running", at |-> clock]]
    BY <1>3, StartResearchBecomes
  <2>2. PICK r : r = started'
    OBVIOUS
  <2>3. /\ r \in 1..MaxRuns /\ r > started /\ runs'[r].status = "running"
        /\ \A p \in 1..MaxRuns \ {r} : runs'[p] = runs[p]
    BY <2>1, <2>2 DEF RowsTyped
  <2>4. runs[r].status = "none"
    BY <2>3 DEF RunsMatch, NoRun
  <2>5. \A e \in evidence : e[1] \in 1..MaxRuns \ {r}
    BY <2>4 DEF RunsMatch, RowsTyped, Items
  <2>6. \A p \in 1..MaxRuns : p > started' => runs'[p] = NoRun
    BY <2>1, <2>2, <2>3 DEF RunsMatch
  <2>7. \A p \in 1..MaxRuns :
            runs'[p].status = "completed" /\ ~RunExpired(p)' => \E e \in evidence : e[1] = p
    BY <1>1, <2>3 DEF RunsMatch, RunExpired, Expired
  <2> QED
    BY <1>1, <2>3, <2>5, <2>6, <2>7 DEF RunsMatch
<1> QED
  BY <1>2, <1>3

LEMMA SaveEvidenceRuns ==
    ASSUME RowsTyped, QuestionsTyped, RunsMatch, NEW s \in Slots, SaveEvidence(s), Equipped(question[s])
    PROVE  RunsMatch'
<1>1. PICK run, found : run = question[s].run /\ found = question[s].found
  OBVIOUS
<1>2. /\ run \in 1..MaxRuns /\ run <= started /\ started \in Nat
      /\ found # {} /\ \A e \in found : e[1] = run
  BY SMTT(30), <1>1, PlannerAssumption DEF SaveEvidence, QuestionsTyped, Proper, Equipped, RowsTyped
<1>3. /\ evidence' = evidence \cup found /\ runs' = [runs EXCEPT ![run].status = "completed"]
      /\ UNCHANGED <<clock, started>>
  BY <1>1 DEF SaveEvidence, outside
<1>4. /\ runs'[run].status = "completed"
      /\ \A p \in 1..MaxRuns \ {run} : runs'[p] = runs[p]
  BY <1>2, <1>3 DEF RowsTyped
<1>5. \A e \in evidence : e[1] \in 1..MaxRuns
  BY DEF RowsTyped, Items
<1>6. \A e \in evidence' : runs'[e[1]].status = "completed"
  BY <1>2, <1>3, <1>4, <1>5 DEF RunsMatch
<1>7. \A p \in 1..MaxRuns : p > started' => runs'[p] = NoRun
  BY <1>2, <1>3, <1>4 DEF RunsMatch
<1>8. \A p \in 1..MaxRuns :
          runs'[p].status = "completed" /\ ~RunExpired(p)' => \E e \in evidence' : e[1] = p
  BY <1>2, <1>3, <1>4 DEF RunsMatch, RunExpired, Expired
<1> QED
  BY <1>6, <1>7, <1>8 DEF RunsMatch

LEMMA ResearchFailsRuns ==
    ASSUME RowsTyped, QuestionsTyped, RunsMatch, NEW s \in Slots, ResearchFails(s)
    PROVE  RunsMatch'
<1>1. PICK run : run = question[s].run
  OBVIOUS
<1>2. run \in 1..MaxRuns /\ run <= started /\ started \in Nat
  BY <1>1, PlannerAssumption DEF ResearchFails, QuestionsTyped, Proper, RowsTyped
<1>3. runs' = Failed(run) /\ UNCHANGED <<clock, started, evidence>>
  BY <1>1 DEF ResearchFails, outside
<1>4. CASE runs[run].status # "running"
  BY <1>3, <1>4, RunsMatchUntouched DEF Failed
<1>5. CASE runs[run].status = "running"
  <2>1. /\ runs'[run].status = "failed"
        /\ \A p \in 1..MaxRuns \ {run} : runs'[p] = runs[p]
    BY <1>2, <1>3, <1>5 DEF RowsTyped, Failed
  <2>2. \A e \in evidence : e[1] \in 1..MaxRuns \ {run}
    BY <1>5 DEF RunsMatch, RowsTyped, Items
  <2>3. \A p \in 1..MaxRuns : p > started' => runs'[p] = NoRun
    BY <1>2, <1>3, <2>1 DEF RunsMatch
  <2>4. \A p \in 1..MaxRuns :
            runs'[p].status = "completed" /\ ~RunExpired(p)' => \E e \in evidence : e[1] = p
    BY <1>3, <2>1 DEF RunsMatch, RunExpired, Expired
  <2> QED
    BY <1>3, <2>1, <2>2, <2>3, <2>4 DEF RunsMatch
<1> QED
  BY <1>4, <1>5

LEMMA OuterRuns ==
    ASSUME RowsTyped, RunsMatch, Outer
    PROVE  RunsMatch'
<1>1. CASE SweepMessages \/ SweepConversations
  BY <1>1, RunsMatchUntouched DEF SweepMessages, SweepConversations, outside
<1>2. CASE SweepEvidence
  <2>1. PICK gone \in SUBSET {e \in evidence : EvidenceExpired(e)} : evidence' = evidence \ gone
    BY <1>2, BatchIsSubset DEF SweepEvidence
  <2>2. UNCHANGED <<clock, runs, started>>
    BY <1>2 DEF SweepEvidence, outside
  <2>3. ASSUME NEW r \in 1..MaxRuns, runs[r].status = "completed", ~RunExpired(r)
        PROVE  \E e \in evidence' : e[1] = r
    <3>1. PICK e \in evidence : e[1] = r
      BY <2>3 DEF RunsMatch
    <3>2. runs[r] # NoRun
      BY <2>3 DEF NoRun
    <3>3. e \notin gone
      BY <2>1, <2>3, <3>1, <3>2 DEF RunExpired, EvidenceExpired
    <3> QED
      BY <2>1, <3>1, <3>3
  <2> QED
    BY <2>1, <2>2, <2>3 DEF RunsMatch, RunExpired, Expired
<1>3. CASE SweepRuns
  <2>1. PICK gone \in SUBSET {r \in 1..MaxRuns : RunExpired(r)} :
          /\ runs' = [r \in 1..MaxRuns |-> IF r \in gone THEN NoRun ELSE runs[r]]
          /\ evidence' = {e \in evidence : e[1] \notin gone}
    BY <1>3, BatchIsSubset DEF SweepRuns
  <2>2. UNCHANGED <<clock, started>>
    BY <1>3 DEF SweepRuns, outside
  <2>3. \A r \in 1..MaxRuns : runs'[r] = NoRun \/ (r \notin gone /\ runs'[r] = runs[r])
    BY <2>1
  <2>4. \A e \in evidence' : runs'[e[1]].status = "completed"
    BY <2>1 DEF RunsMatch, RowsTyped, Items
  <2>5. \A r \in 1..MaxRuns : r > started' => runs'[r] = NoRun
    BY <2>2, <2>3 DEF RunsMatch
  <2>6. \A r \in 1..MaxRuns :
            runs'[r].status = "completed" /\ ~RunExpired(r)' => \E e \in evidence' : e[1] = r
    BY <2>1, <2>2, <2>3 DEF RunsMatch, RunExpired, Expired, NoRun
  <2> QED
    BY <2>4, <2>5, <2>6 DEF RunsMatch
<1>4. CASE DeleteHousehold
  <2>1. evidence' = {} /\ \A r \in 1..MaxRuns : runs'[r] = NoRun
    BY <1>4 DEF DeleteHousehold
  <2> QED
    BY <2>1 DEF RunsMatch, NoRun
<1>5. CASE Tick
  <2>1. clock' = clock + 1 /\ clock \in Nat /\ Retention \in Nat /\ UNCHANGED <<runs, evidence, started>>
    BY <1>5, PlannerAssumption DEF Tick, RowsTyped, rows
  <2>2. \A r \in 1..MaxRuns : RunExpired(r) => RunExpired(r)'
    <3>1. ASSUME NEW r \in 1..MaxRuns, RunExpired(r) PROVE RunExpired(r)'
      <4>1. runs[r].at \in Nat
        BY DEF RowsTyped
      <4> QED
        BY <2>1, <3>1, <4>1 DEF RunExpired, Expired
    <3> QED
      BY <3>1
  <2> QED
    BY <2>1, <2>2 DEF RunsMatch
<1> QED
  BY <1>1, <1>2, <1>3, <1>4, <1>5 DEF Outer

LEMMA HandleRuns ==
    ASSUME RowsTyped, QuestionsTyped, RunsMatch, NEW s \in Slots, Handle(s), Equipped(question[s])
    PROVE  RunsMatch'
<1>1. CASE Quiet(s)
  BY <1>1, QuietGoes, RunsMatchUntouched DEF Goes, rows
<1>2. CASE PutQuestion(s) \/ PutAnswer(s) \/ \E analyze, opens \in BOOLEAN : Ask(s, analyze, opens)
  BY <1>2, RunsMatchUntouched DEF PutQuestion, PutAnswer, Ask, outside
<1> QED
  BY <1>1, <1>2, StartResearchRuns, SaveEvidenceRuns, ResearchFailsRuns DEF Handle, Quiet

LEMMA HandleEquipped ==
    ASSUME RowsTyped, QuestionsTyped, Numbered, Researched, NEW s \in Slots, Handle(s)
    PROVE  \A t \in Slots : Equipped(question[t])'
<1>1. CASE Goes(s)
  BY <1>1, GoesEquipped DEF Researched
<1>2. ASSUME NEW new, question' = [question EXCEPT ![s] = new], new.stage \notin {"found", "saved"}
      PROVE  \A t \in Slots : Equipped(question[t])'
  BY <1>2 DEF Researched, Equipped, QuestionsTyped
<1>3. ASSUME NEW analyze, NEW opens, Ask(s, analyze, opens)
      PROVE  \A t \in Slots : Equipped(question[t])'
  BY <1>2, <1>3, AskBecomes
<1>4. CASE PutQuestion(s)
  BY <1>1, <1>2, <1>4, PutQuestionBecomes
<1>5. CASE StartResearch(s)
  BY <1>1, <1>2, <1>5, StartResearchBecomes
<1> QED
  BY <1>1, <1>3, <1>4, <1>5, OthersGo DEF Handle, Quiet

LEMMA NextResearched ==
    ASSUME RowsTyped, QuestionsTyped, Numbered, Researched, [Next]_vars
    PROVE  Researched'
<1>1. RunsMatch /\ \A s \in Slots : Equipped(question[s])
  BY DEF Researched, RunsMatch
<1>2. ASSUME NEW s \in Slots, Handle(s) PROVE Researched'
  BY <1>1, <1>2, HandleRuns, HandleEquipped DEF Researched, RunsMatch
<1>3. CASE Outer
  <2>1. UNCHANGED question
    BY <1>3 DEF Outer, SweepMessages, SweepConversations, SweepEvidence, SweepRuns, DeleteHousehold,
       Tick
  <2> QED
    BY <1>1, <1>3, <2>1, OuterRuns DEF Researched, RunsMatch, Equipped
<1>4. CASE UNCHANGED vars
  <2>1. RunsMatch'
    BY <1>1, <1>4, RunsMatchUntouched DEF vars
  <2> QED
    BY <1>1, <1>4, <2>1 DEF Researched, RunsMatch, Equipped, vars
<1> QED
  BY <1>2, <1>3, <1>4 DEF Next, Outer

-----------------------------------------------------------------------------
(* Cited *)

(* What is said of messages, apart from questions. *)
Backed(m) ==
    ~Expired(m.at) => m.cites \subseteq evidence /\ \A e \in m.cites : runs[e[1]].at >= m.at

LEMMA RunsUntouched ==
    ASSUME RowsTyped, UNCHANGED <<runs, started>>
    PROVE  RunsKept
BY PlannerAssumption DEF RunsKept, RowsTyped

LEMMA EvidenceUntouched ==
    ASSUME UNCHANGED <<runs, evidence>>
    PROVE  EvidenceKept
BY DEF EvidenceKept

(* Runs and evidence that are still needed stay, whatever step is taken    *)
(* but the deletion of the household, which leaves no message.             *)
LEMMA HandleKeeps ==
    ASSUME RowsTyped, QuestionsTyped, RunsMatch, NEW s \in Slots, Handle(s)
    PROVE  RunsKept /\ EvidenceKept
<1>1. CASE UNCHANGED <<runs, evidence, started>>
  BY <1>1, RunsUntouched, EvidenceUntouched
<1>2. CASE \/ Quiet(s) \/ PutQuestion(s) \/ PutAnswer(s)
           \/ \E analyze, opens \in BOOLEAN : Ask(s, analyze, opens)
  BY <1>1, <1>2, QuietGoes DEF Goes, rows, PutQuestion, PutAnswer, Ask, outside
<1>3. CASE StartResearch(s)
  <2>1. CASE UNCHANGED <<runs, started>>
    BY <1>1, <1>3, <2>1, StartResearchBecomes
  <2>2. CASE ~UNCHANGED <<runs, started>>
    <3>1. /\ started \in Nat /\ started' = started + 1 /\ started' \in 1..MaxRuns
          /\ runs' = [runs EXCEPT ![started'] = [status |-> "running", at |-> clock]]
          /\ UNCHANGED evidence
      BY <1>3, <2>2, StartResearchBecomes
    <3>2. PICK r : r = started'
      OBVIOUS
    <3>3. r > started /\ r \in 1..MaxRuns /\ \A p \in 1..MaxRuns \ {r} : runs'[p] = runs[p]
      BY <3>1, <3>2 DEF RowsTyped
    <3>4. runs[r].status = "none"
      BY <3>3 DEF RunsMatch, NoRun
    <3>5. \A e \in evidence : e[1] \in 1..MaxRuns \ {r}
      BY <3>4 DEF RunsMatch, RowsTyped, Items
    <3>6. \A p \in 1..started : p \in 1..MaxRuns \ {r}
      BY <3>1, <3>3, PlannerAssumption
    <3> QED
      BY <3>1, <3>2, <3>3, <3>5, <3>6 DEF RunsKept, EvidenceKept
  <2> QED
    BY <2>1, <2>2
<1>4. CASE SaveEvidence(s) \/ ResearchFails(s)
  <2>1. PICK run \in 1..MaxRuns : run = question[s].run
    BY SMTT(30), <1>4, PlannerAssumption DEF SaveEvidence, ResearchFails, QuestionsTyped, Proper, RowsTyped
  <2>2. evidence \subseteq evidence' /\ UNCHANGED started
    BY <1>4 DEF SaveEvidence, ResearchFails
  <2>3. runs' = runs \/ (runs[run] # NoRun /\ \E status : runs' = [runs EXCEPT ![run].status = status])
    <3>1. CASE SaveEvidence(s)
      BY <2>1, <3>1 DEF SaveEvidence
    <3>2. CASE ResearchFails(s) /\ runs[run].status = "running"
      <4>1. runs[run] # NoRun
        BY <3>2 DEF NoRun
      <4>2. runs' = [runs EXCEPT ![run].status = "failed"]
        BY <2>1, <3>2 DEF ResearchFails, Failed
      <4> QED
        BY <4>1, <4>2
    <3>3. CASE ResearchFails(s) /\ runs[run].status # "running"
      BY <2>1, <3>3 DEF ResearchFails, Failed
    <3> QED
      BY <1>4, <3>1, <3>2, <3>3
  <2>4. \A p \in 1..MaxRuns : runs'[p].at = runs[p].at /\ (p # run => runs'[p] = runs[p])
    <3>1. CASE runs' = runs
      BY <3>1
    <3>2. CASE runs' # runs
      <4>1. PICK status : runs' = [runs EXCEPT ![run].status = status]
        BY <2>3, <3>2
      <4>2. PICK row : row = [runs[run] EXCEPT !.status = status]
        OBVIOUS
      <4>3. row.at = runs[run].at
        BY <2>1, <4>2 DEF RowsTyped
      <4>4. runs' = [runs EXCEPT ![run] = row]
        BY <4>1, <4>2
      <4> QED
        BY <2>1, <4>3, <4>4 DEF RowsTyped
    <3> QED
      BY <3>1, <3>2
  <2>5. \A p \in 1..MaxRuns : runs'[p] # NoRun => runs[p] # NoRun
    BY <2>3, <2>4
  <2>6. \A p \in 1..MaxRuns : runs'[p].at = runs[p].at
    BY <2>4
  <2>7. started \in Nat /\ \A p \in 1..started : p \in 1..MaxRuns
    BY PlannerAssumption DEF RowsTyped
  <2>8. \A e \in evidence : e[1] \in 1..MaxRuns
    BY DEF RowsTyped, Items
  <2> QED
    BY <2>2, <2>5, <2>6, <2>7, <2>8 DEF RunsKept, EvidenceKept
<1> QED
  BY <1>2, <1>3, <1>4 DEF Handle, Quiet

LEMMA OuterKeeps ==
    ASSUME RowsTyped, Outer
    PROVE  RunsKept /\ (DeleteHousehold \/ EvidenceKept)
<1>1. started \in Nat /\ started \in 0..MaxRuns /\ \A p \in 1..started : p \in 1..MaxRuns
  BY PlannerAssumption DEF RowsTyped
<1>2. CASE UNCHANGED <<runs, evidence, started>>
  BY <1>2, RunsUntouched, EvidenceUntouched
<1>3. CASE SweepMessages \/ SweepConversations \/ Tick
  BY <1>2, <1>3 DEF SweepMessages, SweepConversations, Tick, outside, rows
<1>4. CASE SweepEvidence
  <2>1. PICK gone \in SUBSET {e \in evidence : EvidenceExpired(e)} : evidence' = evidence \ gone
    BY <1>4, BatchIsSubset DEF SweepEvidence
  <2>2. UNCHANGED <<runs, started>>
    BY <1>4 DEF SweepEvidence
  <2> QED
    BY <2>1, <2>2, RunsUntouched DEF EvidenceKept
<1>5. CASE SweepRuns
  <2>1. PICK gone \in SUBSET {r \in 1..MaxRuns : RunExpired(r)} :
          /\ runs' = [r \in 1..MaxRuns |-> IF r \in gone THEN NoRun ELSE runs[r]]
          /\ evidence' = {e \in evidence : e[1] \notin gone}
    BY <1>5, BatchIsSubset DEF SweepRuns
  <2>2. UNCHANGED started
    BY <1>5 DEF SweepRuns
  <2>3. RunsKept
    BY <1>1, <2>1, <2>2 DEF RunsKept
  <2>4. ASSUME NEW e \in evidence, ~EvidenceExpired(e)
        PROVE  e \in evidence' /\ runs'[e[1]].at = runs[e[1]].at
    <3>1. e[1] \in 1..MaxRuns
      BY DEF RowsTyped, Items
    <3>2. e[1] \notin gone
      BY <2>4 DEF EvidenceExpired, RunExpired
    <3> QED
      BY <2>1, <3>1, <3>2
  <2> QED
    BY <2>3, <2>4 DEF EvidenceKept
<1>6. CASE DeleteHousehold
  <2>1. UNCHANGED started /\ \A r \in 1..MaxRuns : runs'[r] = NoRun
    BY <1>6 DEF DeleteHousehold
  <2> QED
    BY <1>1, <1>6, <2>1 DEF RunsKept
<1> QED
  BY <1>3, <1>4, <1>5, <1>6 DEF Outer

LEMMA HandleSourced ==
    ASSUME RowsTyped, QuestionsTyped, Numbered, Researched, RunsKept, NEW s \in Slots, Handle(s),
           \A t \in Slots : Sourced(question[t])
    PROVE  \A t \in Slots : Sourced(question[t])'
<1>1. CASE Goes(s)
  BY <1>1, GoesSourced
<1>2. ASSUME NEW new, question' = [question EXCEPT ![s] = new], Sourced(new)'
      PROVE  \A t \in Slots : Sourced(question[t])'
  <2>1. question'[s] = new /\ \A t \in Slots \ {s} : question'[t] = question[t]
    BY <1>2 DEF QuestionsTyped
  <2>2. ASSUME NEW t \in Slots PROVE Sourced(question[t])'
    <3>1. CASE t = s
      BY <1>2, <2>1, <3>1 DEF Sourced
    <3>2. CASE t # s
      <4>1. PICK q : q = question[t]
        OBVIOUS
      <4>2. Sourced(q)' /\ question'[t] = q
        BY <2>1, <3>2, <4>1, SourcedStays
      <4> QED
        BY <4>2 DEF Sourced
    <3> QED
      BY <3>1, <3>2
  <2> QED
    BY <2>2
<1>3. ASSUME NEW analyze, NEW opens, Ask(s, analyze, opens)
      PROVE  \A t \in Slots : Sourced(question[t])'
  <2>1. PICK new : /\ question' = [question EXCEPT ![s] = new] /\ new.run = 0
                   /\ new.found = {} /\ new.evidence = {} /\ new.cites = {}
    BY <1>3, AskBecomes
  <2>2. Sourced(new)'
    BY <2>1 DEF Sourced
  <2> QED
    BY <1>2, <2>1, <2>2
<1>4. CASE PutQuestion(s) /\ ~Goes(s)
  <2>1. PICK q, new :
          /\ q = question[s] /\ question' = [question EXCEPT ![s] = new]
          /\ new.at = q.at /\ new.run = q.run
          /\ new.found = q.found /\ new.evidence = q.evidence /\ new.cites = q.cites
    BY <1>4, PutQuestionBecomes
  <2>2. Sourced(q)'
    BY <2>1, SourcedStays
  <2>3. Sourced(new)'
    BY <2>1, <2>2 DEF Sourced
  <2> QED
    BY <1>2, <2>1, <2>3
<1>5. CASE StartResearch(s) /\ ~Goes(s)
  <2>1. PICK q, new :
          /\ q = question[s] /\ Proper(q) /\ q.stage = "research"
          /\ question' = [question EXCEPT ![s] = new]
          /\ new.run = started' /\ new.at = q.at
          /\ new.found = q.found /\ new.evidence = q.evidence /\ new.cites = q.cites
          /\ started' \in 1..MaxRuns
          /\ runs' = [runs EXCEPT ![started'] = [status |-> "running", at |-> clock]]
    BY <1>5, StartResearchBecomes
  <2>2. Sourced(q)'
    BY <2>1, SourcedStays
  <2>3. runs'[started'].at = clock /\ clock >= q.at /\ started' \in 1..started'
    <3>1. q.at \in Nat /\ clock \in Nat /\ q.at <= clock
      BY <2>1 DEF Proper, Questions, RowsTyped
    <3> QED
      BY <2>1, <3>1 DEF RowsTyped
  <2>4. Sourced(new)'
    BY <2>1, <2>2, <2>3 DEF Sourced, Since
  <2> QED
    BY <1>2, <2>1, <2>4
<1> QED
  BY <1>1, <1>3, <1>4, <1>5, OthersGo DEF Handle, Quiet

LEMMA NextCited ==
    ASSUME RowsTyped, QuestionsTyped, Numbered, Researched, Cited, [Next]_vars
    PROVE  Cited'
<1>1. /\ RunsMatch /\ \A s \in Slots : Sourced(question[s])
      /\ \A m \in messages : Backed(m) /\ m \in MessageRows
  BY DEF Researched, RunsMatch, Cited, Backed, RowsTyped
<1>2. ASSUME EvidenceKept, clock' \in Nat, clock <= clock', NEW m \in messages
      PROVE  Backed(m)'
  BY <1>1, <1>2, ShownStays DEF Backed
<1>3. ASSUME NEW s \in Slots, Handle(s) PROVE Cited'
  <2>1. RunsKept /\ EvidenceKept
    BY <1>1, <1>3, HandleKeeps
  <2>2. UNCHANGED clock /\ clock \in Nat
    <3>1. clock \in Nat
      BY DEF RowsTyped
    <3>2. CASE Quiet(s)
      BY <3>1, <3>2, QuietGoes DEF outside
    <3>3. CASE PutQuestion(s) \/ StartResearch(s) \/ SaveEvidence(s) \/ ResearchFails(s)
               \/ PutAnswer(s)
      BY <3>1, <3>3 DEF PutQuestion, StartResearch, SaveEvidence, ResearchFails, PutAnswer, outside
    <3>4. CASE \E analyze, opens \in BOOLEAN : Ask(s, analyze, opens)
      BY <3>1, <3>4 DEF Ask, outside
    <3> QED
      BY <1>3, <3>2, <3>3, <3>4 DEF Handle, Quiet
  <2>3. \A m \in messages : Backed(m)'
    BY <1>2, <2>1, <2>2
  <2>4. \A t \in Slots : Sourced(question[t])'
    BY <1>1, <1>3, <2>1, HandleSourced
  <2>5. CASE UNCHANGED messages
    BY <2>3, <2>4, <2>5 DEF Cited, Backed
  <2>6. CASE PutQuestion(s) /\ ~UNCHANGED messages
    <3>1. PICK n, q : messages' = messages \cup {Message(q, "user", n, {})}
      BY <2>6, PutQuestionBecomes
    <3>2. PICK u : u = Message(q, "user", n, {})
      OBVIOUS
    <3>3. Backed(u)'
      BY <3>2 DEF Backed, Message
    <3> QED
      BY <2>3, <2>4, <3>1, <3>2, <3>3 DEF Cited, Backed
  <2>7. CASE PutAnswer(s) /\ ~UNCHANGED messages
    <3>1. PICK q : q = question[s]
      OBVIOUS
    <3>2. Sourced(q) /\ UNCHANGED <<runs, evidence>>
      BY <1>1, <2>7, <3>1 DEF PutAnswer
    <3>3. PICK a : a = Message(q, "assistant", q.seq + 1, q.cites)
      OBVIOUS
    <3>4. messages' = messages \cup {a} /\ q.cites \subseteq evidence
      BY <2>7, <3>1, <3>3, PutAnswerAdds DEF Accepted
    <3>5. a.at = q.at /\ a.cites = q.cites
      BY <3>3 DEF Message
    <3>6. \A e \in q.cites : runs[e[1]].at >= q.at
      <4>1. \A e \in evidence : runs[e[1]] # NoRun
        BY <1>1 DEF RunsMatch, NoRun
      <4> QED
        BY <3>2, <3>4, <4>1 DEF Sourced, Since
    <3>7. Backed(a)'
      BY <3>2, <3>4, <3>5, <3>6 DEF Backed
    <3> QED
      BY <2>3, <2>4, <3>4, <3>7 DEF Cited, Backed
  <2>8. CASE Quiet(s) \/ SaveEvidence(s) \/ ResearchFails(s) \/ StartResearch(s)
             \/ \E analyze, opens \in BOOLEAN : Ask(s, analyze, opens)
    BY <2>5, <2>8, QuietGoes DEF rows, SaveEvidence, ResearchFails, StartResearch, Ask
  <2> QED
    BY <1>3, <2>5, <2>6, <2>7, <2>8 DEF Handle, Quiet
<1>4. CASE Outer
  <2>1. RunsKept /\ (DeleteHousehold \/ EvidenceKept)
    BY <1>4, OuterKeeps
  <2>2. UNCHANGED question /\ messages' \subseteq messages
    BY <1>4 DEF Outer, SweepMessages, SweepConversations, SweepEvidence, SweepRuns, DeleteHousehold,
       Tick, RemoveConversation, rows
  <2>3. clock' \in Nat /\ clock <= clock'
    BY <1>4 DEF Outer, SweepMessages, SweepConversations, SweepEvidence, SweepRuns, DeleteHousehold,
       Tick, outside, RowsTyped
  <2>4. \A t \in Slots : Sourced(question[t])'
    <3>1. ASSUME NEW t \in Slots PROVE Sourced(question[t])'
      <4>1. PICK q : q = question[t]
        OBVIOUS
      <4>2. Sourced(q)' /\ question'[t] = q
        BY <1>1, <2>1, <2>2, <4>1, SourcedStays
      <4> QED
        BY <4>2 DEF Sourced
    <3> QED
      BY <3>1
  <2>5. CASE DeleteHousehold
    <3>1. messages' = {}
      BY <2>5 DEF DeleteHousehold, RemoveConversation
    <3> QED
      BY <2>4, <3>1 DEF Cited
  <2>6. CASE EvidenceKept
    BY <1>2, <2>2, <2>3, <2>4, <2>6 DEF Cited, Backed
  <2> QED
    BY <2>1, <2>5, <2>6
<1>5. CASE UNCHANGED vars
  BY <1>5 DEF Cited, Sourced, Since, Expired, vars
<1> QED
  BY <1>3, <1>4, <1>5 DEF Next, Outer

-----------------------------------------------------------------------------
(* Everything together *)

Planned ==
    /\ RowsTyped /\ QuestionsTyped /\ Distinct
    /\ Numbered /\ Waiting /\ Researched /\ Cited

LEMMA InitPlanned == Init => Planned
<1> SUFFICES ASSUME Init PROVE Planned
  OBVIOUS
<1>1. RowsTyped
  BY PlannerAssumption DEF Init, RowsTyped, NoConversation, NoRun, ResearchStatuses
<1>2. \A s \in Slots : question[s] = Idle
  BY DEF Init
<1>3. QuestionsTyped
  BY <1>2, IdleIsProper DEF Init, QuestionsTyped, Proper
<1>4. Distinct /\ Waiting
  BY <1>2 DEF Distinct, Waiting, Held, Idle
<1>5. Numbered
  BY DEF Init, Numbered, AnswersFollowTheirQuestion
<1>6. Researched
  BY <1>2 DEF Init, Researched, Equipped, Idle, NoRun
<1>7. Cited
  BY <1>2 DEF Init, Cited, Sourced, Idle
<1> QED
  BY <1>1, <1>3, <1>4, <1>5, <1>6, <1>7 DEF Planned

LEMMA NextPlanned == Planned /\ [Next]_vars => Planned'
<1> SUFFICES ASSUME Planned, [Next]_vars PROVE Planned'
  OBVIOUS
<1> USE DEF Planned
<1>1. RowsTyped'
  <2>1. CASE UNCHANGED vars
    BY <2>1 DEF RowsTyped, vars
  <2> QED
    BY <2>1, HandleRowsTyped, OuterRowsTyped DEF Next, Outer
<1>2. QuestionsTyped'
  <2>1. CASE UNCHANGED vars
    BY <2>1 DEF QuestionsTyped, Proper, vars
  <2> QED
    BY <2>1, HandleQuestionsTyped, OuterQuestionsTyped DEF Next, Outer
<1>3. Distinct'
  BY NextDistinct
<1>4. Numbered'
  BY <1>1, NextNumbered
<1>5. Waiting'
  <2>1. CASE UNCHANGED vars
    BY <2>1 DEF Waiting, Held, Message, vars
  <2> QED
    BY <2>1, HandleWaiting, OuterWaiting DEF Next, Outer
<1>6. Researched'
  BY NextResearched
<1>7. Cited'
  BY NextCited
<1> QED
  BY <1>1, <1>2, <1>3, <1>4, <1>5, <1>6, <1>7

LEMMA AlwaysPlanned == Spec => []Planned
BY InitPlanned, NextPlanned, PTL DEF Spec

(* Every row is one the tables allow, message numbers stay within those    *)
(* that so many questions take, and a question keeps to its budgets of     *)
(* calls and tools (postChatMessage, plannerNode).                         *)
THEOREM PlannerIsTyped == Spec => []TypeOK
<1>1. Planned => TypeOK
  <2> SUFFICES ASSUME Planned PROVE TypeOK
    OBVIOUS
  <2> USE DEF Planned
  <2>1. asked \in Nat /\ asked <= MaxAsked /\ MaxAsked \in Nat
    BY PlannerAssumption DEF RowsTyped
  <2>2. Cardinality(Past) \in Nat /\ Cardinality(Past) <= asked
    <3>1. PICK past : past = Past
      OBVIOUS
    <3>2. past \subseteq 1..asked /\ IsFiniteSet(1..asked) /\ Cardinality(1..asked) = asked
      BY <2>1, <3>1, FS_Interval DEF Past
    <3> QED
      BY <3>1, <3>2, PastIsFinite, FS_Subset
  <2>3. ASSUME NEW m \in messages
        PROVE  /\ m.seq \in 1..2 * MaxAsked /\ m.sender \in Senders
               /\ m.of \in 1..MaxAsked /\ m.cites \subseteq Items /\ m.at \in 0..MaxClock
    <3>1. m \in MessageRows /\ m.seq <= 2 * Cardinality(Past)
      BY DEF RowsTyped, Numbered
    <3> QED
      BY <2>1, <2>2, <3>1 DEF MessageRows
  <2>4. ASSUME NEW s \in Slots, NEW q, q = question[s]
        PROVE  /\ q.stage \in Stages /\ q.calls \in 0..CallBudget
               /\ q.tools + q.pending \in 0..ToolBudget
               /\ {q.found, q.evidence, q.cites} \subseteq SUBSET Items
               /\ q.unchecked \subseteq q.cites
    <3>1. Proper(q)
      BY <2>4 DEF QuestionsTyped
    <3> QED
      BY <3>1, PlannerAssumption DEF Proper, Questions
  <2>5. conversation \in [id : 0..MaxAsked, at : 0..MaxClock]
    BY <2>1 DEF RowsTyped
  <2> QED
    BY <2>3, <2>4, <2>5 DEF TypeOK, RowsTyped
<1> QED
  BY <1>1, AlwaysPlanned, PTL

(* An answer follows its own question, and the number kept for the answer  *)
(* of a question under way is never taken, whoever else asks and whatever  *)
(* is swept away meanwhile (postChatMessage).                              *)
THEOREM AnswersHaveTheirPlace == Spec => []QuestionsKeepTheirAnswers
<1>1. Planned => QuestionsKeepTheirAnswers
  BY DEF Planned, Numbered, Waiting, Held, QuestionsKeepTheirAnswers, AnswerNumbersStayFree
<1> QED
  BY <1>1, AlwaysPlanned, PTL

(* An answer that is still shown cites evidence that is still stored: what *)
(* it cites was researched no earlier than its question was asked          *)
(* (postChatMessage, cleanupExpiredRecords).                               *)
THEOREM CitationsAreStored == Spec => []ShownAnswersCiteStoredEvidence
<1>1. Planned => ShownAnswersCiteStoredEvidence
  BY DEF Planned, Cited, ShownAnswersCiteStoredEvidence
<1> QED
  BY <1>1, AlwaysPlanned, PTL

(* A research run that is kept says what came of it (executeResearch).     *)
THEOREM RunsSayWhatCameOfThem == Spec => []ResearchRunsMatchTheirEvidence
<1>1. Planned => ResearchRunsMatchTheirEvidence
  <2> SUFFICES ASSUME Planned PROVE ResearchRunsMatchTheirEvidence
    OBVIOUS
  <2>1. \A e \in evidence : e[1] \in 1..MaxRuns /\ runs[e[1]].status = "completed"
    BY DEF Planned, RowsTyped, Researched, Items
  <2> QED
    BY <2>1 DEF Planned, Researched, ResearchRunsMatchTheirEvidence, NoRun
<1> QED
  BY <1>1, AlwaysPlanned, PTL
===============================================================================
