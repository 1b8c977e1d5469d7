------------------------------ MODULE Planner ------------------------------
(***************************************************************************)
(* The planning assistant: a question is stored, a graph of steps gathers  *)
(* the plan and researched evidence, asks a language model, reviews what   *)
(* it wrote, and the answer is stored beside the question                  *)
(* (modules/planner, modules/research).  Questions of one household run    *)
(* side by side, none of it inside one transaction; the retention sweep    *)
(* and the deletion of the household remove rows underneath them.          *)
(*                                                                         *)
(* Time is counted in steps of a month or so.  A question takes seconds,   *)
(* so at most one step of the clock falls within it.                       *)
(***************************************************************************)
EXTENDS Integers, FiniteSets, FiniteSetsExt

CONSTANTS Slots,        \* questions that may be under way at once
          Pages,        \* what a search may find
          Retention,    \* how long rows are kept, in steps of the clock
          Freshness,    \* how long evidence may be cited
          CallBudget,   \* calls of the language model per question
          ToolBudget,   \* calls of tools per question
          Batch,        \* rows of one table removed by one sweep
          MaxAsked,     \* bound: questions
          MaxRuns,      \* bound: research runs
          MaxClock      \* bound: steps of the clock

ASSUME PlannerAssumption ==
    /\ Freshness \in 2..Retention \* a question never outlives its evidence
    /\ {CallBudget, ToolBudget, Batch, MaxAsked, MaxRuns} \subseteq Nat \ {0}
    /\ {Retention, MaxClock} \subseteq Nat

VARIABLES clock,
          household,    \* the household's row is there
          plan,         \* it has a current plan, from the start or never
          conversation, \* its conversation: who opened it and when
          messages,     \* planner_messages with planner_message_citations
          runs,         \* research_runs
          evidence,     \* rows of evidence: the run and the page
          question,     \* what each slot is doing
          asked, started \* questions and research runs so far

vars == <<clock, household, plan, conversation, messages, runs, evidence,
          question, asked, started>>
rows == <<conversation, messages, runs, evidence>>
outside == <<clock, household, plan>>

Stages == {"idle", "question", "supervisor", "financial_state", "research",
           "searching", "found", "saved", "planner", "tools", "risk",
           "critic", "answer"}

ResearchStatuses == {"none", "running", "completed", "failed"}

Senders == {"user", "assistant"}

NoConversation == [id |-> 0, at |-> 0]

NoRun == [status |-> "none", at |-> 0]

Idle == [stage |-> "idle", no |-> 0, at |-> 0, in |-> 0, analyze |-> FALSE,
         seq |-> 0, tool |-> FALSE, run |-> 0, found |-> {}, evidence |-> {},
         cites |-> {}, unchecked |-> {}, calls |-> 0, tools |-> 0, pending |-> 0]

Items == (1..MaxRuns) \X Pages

----------------------------------------------------------------------------
(* Rows and their retention *)

Expired(at) == at + Retention <= clock

\* Evidence carries the time of its run (computeRetentionExpiresAt, 90 days).
EvidenceExpired(e) == Expired(runs[e[1]].at)

\* A run is kept for 30 days, as long as its evidence is fresh.
RunExpiredEarly(r) == runs[r] # NoRun /\ runs[r].at + Freshness <= clock

RunExpired(r) == runs[r] # NoRun /\ Expired(runs[r].at)

Fresh(e) == runs[e[1]].at + Freshness > clock

Visible == conversation # NoConversation /\ ~Expired(conversation.at)

LastSequence == Max({m.seq : m \in messages} \union {0})

\* The next number, whatever is still to be answered.
NextUserSequenceDense == LastSequence + 1

\* The question takes the next odd number: the even one after it is its answer's.
NextUserSequence ==
    IF LastSequence % 2 = 0 THEN LastSequence + 1 ELSE LastSequence + 2

Message(q, sender, seq, cites) ==
    [seq |-> seq, sender |-> sender, of |-> q.no, cites |-> cites, at |-> q.at]

----------------------------------------------------------------------------
(* A question *)

Becomes(s, changed) == question' = [question EXCEPT ![s] = changed]

\* An error is thrown: the caller is answered and nothing more is written.
Reject(s) == question' = [question EXCEPT ![s] = Idle]

\* postChatMessage and analyzePlan up to the conversation: it is found and
\* not expired, or opened.  Only one conversation at a time is followed here.
Ask(s, analyze, opens) ==
    /\ question[s].stage = "idle" /\ asked < MaxAsked
    /\ analyze => plan
    /\ IF opens THEN conversation = NoConversation /\ household ELSE Visible
    /\ asked' = asked + 1
    /\ conversation' = IF opens THEN [id |-> asked', at |-> clock] ELSE conversation
    /\ Becomes(s, [question[s] EXCEPT !.stage = "question", !.no = asked', !.at = clock,
                   !.in = conversation'.id, !.analyze = analyze])
    /\ UNCHANGED <<outside, messages, runs, evidence, started>>

\* One transaction under the conversation's advisory lock.
PutQuestion(s) ==
    LET q == question[s] IN
    /\ q.stage = "question"
    /\ IF q.in = conversation.id
         THEN /\ messages' = messages \union {Message(q, "user", NextUserSequence, {})}
              /\ Becomes(s, [q EXCEPT !.stage = "supervisor", !.seq = NextUserSequence])
         ELSE Reject(s) /\ UNCHANGED messages
    /\ UNCHANGED <<outside, conversation, runs, evidence, asked, started>>

\* Refused wording ends it; the wording decides whether there is research.
Supervise(s) ==
    /\ question[s].stage = "supervisor"
    /\ \/ Reject(s)
       \/ Becomes(s, [question[s] EXCEPT !.stage = "financial_state"])
    /\ UNCHANGED <<outside, rows, asked, started>>

\* An analysis ends without a plan; a question of its own may need research.
ReadPlan(s) ==
    LET q == question[s] IN
    /\ q.stage = "financial_state"
    /\ \/ q.analyze /\ ~plan /\ Reject(s)
       \/ (q.analyze => plan) /\ Becomes(s, [q EXCEPT !.stage = "planner", !.analyze = FALSE])
       \/ ~q.analyze /\ Becomes(s, [q EXCEPT !.stage = "research"])
    /\ UNCHANGED <<outside, rows, asked, started>>

----------------------------------------------------------------------------
(* Research, by the graph's own step or by the model's tool *)

\* The step goes on without evidence; a tool's error ends the question.
GiveUpResearch(s) ==
    IF question[s].tool THEN Reject(s) ELSE Becomes(s, [question[s] EXCEPT !.stage = "planner"])

StartResearch(s) ==
    /\ question[s].stage = "research"
    /\ \/ /\ household /\ started < MaxRuns
          /\ started' = started + 1
          /\ runs' = [runs EXCEPT ![started'] = [status |-> "running", at |-> clock]]
          /\ Becomes(s, [question[s] EXCEPT !.stage = "searching", !.run = started'])
       \/ /\ ~household \* its household is gone: the insert is refused
          /\ GiveUpResearch(s)
          /\ UNCHANGED <<runs, started>>
    /\ UNCHANGED <<outside, conversation, messages, evidence, asked>>

\* The search answers, each page is fetched or skipped.
Search(s, found) ==
    /\ question[s].stage = "searching" /\ found # {}
    /\ Becomes(s, [question[s] EXCEPT !.stage = "found", !.found = {question[s].run} \X found])
    /\ UNCHANGED <<outside, rows, asked, started>>

\* The evidence and the run's completion, in one transaction.
SaveEvidence(s) ==
    LET q == question[s] IN
    /\ q.stage = "found" /\ runs[q.run] # NoRun
    /\ evidence' = evidence \union q.found
    /\ runs' = [runs EXCEPT ![q.run].status = "completed"]
    /\ Becomes(s, [q EXCEPT !.stage = "saved"])
    /\ UNCHANGED <<outside, conversation, messages, asked, started>>

\* The run is read back and returned; a tool's result is only shown to the model.
ReturnEvidence(s) ==
    LET q == question[s] IN
    /\ q.stage = "saved"
    /\ IF q.tool
         THEN Becomes(s, [q EXCEPT !.stage = "tools", !.tool = FALSE, !.found = {}, !.run = 0])
         ELSE Becomes(s, [q EXCEPT !.stage = "planner", !.evidence = q.found, !.found = {},
                          !.run = 0])
    /\ UNCHANGED <<outside, rows, asked, started>>

\* Whatever the run already came to.
FailedWhatever(run) ==
    IF runs[run] # NoRun THEN [runs EXCEPT ![run].status = "failed"] ELSE runs

Failed(run) ==
    IF runs[run].status = "running" THEN [runs EXCEPT ![run].status = "failed"] ELSE runs

\* No result, no page that could be fetched, or an error on the way.
ResearchFails(s) ==
    LET q == question[s] IN
    /\ q.stage \in {"searching", "found", "saved"}
    /\ runs' = Failed(q.run)
    /\ GiveUpResearch(s)
    /\ UNCHANGED <<outside, conversation, messages, evidence, asked, started>>

----------------------------------------------------------------------------
(* The language model *)

\* The calls so far are looked at, not the ones asked for.
WithinToolBudgetSoFar(q, n) == q.tools <= ToolBudget

\* It asks for n tools, within what is left of the budget.
WithinToolBudget(q, n) == q.tools + n <= ToolBudget

RequestTools(s, n) ==
    LET q == question[s] IN
    /\ q.stage = "planner" /\ q.calls < CallBudget
    /\ WithinToolBudget(q, n)
    /\ Becomes(s, [q EXCEPT !.stage = "tools", !.calls = q.calls + 1, !.pending = n])
    /\ UNCHANGED <<outside, rows, asked, started>>

\* Tools run one after another; research is one of them.
RunTool(s, research) ==
    LET q == question[s] IN
    /\ q.stage = "tools" /\ q.pending > 0
    /\ Becomes(s, [q EXCEPT !.stage = IF research THEN "research" ELSE "tools",
                   !.tool = research, !.tools = q.tools + 1, !.pending = q.pending - 1])
    /\ UNCHANGED <<outside, rows, asked, started>>

\* The loop is entered again while calls are left.
AskAgain(s) ==
    LET q == question[s] IN
    /\ q.stage = "tools" /\ q.pending = 0
    /\ IF q.calls < CallBudget THEN Becomes(s, [q EXCEPT !.stage = "planner"]) ELSE Reject(s)
    /\ UNCHANGED <<outside, rows, asked, started>>

\* It answers, citing some of the graph's evidence, if there is any.
Answer(s, cites) ==
    LET q == question[s] IN
    /\ q.stage = "planner" /\ q.calls < CallBudget
    /\ cites \subseteq q.evidence
    /\ q.evidence # {} => cites # {}
    /\ Becomes(s, [q EXCEPT !.stage = "risk", !.cites = cites, !.evidence = {}, !.calls = 0,
                   !.tools = 0])
    /\ UNCHANGED <<outside, rows, asked, started>>

\* Both providers fail, the output is empty or mixed or cites nothing, a
\* budget is exceeded, or a tool is unknown or refuses its arguments.
PlannerFails(s) ==
    /\ question[s].stage \in {"planner", "tools"}
    /\ Reject(s)
    /\ UNCHANGED <<outside, rows, asked, started>>

----------------------------------------------------------------------------
(* The review and the answer *)

ReviewRisk(s) ==
    LET q == question[s] IN
    /\ q.stage = "risk"
    /\ \/ Reject(s)
       \/ Becomes(s, [q EXCEPT !.stage = "critic", !.unchecked = q.cites])
    /\ UNCHANGED <<outside, rows, asked, started>>

\* Citations are looked up one by one.
ReviewCitation(s, e) ==
    LET q == question[s] IN
    /\ q.stage = "critic" /\ e \in q.unchecked
    /\ IF e \in evidence /\ Fresh(e)
         THEN Becomes(s, [q EXCEPT !.unchecked = q.unchecked \ {e}])
         ELSE Reject(s)
    /\ UNCHANGED <<outside, rows, asked, started>>

\* An answer without citations may make no claim about regulation.
Approve(s) ==
    LET q == question[s] IN
    /\ q.stage = "critic" /\ q.unchecked = {}
    /\ \/ Becomes(s, [q EXCEPT !.stage = "answer"])
       \/ q.cites = {} /\ Reject(s)
    /\ UNCHANGED <<outside, rows, asked, started>>

\* The message and its citations in one transaction: the conversation and
\* the evidence are referred to, and a number is given once.
PutAnswer(s) ==
    LET q == question[s]
        accepted == /\ q.in = conversation.id
                    /\ q.cites \subseteq evidence
                    /\ \A m \in messages : m.seq # q.seq + 1 IN
    /\ q.stage = "answer"
    /\ messages' = IF accepted
                     THEN messages \union {Message(q, "assistant", q.seq + 1, q.cites)}
                     ELSE messages
    /\ Reject(s) \* the request is over, answered or not
    /\ UNCHANGED <<outside, conversation, runs, evidence, asked, started>>

\* The process serving it dies.
Crash(s) ==
    /\ question[s].stage # "idle"
    /\ Reject(s)
    /\ UNCHANGED <<outside, rows, asked, started>>

----------------------------------------------------------------------------
(* What removes rows *)

\* A sweep takes at most a batch of each table's expired rows.
Batches(expired) == kSubset(Min({Batch, Cardinality(expired)}), expired)

\* cleanupExpiredRecords goes from table to table; calls of it overlap, so the
\* tables are reached in any order.
SweepMessages ==
    /\ \E gone \in Batches({m \in messages : Expired(m.at)}) :
         /\ gone # {}
         /\ messages' = messages \ gone
    /\ UNCHANGED <<outside, conversation, runs, evidence, question, asked, started>>

RemoveConversation == conversation' = NoConversation /\ messages' = {}

SweepConversations ==
    /\ conversation # NoConversation /\ Expired(conversation.at)
    /\ RemoveConversation
    /\ UNCHANGED <<outside, runs, evidence, question, asked, started>>

SweepEvidence ==
    /\ \E gone \in Batches({e \in evidence : EvidenceExpired(e)}) :
         /\ gone # {}
         /\ evidence' = evidence \ gone
    /\ UNCHANGED <<outside, conversation, messages, runs, question, asked, started>>

SweepRuns ==
    /\ \E gone \in Batches({r \in 1..MaxRuns : RunExpired(r)}) :
         /\ gone # {}
         /\ runs' = [r \in 1..MaxRuns |-> IF r \in gone THEN NoRun ELSE runs[r]]
         /\ evidence' = {e \in evidence : e[1] \notin gone}
    /\ UNCHANGED <<outside, conversation, messages, question, asked, started>>

\* The deletion of the household takes all of it, in one transaction.
DeleteHousehold ==
    /\ household
    /\ household' = FALSE /\ plan' = FALSE
    /\ RemoveConversation
    /\ evidence' = {} /\ runs' = [r \in 1..MaxRuns |-> NoRun]
    /\ UNCHANGED <<clock, question, asked, started>>

\* At most one step of the clock falls within a question.
Tick ==
    /\ clock < MaxClock
    /\ \A s \in Slots : question[s].stage = "idle" \/ question[s].at = clock
    /\ clock' = clock + 1
    /\ UNCHANGED <<household, plan, rows, question, asked, started>>

----------------------------------------------------------------------------
Init ==
    /\ clock = 0
    /\ household = TRUE
    /\ plan \in BOOLEAN
    /\ conversation = NoConversation
    /\ messages = {}
    /\ runs = [r \in 1..MaxRuns |-> NoRun]
    /\ evidence = {}
    /\ question = [s \in Slots |-> Idle]
    /\ asked = 0 /\ started = 0

Handle(s) ==
    \/ \E analyze, opens \in BOOLEAN : Ask(s, analyze, opens)
    \/ PutQuestion(s) \/ Supervise(s) \/ ReadPlan(s)
    \/ StartResearch(s)
    \/ \E found \in SUBSET Pages : Search(s, found)
    \/ SaveEvidence(s) \/ ReturnEvidence(s) \/ ResearchFails(s)
    \/ \E n \in 1..ToolBudget + 1 : RequestTools(s, n)
    \/ \E research \in BOOLEAN : RunTool(s, research)
    \/ AskAgain(s)
    \/ \E cites \in SUBSET Items : Answer(s, cites)
    \/ PlannerFails(s) \/ ReviewRisk(s)
    \/ \E e \in Items : ReviewCitation(s, e)
    \/ Approve(s) \/ PutAnswer(s) \/ Crash(s)

Next ==
    \/ \E s \in Slots : Handle(s)
    \/ SweepMessages \/ SweepConversations \/ SweepEvidence \/ SweepRuns
    \/ DeleteHousehold \/ Tick

Spec == Init /\ [][Next]_vars

----------------------------------------------------------------------------
(* Properties *)

\* Every variable keeps to its type and a question to its budgets of calls
\* and tools.
TypeOK ==
    /\ clock \in 0..MaxClock
    /\ household \in BOOLEAN /\ plan \in BOOLEAN
    /\ conversation \in [id : 0..MaxAsked, at : 0..MaxClock]
    /\ \A m \in messages :
         /\ m.seq \in 1..2 * MaxAsked /\ m.sender \in Senders
         /\ m.of \in 1..MaxAsked /\ m.cites \subseteq Items /\ m.at \in 0..MaxClock
    /\ runs \in [1..MaxRuns -> [status : ResearchStatuses, at : 0..MaxClock]]
    /\ evidence \subseteq Items
    /\ \A s \in Slots :
         LET q == question[s] IN
         /\ q.stage \in Stages
         /\ q.calls \in 0..CallBudget
         /\ q.tools + q.pending \in 0..ToolBudget
         /\ {q.found, q.evidence, q.cites} \subseteq SUBSET Items
         /\ q.unchecked \subseteq q.cites
    /\ asked \in 0..MaxAsked /\ started \in 0..MaxRuns

AnswersFollowTheirQuestion ==
    \A m, n \in messages :
        /\ m.seq = n.seq => m = n
        /\ n.sender = "assistant" /\ m.seq = n.seq - 1 =>
             m.sender = "user" /\ m.of = n.of

AnswerNumbersStayFree ==
    \A s \in Slots :
        LET q == question[s] IN
        q.seq # 0 /\ q.in = conversation.id => \A m \in messages : m.seq # q.seq + 1

\* Whoever asks at the same time, and whatever goes unanswered or is swept
\* away: an answer directly follows its own question, and the number kept for
\* the answer of a question under way is never taken, so that a reviewed
\* answer is not turned away (postChatMessage numbers the answer from the
\* question's number, long after the lock is released).
QuestionsKeepTheirAnswers == AnswersFollowTheirQuestion /\ AnswerNumbersStayFree

\* What an answer that may still be read cites is stored: the evidence is not
\* swept, nor deleted under a review, while the answer is shown
\* (the four tables of cleanupExpiredRecords expire in an order of their own).
ShownAnswersCiteStoredEvidence ==
    Visible => \A m \in messages : ~Expired(m.at) => m.cites \subseteq evidence

\* A research run that is still kept says what came of it: completed with
\* evidence, otherwise without, even when the error comes after the evidence
\* was committed or a process died on the way (executeResearch).
ResearchRunsMatchTheirEvidence ==
    \A r \in 1..MaxRuns :
        /\ runs[r] = NoRun => \A e \in evidence : e[1] # r
        /\ runs[r] # NoRun /\ ~RunExpired(r) =>
             (runs[r].status = "completed" <=> \E e \in evidence : e[1] = r)
============================================================================
