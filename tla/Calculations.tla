---------------------------- MODULE Calculations ----------------------------
(***************************************************************************)
(* What the calculators answer, one to another: a loan or a goal is        *)
(* calculated once; the figures a plan was made with get worse step by     *)
(* step and are compared with the plan after every step.                   *)
(***************************************************************************)
EXTENDS DriftComparator

CONSTANTS Loans,     \* the loans asked about
          Goals,     \* the goals asked about
          Baselines, \* the figures a plan was made with
          Levels,    \* the values a figure may come to take
          Cent       \* what published amounts are rounded to

ASSUME CentAssumption == Cent \in Nat

\* An optional input is missing or has one value.
Optional(o, S) == o \subseteq S /\ \A v, w \in o : v = w

\* What the requests' schemas let through (financial-engine/model.ts).
ASSUME LoansAssumption ==
    \A loan \in Loans :
      /\ loan.principal \in Nat \ {0} /\ loan.rate \in Nat /\ loan.months \in Nat \ {0}
      /\ \A m \in DOMAIN loan.extra : m \in 1..loan.months /\ loan.extra[m] \in Nat \ {0}

ASSUME GoalsAssumption ==
    \A goal \in Goals :
      /\ Optional(goal.target, Nat \ {0}) /\ Optional(goal.horizon, Nat \ {0})
      /\ \A o \in {goal.savings, goal.capacity, goal.inflation, goal.return} : Optional(o, Nat)
      /\ goal.category \in DOMAIN PolicyInflation

VARIABLES request,   \* what is asked: a loan, a goal or a comparison
          figures,   \* the observed figures of a comparison
          result     \* the answer, once there is one

vars == <<request, figures, result>>

\* A figure gets worse by growing or by shrinking.
Worsens ==
    [income |-> "decrease", essential |-> "increase", emis |-> "increase",
     need |-> "increase", reserves |-> "decrease", sip |-> "decrease",
     principal |-> "increase", rate |-> "increase", tenure |-> "increase",
     target |-> "increase", horizon |-> "decrease", savings |-> "decrease",
     capacity |-> "decrease", inflation |-> "increase", assets |-> "decrease", liabilities |-> "increase"]

Figures == DOMAIN Worsens

\* A loan or a goal of nothing, or for no time, is refused.
Allowed(q) == IF q \in {"principal", "tenure", "target", "horizon"} THEN Nat \ {0} ELSE Nat

\* A plan's figures, and the return it expects throughout.
PlanFigures ==
    {f \in [Figures \union {"return"} -> SUBSET Nat] : \A q \in DOMAIN f : Optional(f[q], Allowed(q))}

ASSUME FiguresAssumption ==
    /\ \A f \in Baselines : f \in PlanFigures
    /\ \A q \in Figures : Levels[q] \subseteq Allowed(q)
    /\ "general" \in DOMAIN PolicyInflation

\* The figures as the comparator's inputs, without what is kept fixed.
Inputs(f) ==
    LET fixed(o, v) == IF Given(o) THEN Some(v) ELSE Missing
        item(o) == IF Given(o) THEN Some(<<[value |-> Value(o)]>>) ELSE Missing IN
    [cashFlow |-> [income |-> f.income, essential |-> f.essential,
                   discretionary |-> fixed(f.income, 0), emis |-> f.emis,
                   mandatory |-> fixed(f.income, 0)],
     emergencyFund |-> [essential |-> f.need, emis |-> fixed(f.need, 0),
                        mandatory |-> fixed(f.need, 0),
                        stability |-> fixed(f.need, "stable"),
                        dependents |-> fixed(f.need, 0), reserves |-> f.reserves,
                        custom |-> Missing],
     loan |-> [principal |-> f.principal, rate |-> f.rate, tenure |-> f.tenure,
               extras |-> {}],
     goal |-> [target |-> f.target, horizon |-> f.horizon, savings |-> f.savings,
               capacity |-> f.capacity, category |-> "general",
               inflation |-> f.inflation, return |-> f.return],
     sip |-> f.sip,
     netWorth |-> [assets |-> item(f.assets), liabilities |-> item(f.liabilities)]]

Findings(f) == CompareDrift(Inputs(request.in), Inputs(f))

\* 0 if there is no finding of that code, else its place among the severities.
Rank(findings, code) ==
    Max({0} \union {i \in DOMAIN Severities : [code |-> code, severity |-> Severities[i]] \in findings})

----------------------------------------------------------------------------
Init ==
    /\ request \in [about : {"loan"}, in : Loans] \union [about : {"goal"}, in : Goals]
                     \union [about : {"drift"}, in : Baselines]
    /\ figures = IF request.about = "drift" THEN request.in ELSE <<>>
    /\ result = IF request.about = "drift" THEN Some({}) ELSE Missing

AskLoan ==
    /\ request.about = "loan" /\ result = Missing
    /\ result' = Some(Loan(request.in))
    /\ UNCHANGED <<request, figures>>

AskGoal ==
    /\ request.about = "goal" /\ result = Missing
    /\ result' = GoalFunding(request.in)
    /\ UNCHANGED <<request, figures>>

\* A figure of the plan gets worse and the household is checked again.
Worsen(q, v) ==
    /\ request.about = "drift"
    /\ Given(request.in[q])
    /\ Adverse(v - Value(figures[q]), Worsens[q])
    /\ figures' = [figures EXCEPT ![q] = Some(v)]
    /\ result' = Some(Findings(figures'))
    /\ UNCHANGED request

Next ==
    \/ AskLoan \/ AskGoal
    \/ \E q \in Figures : \E v \in Levels[q] : Worsen(q, v)

Spec == Init /\ [][Next]_vars

----------------------------------------------------------------------------
(* Properties *)

Repays(rows, principal, months) ==
    /\ Len(rows) \in 1..months
    /\ SumOf(rows, "principal") = principal
    /\ \A i \in DOMAIN rows :
         /\ rows[i].balance >= 0 /\ rows[i].principal >= 0
         /\ rows[i].balance = 0 <=> i = Len(rows)

\* A schedule repays the principal exactly, within its months, by equal
\* payments but for the last (generateAmortizationSchedule).
SchedulesRepay ==
    request.about = "loan" /\ result # Missing =>
      LET in == request.in
          loan == Value(result) IN
      /\ Repays(loan.schedule, in.principal, in.months)
      /\ \A i \in 1..Len(loan.schedule) - 1 :
           loan.schedule[i].principal + loan.schedule[i].interest = loan.emi

\* "The final amortization row is adjusted to clear the remaining unrounded
\* principal exactly" (U4-SPEC.md), in the loop with prepayments too: it ends
\* within the loan's months (calculateLoan).
PrepaymentsRepay ==
    request.about = "loan" /\ result # Missing /\ DOMAIN request.in.extra # {} =>
      Repays(Value(result).revised, request.in.principal, request.in.months)

\* Prepayments save interest or cost a cent more of it at most: nothing that
\* would matter hides behind the zero below which calculateLoan does not let
\* interestSaved fall, whichever loop clears the loan and when.
PrepaymentsNeverCost ==
    request.about = "loan" /\ result # Missing /\ DOMAIN request.in.extra # {} =>
      LET loan == Value(result) IN
      SumOf(loan.revised, "interest") <= SumOf(loan.schedule, "interest") + Cent

\* However small the amounts, and however large their share that rounding
\* takes: prepayments never repay more than is owed, and nothing follows the
\* month that clears the loan.
PrepaymentsNeverOverpay ==
    request.about = "loan" /\ result # Missing /\ DOMAIN request.in.extra # {} =>
      LET in == request.in
          rows == Value(result).revised IN
      /\ Len(rows) \in 1..2 * in.months
      /\ rows[Len(rows)].balance = in.principal - SumOf(rows, "principal")
      /\ \A i \in DOMAIN rows :
           /\ rows[i].balance >= 0 /\ rows[i].principal >= 0 /\ rows[i].interest >= 0
           /\ rows[i].balance = 0 => i = Len(rows)

\* Whether a goal is funded, feasible or not agrees, to a cent a month, with
\* saving for it month by month: two calculators that share no formula and
\* round every result (calculateGoalFunding, runProjectionForRate).
FeasibleGoalsAreReached ==
    request.about = "goal" /\ result # Missing =>
      LET in == request.in
          n == Value(in.horizon)
          savings == Value(in.savings)
          cost == Grown(Value(in.target), Or(in.inflation, PolicyInflation[in.category]), n)
          Reached(lump, sip) ==
              AtMost(cost, Projection(lump, sip, Or(in.return, PolicyReturn), 0, n)) IN
      /\ Value(result) = "funded" => Reached(savings, Cent)
      /\ Value(result) # "funded" /\ savings >= Cent => ~Reached(savings - Cent, 0)
      /\ Value(result) = "feasible" => Reached(savings, Value(in.capacity) + Cent)
      /\ Value(result) = "infeasible" /\ Value(in.capacity) >= Cent =>
           ~Reached(savings, Value(in.capacity) - Cent)

Inflation(f) == Or(f.inflation, PolicyInflation["general"])

\* When a figure gets worse no finding disappears or becomes milder: whatever
\* threshold, sign change or feasibility is crossed on the way (compareDrift,
\* nine comparisons with thresholds of their own).  There are two exceptions.
\* A plan without any monthly need has no runway, and one that appears is
\* compared with nothing: it is the better for it, and may vanish as the need
\* goes on growing.  And under inflation a goal that is wanted sooner costs
\* less: once its horizon was shortened its feasibility may come and go.
WorseFiguresAreNotJudgedMilder ==
    [][request.about = "drift" =>
         \A finding \in Value(result) :
           \/ Rank(Value(result), finding.code) <= Rank(Value(result'), finding.code)
           \/ finding.code = "reserve_runway_changed" /\ request.in.need = Some(0)
           \/ /\ finding.code = "goal_changed"
              /\ Inflation(figures') > 0 /\ figures'.horizon # request.in.horizon
              /\ GoalFunding(Inputs(figures).goal) # GoalFunding(Inputs(figures').goal)]_vars
============================================================================
