-------------------------- MODULE DriftComparator --------------------------
(***************************************************************************)
(* Whether observed figures drifted from those a plan was made with        *)
(* (modules/drift/comparator.ts).  Thresholds are in percent and in units  *)
(* of the currency; a rate is in hundredths of a percentage point.         *)
(***************************************************************************)
EXTENDS FinancialEngine

Severities == <<"notice", "warning", "critical">>

Moved(b, o) == Abs(o - b)

\* At least `percent` of the baseline: the ratio, multiplied out.
Relative(b, o, percent) == Moved(b, o) * 100 >= percent * Abs(b)

Adverse(delta, direction) == IF direction = "decrease" THEN delta < 0 ELSE delta > 0

SignChanged(b, o, floor) ==
    \/ b > 0 /\ o < 0
    \/ b < 0 /\ o > 0
    \/ b # 0 /\ o = 0 /\ Moved(b, o) >= floor

\* The relative threshold needs a baseline; the floor always holds.
ThresholdMet(b, o, percent, floor) ==
    Moved(b, o) >= floor /\ (b # 0 => Relative(b, o, percent))

\* checkRelativeAndFloor.  A value that appears or disappears is compared
\* with the floor alone, as a move from or to zero.
Check(base, obs, percent, floor, direction, signs) ==
    LET b == Or(base, 0)
        o == Or(obs, 0)
        both == Given(base) /\ Given(obs)
        adverse == Adverse(o - b, direction) IN
    IF ~Given(base) /\ ~Given(obs)
      THEN [material |-> FALSE, twice |-> FALSE, regression |-> FALSE]
      ELSE [material |->
              IF both THEN \/ signs /\ SignChanged(b, o, floor)
                           \/ ThresholdMet(b, o, percent, floor)
                      ELSE Moved(b, o) >= floor,
            twice |->
              /\ adverse
              /\ IF both THEN /\ Moved(b, o) >= 2 * floor
                              /\ b # 0 => Relative(b, o, 2 * percent)
                         ELSE Moved(b, o) >= 2 * floor,
            regression |-> Given(obs) /\ o < 0 /\ (Given(base) => b >= 0)]

Severity(check) == IF check.twice THEN "warning" ELSE "notice"

\* A big move is called a warning before the sign is looked at.
SignedSeverityBySize(check) ==
    IF check.twice THEN "warning" ELSE IF check.regression THEN "critical" ELSE "notice"

\* Surplus and net worth: turning negative is critical.
SignedSeverity(check) ==
    IF check.regression THEN "critical" ELSE Severity(check)

\* The findings of one code: none or one.
Finding(code, material, severity) ==
    IF material THEN {[code |-> code, severity |-> severity]} ELSE {}

Checked(code, check) == Finding(code, check.material, Severity(check))
CheckedSign(code, check) == Finding(code, check.material, SignedSeverity(check))

\* The sum of two optional amounts: missing if both are, else a missing one is 0.
Combined(a, b) ==
    IF ~Given(a) /\ ~Given(b) THEN Missing ELSE Some(Or(a, 0) + Or(b, 0))

\* A month is 10000 in the four decimals of a runway.
RunwayFinding(base, obs) ==
    LET b == Or(base, 0)
        o == Or(obs, 0)
        worse == Given(base) /\ o < b /\ Moved(b, o) >= 20000 IN
    Finding("reserve_runway_changed",
            (Given(base) \/ Given(obs)) /\ Moved(b, o) >= 10000,
            IF worse THEN "warning" ELSE "notice")

\* Months and rates: a step is material, twice the step up is a warning.  One
\* that disappears is never a warning.
StepCheck(base, obs, step) ==
    LET b == Or(base, 0)
        o == Or(obs, 0) IN
    [material |-> Moved(b, o) >= step, twice |-> Given(obs) /\ o - b >= 2 * step]

\* prepayments, strategy and refinancing are compared as a whole.
DebtFinding(base, obs) ==
    LET principal == Check(base.principal, obs.principal, 5, 5000, "increase", FALSE)
        rate == StepCheck(base.rate, obs.rate, 50)
        tenure == StepCheck(base.tenure, obs.tenure, 3)
        checks == {[material |-> c.material, twice |-> c.twice] :
                     c \in {principal, rate, tenure}} IN
    Finding("debt_terms_changed",
            (\E c \in checks : c.material) \/ base.extras # obs.extras,
            IF \E c \in checks : c.material /\ c.twice THEN "warning" ELSE "notice")

\* A horizon that shrinks or disappears is the adverse one.
HorizonCheck(base, obs) ==
    LET b == Or(base, 0)
        o == Or(obs, 0) IN
    [material |-> Moved(b, o) >= 3, twice |-> Given(base) /\ b - o >= 6]

Feasible == {Some("funded"), Some("feasible")}

GoalFinding(base, obs) ==
    LET was == GoalFunding(base)
        now == GoalFunding(obs)
        target == Check(base.target, obs.target, 5, 5000, "increase", FALSE)
        savings == Check(base.savings, obs.savings, 10, 1000, "decrease", FALSE)
        capacity == Check(base.capacity, obs.capacity, 10, 1000, "decrease", FALSE)
        checks == {[material |-> c.material, twice |-> c.twice] :
                     c \in {target, HorizonCheck(base.horizon, obs.horizon), savings, capacity}} IN
    Finding("goal_changed",
            (\E c \in checks : c.material) \/ was # now,
            IF was \in Feasible /\ now = Some("infeasible") THEN "critical"
            ELSE IF \E c \in checks : c.material /\ c.twice THEN "warning"
            ELSE "notice")

\* All nine comparisons of two sets of inputs.
Compare(base, obs) ==
    LET b == base.cashFlow
        o == obs.cashFlow IN
    UNION {
      Checked("income_changed", Check(b.income, o.income, 5, 1000, "decrease", FALSE)),
      Checked("spending_changed",
              Check(Combined(b.essential, b.discretionary),
                    Combined(o.essential, o.discretionary), 10, 2000, "increase", FALSE)),
      Checked("obligations_changed",
              Check(Combined(b.emis, b.mandatory), Combined(o.emis, o.mandatory),
                    5, 1000, "increase", FALSE)),
      CheckedSign("surplus_changed",
                  Check(CashFlow(b).surplus, CashFlow(o).surplus, 10, 1000, "decrease", TRUE)),
      RunwayFinding(EmergencyFund(base.emergencyFund).runway,
                    EmergencyFund(obs.emergencyFund).runway),
      Checked("investment_contribution_changed",
              Check(base.sip, obs.sip, 10, 1000, "decrease", FALSE)),
      DebtFinding(base.loan, obs.loan),
      GoalFinding(base.goal, obs.goal),
      CheckedSign("net_worth_changed",
                  Check(NetWorth(base.netWorth), NetWorth(obs.netWorth), 10, 10000,
                        "decrease", TRUE)) }

\* Canonically equal inputs are not compared at all.
CompareDrift(base, obs) == IF base = obs THEN {} ELSE Compare(base, obs)
============================================================================
