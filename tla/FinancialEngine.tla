-------------------------- MODULE FinancialEngine --------------------------
(***************************************************************************)
(* The deterministic calculators (modules/financial-engine) as operators.  *)
(* An optional input is the empty set or the set of its value.  Amounts    *)
(* that are asked with are whole numbers of a unit.                        *)
(*   Goals and projections are computed with fractions, and every result   *)
(* is rounded half up to Precision significant digits, as decimal.js does. *)
(*   In a loan's schedule every quotient is rounded half up to the unit,   *)
(* which stands for the last of the digits that are kept there.            *)
(*   A monthly rate r is r/Scale; the code's Scale is 1200.                *)
(***************************************************************************)
EXTENDS Integers, Sequences, FiniteSets, FiniteSetsExt

CONSTANTS Precision,         \* significant digits that are kept, 40 in the code
          Scale,             \* a year's percent over a month's fraction
          PolicyInflation,   \* published by goal category
          PolicyReturn,      \* published expected return
          PolicyReserve,     \* months of reserve by stability of income
          StepMonths         \* months between two step-ups, 12 in the code

ASSUME EngineAssumption ==
    /\ Scale \in Nat \ {0} /\ StepMonths \in Nat \ {0}
    /\ PolicyReturn \in Nat
    /\ \A category \in DOMAIN PolicyInflation : PolicyInflation[category] \in Nat

Missing == {}
Some(v) == {v}
Given(o) == o # Missing
Value(o) == CHOOSE v \in o : TRUE
Or(o, default) == IF Given(o) THEN Value(o) ELSE default

Abs(n) == IF n < 0 THEN -n ELSE n

\* ROUND_HALF_UP rounds a half away from zero.
RoundHalfUp(n, d) ==
    LET up == (2 * Abs(n) + d) \div (2 * d) IN IF n < 0 THEN -up ELSE up

Power(b, n) ==
    LET P[i \in 0..n] == IF i = 0 THEN 1 ELSE b * P[i - 1] IN P[n]

SumOf(rows, field) ==
    LET Sum[i \in 0..Len(rows)] == IF i = 0 THEN 0 ELSE Sum[i - 1] + rows[i][field] IN
    Sum[Len(rows)]

----------------------------------------------------------------------------
(* Cash flow, emergency fund, net worth *)

CashFlowFields == {"income", "essential", "discretionary", "emis", "mandatory"}

CashFlow(in) ==
    LET expenses == Value(in.essential) + Value(in.discretionary)
        fixed == Value(in.emis) + Value(in.mandatory)
        surplus == Value(in.income) - expenses - fixed IN
    IF \E f \in CashFlowFields : ~Given(in[f])
      THEN [surplus |-> Missing, capacity |-> Missing]
      ELSE [surplus |-> Some(surplus), capacity |-> Some(Max({surplus, 0}))]

DependentsUplift(n) == IF n <= 0 THEN 0 ELSE IF n <= 2 THEN 1 ELSE 2

EmergencyFields ==
    {"essential", "emis", "mandatory", "stability", "dependents", "reserves"}

\* The runway keeps four decimals.
EmergencyFund(in) ==
    LET need == Value(in.essential) + Value(in.emis) + Value(in.mandatory)
        months == Or(in.custom, PolicyReserve[Value(in.stability)])
                      + DependentsUplift(Value(in.dependents))
        shortfall == Max({need * months - Value(in.reserves), 0})
        runway == IF need = 0 THEN Missing
                  ELSE Some(RoundHalfUp(Value(in.reserves) * 10000, need)) IN
    IF \E f \in EmergencyFields : ~Given(in[f])
      THEN [runway |-> Missing, shortfall |-> Missing]
      ELSE [runway |-> runway, shortfall |-> Some(shortfall)]

Total(items) == SumOf(items, "value")

NetWorth(in) ==
    IF Given(in.assets) /\ Given(in.liabilities)
      THEN Some(Total(Value(in.assets)) - Total(Value(in.liabilities)))
      ELSE Missing

----------------------------------------------------------------------------
(* Decimals *)

\* The least monthly rate is one that the digits tell from nothing.
ASSUME PrecisionAssumption == Precision \in Nat \ {0} /\ Scale <= Power(10, Precision - 1)

\* Digits before the point.
Digits(n) == CHOOSE d \in 1..n : Power(10, d - 1) <= n /\ n < Power(10, d)

\* The decimals that are kept; below zero if not all digits before the point are.
Decimals(x) ==
    IF x.num >= x.den THEN Precision - Digits(x.num \div x.den)
    ELSE Precision - 1 + Digits((x.den - 1) \div x.num)

Whole(n) == [num |-> n, den |-> 1]

\* What decimal.js makes of a result: Precision significant digits, half up.
Rounded(x) ==
    LET k == Decimals(x)
        up == Power(10, Max({k, 0}))
        down == Power(10, Max({-k, 0})) IN
    IF x.num = 0 THEN Whole(0)
    ELSE [num |-> RoundHalfUp(x.num * up, x.den * down) * down, den |-> up]

AtMost(x, y) == x.num * y.den <= y.num * x.den
Plus(x, y) == Rounded([num |-> x.num * y.den + y.num * x.den, den |-> x.den * y.den])
Minus(x, y) == Rounded([num |-> x.num * y.den - y.num * x.den, den |-> x.den * y.den])
Times(x, y) == Rounded([num |-> x.num * y.num, den |-> x.den * y.den])
Over(x, y) == Rounded([num |-> x.num * y.den, den |-> x.den * y.num])

\* (1 + r)^n
Compounded(r, n) ==
    LET month == Plus(Whole(1), r) IN
    Rounded([num |-> Power(month.num, n), den |-> Power(month.den, n)])

MonthlyRate(rate) == Over(Whole(rate), Whole(Scale))

\* An amount after n months; a zero rate is not computed with.
Grown(amount, rate, n) ==
    IF rate = 0 THEN Whole(amount)
    ELSE Times(Whole(amount), Compounded(MonthlyRate(rate), n))

----------------------------------------------------------------------------
(* Goals and projections *)

GoalFields == {"target", "horizon", "savings"}

\* The monthly payment that grows to what is short in n months.
\* Paid at the start of each month, it grows for one month more.
RequiredSipInAdvance(short, rate, n) ==
    LET r == MonthlyRate(rate) IN
    IF rate = 0 THEN Over(short, Whole(n))
    ELSE Over(Over(Times(short, r), Minus(Compounded(r, n), Whole(1))), Plus(Whole(1), r))

\* Paid at the end of each month: an ordinary annuity.
RequiredSip(short, rate, n) ==
    LET r == MonthlyRate(rate) IN
    IF rate = 0 THEN Over(short, Whole(n))
    ELSE Over(Times(short, r), Minus(Compounded(r, n), Whole(1)))

\* The shortfall is the future cost less the future value of the savings.
GoalFunding(in) ==
    LET n == Value(in.horizon)
        rate == Or(in.return, PolicyReturn)
        cost == Grown(Value(in.target), Or(in.inflation, PolicyInflation[in.category]), n)
        saved == Grown(Value(in.savings), rate, n) IN
    IF \E f \in GoalFields : ~Given(in[f]) THEN Missing
    ELSE Some(
      IF AtMost(cost, saved) THEN "funded"
      ELSE IF ~Given(in.capacity) THEN "unconstrained"
      ELSE IF AtMost(RequiredSip(Minus(cost, saved), rate, n), Whole(Value(in.capacity)))
        THEN "feasible"
      ELSE "infeasible")

\* What is saved grows through the month, then the month's payment is added;
\* the payment steps up by `step` percent after each full year.
Projection(lump, sip, rate, step, months) ==
    LET Sip(m) ==
            LET year == (m - 1) \div StepMonths IN
            IF step = 0 THEN Whole(sip)
            ELSE Times(Whole(sip), Compounded(Over(Whole(step), Whole(100)), year))
        Gain(balance) == IF rate = 0 THEN Whole(0) ELSE Times(balance, MonthlyRate(rate))
        Balance[m \in 0..months] ==
            IF m = 0 THEN Whole(lump)
            ELSE LET was == Balance[m - 1] IN Plus(Plus(was, Gain(was)), Sip(m)) IN
    Balance[months]

----------------------------------------------------------------------------
(* Loans *)

\* (1 + rate)^n as a fraction; a zero rate is not computed with.
Growth(rate, n) ==
    IF rate = 0 THEN [num |-> 1, den |-> 1]
    ELSE [num |-> Power(Scale + rate, n), den |-> Power(Scale, n)]

Emi(principal, rate, months) ==
    LET g == Growth(rate, months) IN
    IF rate = 0 THEN RoundHalfUp(principal, months)
    ELSE RoundHalfUp(principal * rate * g.num, Scale * (g.num - g.den))

Interest(balance, rate) == RoundHalfUp(balance * rate, Scale)

\* A row of a schedule, and what it leaves.
Row(balance, principal, interest) ==
    [balance |-> balance - principal, principal |-> principal, interest |-> interest]

\* Every month pays the same, the last one too.
PrincipalOfMonthEven(balance, interest, emi, last) == Min({emi - interest, balance})

\* The last month clears what is left.
PrincipalOfMonth(balance, interest, emi, last) ==
    IF last THEN balance ELSE Min({emi - interest, balance})

\* generateAmortizationSchedule stops once nothing is owed.
Schedule(principal, rate, months, emi) ==
    LET After[m \in 0..months] ==
            IF m = 0 THEN [rows |-> <<>>, owed |-> principal]
            ELSE LET was == After[m - 1]
                     interest == Interest(was.owed, rate)
                     due == PrincipalOfMonth(was.owed, interest, emi, m = months) IN
                 IF was.owed = 0 THEN was
                 ELSE [rows |-> Append(was.rows, Row(was.owed, due, interest)),
                       owed |-> was.owed - due] IN
    After[months].rows

\* What is prepaid in month m: never more than is left.
Prepayment(extra, m, left) == IF m \in DOMAIN extra THEN Min({extra[m], left}) ELSE 0

\* As if the month of the prepayment were still to come.
EmiAfterPrepaymentLate(emi, owed, rate, left, strategy) ==
    IF strategy = "reduce_emi" /\ owed > 0 /\ left > 0 THEN Emi(owed, rate, left + 1) ELSE emi

\* With "reduce_emi" the payment is computed anew for the months left.
EmiAfterPrepayment(emi, owed, rate, left, strategy) ==
    IF strategy = "reduce_emi" /\ owed > 0 /\ left > 0 THEN Emi(owed, rate, left) ELSE emi

\* The loop over months with prepayments.  It stops when nothing is owed, or
\* at twice the months.
Prepaid(principal, rate, months, emi, extra, strategy) ==
    LET After[m \in 0..2 * months] ==
            IF m = 0 THEN [rows |-> <<>>, owed |-> principal, emi |-> emi]
            ELSE LET was == After[m - 1]
                     interest == Interest(was.owed, rate)
                     due == Min({was.emi - interest, was.owed})
                     more == Prepayment(extra, m, was.owed - due)
                     owed == was.owed - due - more IN
                 IF was.owed = 0 THEN was
                 ELSE [rows |-> Append(was.rows, Row(was.owed, due + more, interest)),
                       owed |-> owed,
                       emi |-> IF m \in DOMAIN extra
                                 THEN EmiAfterPrepayment(was.emi, owed, rate, months - m, strategy)
                                 ELSE was.emi] IN
    After[2 * months].rows

\* calculateLoan of a complete request, the refinancing comparison left out.
Loan(in) ==
    LET emi == Emi(in.principal, in.rate, in.months) IN
    [emi |-> emi,
     schedule |-> Schedule(in.principal, in.rate, in.months, emi),
     revised |-> IF DOMAIN in.extra = {} THEN <<>>
                 ELSE Prepaid(in.principal, in.rate, in.months, emi, in.extra, in.strategy)]
============================================================================
