--------------------------- MODULE MCCalculations ---------------------------
(* Small loans and goals, and figures around the thresholds of the policy. *)
EXTENDS Calculations

MCInflation == [general |-> 1, education |-> 2, medical |-> 2]
MCReserve == [stable |-> 6, variable |-> 9, irregular |-> 12]

Extras(months) ==
    UNION {[S -> {3, 40, 500}] : S \in {S \in SUBSET (1..months) : Cardinality(S) <= 2}}

MCLoans ==
    UNION {[principal : {100, 101, 500}, rate : 0..2, months : {n}, extra : Extras(n),
            strategy : {"reduce_tenure", "reduce_emi"}] : n \in 1..4}

MCGoals ==
    [target : {Some(1), Some(10), Some(15), Some(24)}, horizon : {Some(n) : n \in 1..3},
     savings : {Some(0), Some(2), Some(9), Some(60)},
     capacity : {Missing} \union {Some(c) : c \in 0..30},
     category : {"general", "education"},
     inflation : {Missing, Some(0), Some(3)}, return : {Missing, Some(0), Some(5), Some(7)}]

MCLevels ==
    [income |-> {0, 500, 3000, 19000, 20000}, essential |-> {0, 2000, 19000, 22000},
     emis |-> {0, 1000}, need |-> {0, 1000, 2000, 10000}, reserves |-> {0, 1000, 10000, 20000},
     sip |-> {0, 500, 4000, 5000},
     principal |-> {5000, 100000, 105000, 110000}, rate |-> {800, 850, 900}, tenure |-> {3, 6, 9},
     target |-> {5000, 24500, 30000}, horizon |-> {1, 4, 7}, savings |-> {0, 5000},
     capacity |-> {1000, 4000, 8000, 30000}, inflation |-> {0, 1, 2},
     assets |-> {0, 9000, 100000, 110000}, liabilities |-> {0, 10000, 105000}]

\* One part of the plan at a time, every figure of it given.
Parts == {{"income", "essential", "emis"}, {"need", "reserves"}, {"sip"},
          {"principal", "rate", "tenure"},
          {"target", "horizon", "savings", "capacity", "inflation"}, {"assets", "liabilities"}}

MCReturns == {Some(0), Some(3)}

MCBaselines ==
    UNION {{[q \in Figures \union {"return"} |->
               IF q = "return" THEN return ELSE IF q \in part THEN Some(f[q]) ELSE Missing] :
              return \in IF "target" \in part THEN MCReturns ELSE {Missing},
              f \in {f \in [part -> UNION {MCLevels[q] : q \in part}] :
                       \A q \in part : f[q] \in MCLevels[q]}} : part \in Parts}
============================================================================
