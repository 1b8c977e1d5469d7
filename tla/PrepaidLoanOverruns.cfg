\* The loop with prepayments does not adjust the last month.
SPECIFICATION Spec
CONSTANTS
    Precision = 2
    Scale = 7
    PolicyInflation <- MCInflation
    PolicyReturn = 5
    PolicyReserve <- MCReserve
    StepMonths = 2
    Loans <- MCLoans
    Goals = {}
    Baselines = {}
    Levels <- MCLevels
    Cent = 1
CHECK_DEADLOCK FALSE
INVARIANTS
    PrepaymentsRepay
