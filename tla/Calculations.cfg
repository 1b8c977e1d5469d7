\* Loans of up to four months with up to two prepayments, goals of up to three
\* months, and figures on, below and above the thresholds of the comparator, in
\* decimals of two digits.
SPECIFICATION Spec
CONSTANTS
    Precision = 2
    Scale = 7
    PolicyInflation <- MCInflation
    PolicyReturn = 5
    PolicyReserve <- MCReserve
    StepMonths = 2
    Loans <- MCLoans
    Goals <- MCGoals
    Baselines <- MCBaselines
    Levels <- MCLevels
    Cent = 1
CHECK_DEADLOCK FALSE
INVARIANTS
    SchedulesRepay
    PrepaymentsNeverCost
    FeasibleGoalsAreReached
PROPERTIES
    WorseFiguresAreNotJudgedMilder
