\* Two questions at a time and three in all, one page to find, one research
\* run, budgets of two calls and one tool, rows kept for three steps.
SPECIFICATION Spec
CONSTANTS
    s1 = s1
    s2 = s2
    p1 = p1
    Slots <- MCSlots
    Pages = {p1}
    Retention = 3
    Freshness = 2
    CallBudget = 2
    ToolBudget = 1
    Batch = 1
    MaxAsked = 3
    MaxRuns = 1
    MaxClock = 3
SYMMETRY Symmetric
CHECK_DEADLOCK FALSE
INVARIANTS
    TypeOK
    QuestionsKeepTheirAnswers
    ShownAnswersCiteStoredEvidence
    ResearchRunsMatchTheirEvidence
