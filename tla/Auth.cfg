\* One address: two requests at a time, two challenges,
\* two session families and three refresh tokens.  The bounds end the runs.
SPECIFICATION Spec
CONSTANTS
    Requests = {q1, q2}
    Challenges = {c1, c2}
    None = None
    Deployments <- MCDeployments
    MaxFamilies = 2
    MaxTokens = 3
    MaxPasswords = 2
SYMMETRY Symmetry
CHECK_DEADLOCK FALSE
INVARIANTS
    TypeOK
    LiveFamiliesHaveOneToken
    ReuseOnlyAfterLoss
    CodesSignInOnce
    InvitationsAreSpentOnAccounts
    SessionsEndWithTheirPassword
