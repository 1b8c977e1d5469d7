\* A scenario and a drift check of one plan side by side.  The check ages and
\* has two workers: every order of evaluation, failure, redelivery, keep,
\* accept and cleanup, while requests come in from two clients.  When its only
\* check is deleted the instance has no request left to serve.
SPECIFICATION Spec
CONSTANTS
    Clients = {c1, c2}
    Workers = {w1, w2}
    Scenarios = {s1}
    Checks = {d1}
    Fields = {"income", "emi"}
    Amounts = {1, 2}
    None = None
    Recalculations <- MCRecalculations
    Overlays <- MCOverlays
    CheckRequests <- MCDriftRequests
    Material <- MCMaterial
    Aging = {d1}
    BatchSize = 1
    MaxVersions = 1
    MaxAttempts = 2
SYMMETRY Symmetry
CHECK_DEADLOCK FALSE
INVARIANTS
    TypeOK
    AnswersNameTheirDecision
    OneVersionPerDecision
    EventMatchesItsCheck
    ReadsStayTrue
PROPERTIES
    EventsResolveOnce
    ImplementsHistory
