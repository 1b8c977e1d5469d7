\* Two workers evaluate one check.
SPECIFICATION Spec
CONSTANTS
    Clients = {c1}
    Workers = {w1, w2}
    Scenarios = {}
    Checks = {d1}
    Fields = {"income", "emi"}
    Amounts = {1, 2}
    None = None
    Recalculations <- MCRecalculations
    Overlays <- MCOverlays
    CheckRequests <- MCOneCheckRequest
    Material <- MCMaterial
    Aging = {}
    BatchSize = 1
    MaxVersions = 1
    MaxAttempts = 2
SYMMETRY Symmetry
CHECK_DEADLOCK FALSE
INVARIANTS
    FailedChecksHaveNoEvent
