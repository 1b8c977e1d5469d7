\* A check is requested again after the plan has moved on.
SPECIFICATION Spec
CONSTANTS
    Clients = {c1}
    Workers = {w1}
    Scenarios = {}
    Checks = {d1}
    Fields = {"income", "emi"}
    Amounts = {1, 2}
    None = None
    Recalculations <- MCRecalculations
    Overlays <- MCOverlays
    CheckRequests <- MCOneCheckRequest
    Material <- MCMaterial
    Aging = {}
    BatchSize = 1
    MaxVersions = 2
    MaxAttempts = 1
SYMMETRY Symmetry
INVARIANTS
    ReplayReturnsTheCheck
