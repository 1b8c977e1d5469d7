\* Liveness of a smaller instance, without symmetry.
SPECIFICATION FairSpec
CONSTANTS
    Clients = {c1, c2}
    Workers = {w1}
    Scenarios = {s1}
    Checks = {d1}
    Fields = {"income", "emi"}
    Amounts = {1, 2}
    None = None
    Recalculations <- MCRecalculations
    Overlays <- MCOverlays
    CheckRequests <- MCOneCheckRequest
    Material <- MCMaterial
    Aging = {}
    BatchSize = 1
    MaxVersions = 1
    MaxAttempts = 1
PROPERTIES
    RequestsAreAnswered
