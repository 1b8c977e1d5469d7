\* Two observations against one baseline, and recalculation beside them: the
\* checks are requested under shared keys, their events accepted at the same time.
SPECIFICATION Spec
CONSTANTS
    Clients = {c1, c2}
    Workers = {w1}
    Scenarios = {}
    Checks = {d1, d2}
    Fields = {"income", "emi"}
    Amounts = {1, 2}
    None = None
    Recalculations <- MCRecalculations
    Overlays <- MCOverlays
    CheckRequests <- MCRivalRequests
    Material <- MCMaterial
    Aging = {}
    BatchSize = 1
    MaxVersions = 2
    MaxAttempts = 1
SYMMETRY Symmetry
INVARIANTS
    DecisionsFollowTheirBasis
    ChecksAreDistinct
