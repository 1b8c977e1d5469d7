\* Two devices with two observations each, two batches sent, both
\* at a time.  The bounds end the runs.
SPECIFICATION Spec
CONSTANTS
    Syncs = {s1, s2}
    Phone = Phone
    Tablet = Tablet
    Reference = Reference
    Purchase = Purchase
    Items <- MCItems
    Batches <- MCBatches
    None = None
    MaxSyncs = 2
    MaxRows = 3
SYMMETRY Symmetry
CHECK_DEADLOCK FALSE
INVARIANTS
    TypeOK
    ObservationsCountOnce
    AnsweredBatchesAreRecorded
    LookalikesAreReviewed
    HistoryKeepsItsAccount
