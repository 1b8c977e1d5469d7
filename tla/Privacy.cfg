\* One document, export and deletion between two clients, two workers and the cleanup.
SPECIFICATION Spec
CONSTANTS
    Clients = {c1, c2}
    Workers = {w1, w2}
    Docs = {d1}
    Exports = {e1}
    Deletions = {h1}
    ConsentRequests <- MCConsentRequests
    Earlier <- MCEarlier
    Fresh <- MCFresh
    MaxAttempts = 2
SYMMETRY Symmetry
CHECK_DEADLOCK FALSE
INVARIANTS
    TypeOK
    AvailableDocumentsHaveTheirObject
    DocumentObjectsAreReachable
    CompletedExportsHaveTheirArtifact
    DeletionTakesTheDocuments
PROPERTIES
    ConfirmedDeletionsStay
