\* A run and another job, two dispatchers, two slots and a subscriber; without
\* symmetry, because liveness is checked.
SPECIFICATION FairSpec
CONSTANTS
    Aggregates = {a1}
    Runs = {r1}
    Dispatchers = {d1, d2}
    Slots = {w1, w2}
    Subscribers = {s1}
    None = None
    Starts <- MCStarts
    MaxAttempts = 2
    MaxFaults = 2
CHECK_DEADLOCK FALSE
INVARIANTS
    TypeOK
    PublishedWorkIsQueued
PROPERTIES
    ImplementsStream
    RequestedWorkIsSettled
    SubscribersCatchUp
