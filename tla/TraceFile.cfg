SPECIFICATION Spec
CONSTANTS
    MaxRuns = 2
    MaxEvents = 3
\* Every run has ended and the path is not used again.
CHECK_DEADLOCK FALSE
INVARIANTS
    TypeOK
    ReadableAfterDeath
    NoRecordedEventIsLost
    EventsAreOrdered
