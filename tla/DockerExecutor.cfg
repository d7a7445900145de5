SPECIFICATION FairSpec
\* A command that has ended takes no further step.
CHECK_DEADLOCK FALSE
INVARIANTS
    TypeOK
    NothingRunsAfterCleanup
PROPERTIES
    CleanupHangsOnlyOnOutput
