SPECIFICATION Spec
CONSTANTS
    read = read
    write = write
    raise = raise
    Calls <- MCCalls
    Raising <- MCRaising
    Responses <- MCResponses
    Scripts <- MCScripts
    Configs <- MCConfigs
    DefaultMaxTurns = 2
\* The comparison is the end of it.
CHECK_DEADLOCK FALSE
INVARIANTS
    DivergenceIsReported
