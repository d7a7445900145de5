SPECIFICATION Spec
CONSTANTS
    c1 = c1
    c2 = c2
    key = key
    salt = salt
    marker = marker
    Ids <- MCIds
    Values <- MCValues
    Content <- MCContent
    Marker = marker
    Responses <- MCResponses
    Configs <- MCConfigs
    Faults <- MCFaults
\* A run that has ended takes no further step.
CHECK_DEADLOCK FALSE
INVARIANTS
    EveryRequestHasOneResult
