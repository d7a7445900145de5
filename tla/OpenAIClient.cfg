SPECIFICATION Spec
CONSTANTS
    MaxTurns = 3
    MaxCalls = 2
\* A run ends, and its client with it.
CHECK_DEADLOCK FALSE
INVARIANTS
    TypeOK
    ModelSeesTheConversation
    CallsAreAnswered
    RequestCanBeFormed
