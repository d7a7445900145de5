SPECIFICATION Spec
CONSTANTS
    Plans <- MCPlans
    RunsPerCase = 1
    Pricing <- MCPricing
    Reported <- MCReported
    RateScale = 4
    Tool = "bash"
    Contexts <- MCContexts
    MaxResponses = 2
    MaxDenials = 1
\* The directory is not used again.
CHECK_DEADLOCK FALSE
INVARIANTS
    TypeOK
    ResultsAreOfOneSuite
    UsageIsOfTheFile
    VerdictIsOfTheRun
    ReportAddsUp
PROPERTIES
    DamagedTraceStopsSuites
