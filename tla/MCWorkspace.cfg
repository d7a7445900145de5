SPECIFICATION Spec
CONSTANTS
    Paths = {"notes", "secret", "elsewhere"}
    Inside = {"notes", "secret"}
    Sensitive = {"secret"}
    Pieces = {"word", "lf", "crlf"}
    AsRead <- MCAsRead
    Texts <- MCTexts
    Absent = Absent
    Original <- MCOriginal
    MaxOutput = 1
    Kept = 0
    MaxCalls = 2
    MaxActs = 2
INVARIANTS
    TypeOK
    ResultTellsTheFiles
    SensitiveOutputIsRegistered
PROPERTIES
    ToolsStayInside
CHECK_DEADLOCK FALSE
