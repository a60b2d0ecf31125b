SPECIFICATION FairSpec
CONSTANTS
    Interfaces <- MCInterfaces
    MaxClients = 2
    MaxLines = 2
INVARIANTS
    TypeOK
    PromptMeansServing
    ReportedFirst
PROPERTIES
    ComesUp
CHECK_DEADLOCK FALSE
