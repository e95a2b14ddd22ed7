CONSTANTS
    Configs <- MCConfigs
    MaxLines = 5
    DataStalls = FALSE
SPECIFICATION Spec
\* A connection ends.
CHECK_DEADLOCK FALSE
INVARIANTS NeverBug SessionsRunAsTheirUser ForcedEncryptionHolds
           AnswersMatchRequests PamSessionIsClosed
PROPERTY NobodyLingers
