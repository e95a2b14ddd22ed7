CONSTANTS
    Configs <- MCConfigs
    Calls <- MCCalls
    Requests <- MCRequests
    MaxCommands = 4
    MaxAhead = 2
    DeleteFailedUploads = TRUE
    UinsDisturbed = FALSE
SPECIFICATION MCSpec
\* The processes end.
CHECK_DEADLOCK FALSE
INVARIANTS NeverBug SettledBetweenCommands FailedUploadsAreDeleted
           SessionsStayConfined CredentialsAreAsAsked
PROPERTIES SessionsEndWhenStalled TrapsAreAnswered
