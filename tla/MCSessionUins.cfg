CONSTANTS
    MaxCommands = 4
    MaxAhead = 2
    DeleteFailedUploads = TRUE
    UinsDisturbed = TRUE
SPECIFICATION SessionSpec
\* A session ends.
CHECK_DEADLOCK FALSE
INVARIANT NeverBug
