\* A reader, and a thread that closes the port.
SPECIFICATION FairSpec
CONSTANTS
    Thread = {t1, t2}
    Capacity = 1
    MaxSent = 1
    CanClose = TRUE
    CanDelete = FALSE
    None = None
PROPERTIES
    ClosedUnblocksReaders
\* All guests may block on an empty port, or the port may be gone.
CHECK_DEADLOCK FALSE
