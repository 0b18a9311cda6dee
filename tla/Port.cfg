\* Three threads, two places in the queue, three messages, close and delete.
SPECIFICATION Spec
CONSTANTS
    Thread = {t1, t2, t3}
    Capacity = 2
    MaxSent = 3
    CanClose = TRUE
    CanDelete = TRUE
    None = None
SYMMETRY Symmetry
INVARIANTS
    FirstInFirstOut
    NoSleeper
\* All guests may block on an empty port, or the port may be gone.
CHECK_DEADLOCK FALSE
