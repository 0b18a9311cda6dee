\* Three threads that pass 1 or 2, and delete_sem.
SPECIFICATION Spec
CONSTANTS
    Thread = {t1, t2, t3}
    Half = 8
    Initial = 1
    Amounts = {1, 2}
    MaxReleases = 3
    CanDelete = TRUE
    None = None
SYMMETRY Symmetry
INVARIANTS
    Conserved
    NoStrandedWaiter
\* All threads wait, or the semaphore is gone.
CHECK_DEADLOCK FALSE
