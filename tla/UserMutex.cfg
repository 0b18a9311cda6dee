\* Three threads, a mutex, a second one that may be disabled, a condition.
SPECIFICATION Spec
CONSTANTS
    Thread = {t1, t2, t3}
    Mutex = {m1, m2}
    Cond = {c1}
    Disableable = {m2}
    None = None
SYMMETRY Symmetry
INVARIANTS
    MutualExclusion
    NobodyStranded
PROPERTY
    ImplementsLockService
