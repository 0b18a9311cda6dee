\* More calls than slots, of every kind.
SPECIFICATION FairSpec
CONSTANTS
    Task = {t1, t2, t3}
    Slots = 1
    Kinds = {"acquire", "release", "nap", "plain"}
    None = None
INVARIANTS
    SlotsConserved
    NoIdleSlot
PROPERTIES
    CallsEnd
\* The calls end, or wait for a permit that nobody makes.
CHECK_DEADLOCK FALSE
