\* A process alone, and a parent with a forked child, none followed further once
\* it has torn its own memory; three threads of which one is blocked, unblocked
\* and sent to; a team with two debuggers.
SPECIFICATION Spec
CONSTANTS
    parent = parent
    child = child
    t1 = t1
    t2 = t2
    GuestThread = {t1, t2}
    Process = {parent, child}
    ProcessOf <- Family
    Parent = parent
    MaxAreaId = 3
    PageCount = 3
    Specs = {"any", "exact"}
    Bounds <- SmallBounds
    Thread = {a, b, c}
    Target = {a}
    MaxSends = 3
    Debugger = {d1, d2}
    Nobody = nobody
INVARIANTS
    RefsExact
    AreasBooked
    OffsetsAgree
    DataConserved
    SleepersHaveReason
    RequestsAgree
PROPERTIES
    RequestsAnswered
\* All threads and teams may have left.
CHECK_DEADLOCK FALSE
