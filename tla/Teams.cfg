\* A guest with a second thread that execs, and its child; the parent team may be
\* killed; there are fewer descriptors than guests, so that they are used again.
SPECIFICATION Spec
CONSTANTS
    main = main
    image = image
    child = child
    second = second
    A = A
    B = B
    Guest = {main, image, child, second}
    team <- TeamOf
    tid <- TidOf
    origin <- OriginOf
    parent <- ParentOf
    Fds = 3
    Killable = {A}
    None = None
CONSTRAINT NotCrossed
INVARIANTS
    ServedAsSelf
    NothingLeft
    NobodyWaitsInVain
\* All guests are gone.
CHECK_DEADLOCK FALSE
