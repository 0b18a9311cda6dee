\* A guest and its child, with descriptors that are reused.
SPECIFICATION Spec
CONSTANTS
    main = main
    second = second
    image = image
    child = child
    A = A
    B = B
    Guest = {main, child}
    team <- TeamOf
    tid <- TidOf
    origin <- OriginOf
    parent <- ParentOf
    Fds = 2
    Killable = {}
    None = None
INVARIANTS
    SilentlyFails
\* All guests are gone.
CHECK_DEADLOCK FALSE
