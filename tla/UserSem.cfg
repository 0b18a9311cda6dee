\* Three threads that wait, time out and post; one unit at the start.
SPECIFICATION FairSpec
CONSTANTS
    Thread = {t1, t2, t3}
    Initial = 1
    MaxPosts = 3
    None = None
INVARIANTS
    WaitersMarked
PROPERTIES
    ImplementsCountingSem
    PostEnds
\* All threads wait and all posts are made.
CHECK_DEADLOCK FALSE
