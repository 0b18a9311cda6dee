\* Two names, two levels, one link or mount at a time over a tree of five
\* entries; two queues of events with two objects; and a thread with a signal
\* pending, of three that the host knows and one that is a real-time signal;
\* two threads over two ids, and two that wait for them.
SPECIFICATION Spec
CONSTANTS
    Name = {"a", "b"}
    Top = "top"
    Disk = "disk"
    Hidden = ".hyclone"
    MaxDepth = 2
    MaxNodes = 5
    MaxIno = 5
    MaxMoved = 1
    MaxRefs = 1
    MaxMounts = 1
    PathLen = 2
    MaxLinks = 4
    Requests <- TheRequests
    Targets <- TheTargets
    Waiter = {w1}
    Queue = {11, 12}
    WaitObject = {13, 14}
    NoRecord = 0
    PageRecords = 1
    MaxPages = 2
    MaxInfos = 2
    SigThread = {s1}
    Linux <- TheLinux
    Realtime = {33}
    SigUsr1 = 18
    SigChld = 5
    Unsettable = {10}
    SigActions <- TheActions
    Default = "default"
    SigSets = {{18, 33}, {5}}
    Death <- TheDeaths
    FirstRealtime = 38
    NoCall = none
    MaxPending = 1
    Times = {2}
    MaxSlept = 3
    JoinTid = {1, 2}
    Handle = {h1, h2}
    Joiner = {j1, j2}
    NoHandle = none
INVARIANTS
    NamesLead
    QueueAgrees
    SignalsHandled
    JoinsAgree
\* Every entry that the bounds allow may have been made.
CHECK_DEADLOCK FALSE
