\* A message server with areas for two or three messages each; two listeners of
\* different teams on two directories over one of the host; two clients that
\* listen to a team and to all; two processes that get one id in turn;
\* two threads of a team with two descriptors;
\* two packages, one of them in two versions;
\* messages of two fields, in lent buffers of several sizes;
\* three users of the host; listings of up to four members; two teams of two
\* threads and one image; and a thread that others rename.
SPECIFICATION Spec
CONSTANTS
    t1 = t1
    t2 = t2
    l1 = l1
    l2 = l2
    g1 = g1
    Area = {1, 2, 3}
    NoArea = 0
    Registrar = {r1}
    NoTeam = none
    AreaSize = 16
    HeaderSize = 4
    CommandSize = 3
    DataSizes = {1, 5}
    MaxMessages = 5
    Listener = {l1, l2}
    Owner <- TheOwner
    Dir = {"d1", "d2"}
    HostDir <- TheHost
    Removable = {"d2"}
    Inode = {i1}
    NoInode = none
    MaxMonitors = 1
    MaxTargets = 1
    Wants <- TheWants
    MaxEvents = 2
    Guest = {g1}
    SideThread = {"th"}
    TeamOf <- TheTeam
    Client = {c1, c2}
    All = all
    Nothing = none
    MaxCount = 2
    Pid = {p1}
    MaxTries = 2
    MaxLoads = 2
    Caller = {th1, th2}
    Fd = {3, 4}
    NoCaller = none
    Package = {"a", "b"}
    Later = 9
    Place = {"a", "b", "la", "lb", "f", "d", "g", "s", "c", "o"}
    Top = "top"
    Up <- TheUp
    Kind <- TheKind
    RootEntries = {"s"}
    Toc <- TheToc
    Self <- TheSelf
    Libroot = "o"
    AttrName <- TheNames
    Labelled <- TheLabels
    MaxWrites = 3
    FieldName = {"a", "b"}
    NameLength <- TheNameLength
    Type = {"int8", "int32", "string"}
    String = "string"
    SizeOf <- TheSizeOf
    Value = {"x", "y"}
    StringLength <- TheStringLength
    LentSize = {20, 28, 64, 90}
    Largest = 128
    MaxElements = 3
    HostUser = {"ann", "bob", "eve"}
    HostId <- TheHostId
    OwnUser <- TheOwnUsers
    GuestId = {0, 2000, 2001}
    MaxChanges = 3
    MaxKey = 3
    InfoTeam = {p1, p2}
    InfoTid = {1, 2}
    MaxImages = 1
    InfoThread = {th1}
    ThreadName = {"a", "b"}
    NoThreadName = "none"
    Asked = {10, 25, 120, 121}
INVARIANTS
    MessagesDelivered
    WatchersTold
    ListenersTold
    LoadReported
    HeldAgrees
    PackagesAgree
    MessageReadsBack
    UsersAgree
    ListingComplete
    InfosAgree
\* All teams may have left.
CHECK_DEADLOCK FALSE
