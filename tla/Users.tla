------------------------------- MODULE Users --------------------------------
(* Users and groups: the server maps those of the host to ids of the guest when
   it starts and writes them to the guest's files, and a process has ids at the
   server and at the host, which a call sets one after the other.

   A user of the host has a group of its own with the same number. Users and
   groups are treated alike, by Kind; the list of groups is of a process alone.
   Whether the host allows a process to take an id is left open. The process
   has one thread: the host keeps ids by thread. *)
EXTENDS Integers, FiniteSets

CONSTANTS
    HostUser,       \* users of the host
    HostId,         \* the number of each of them
    OwnUser,        \* entries of the guest's files that the server has not made
    GuestId,        \* ids that a guest passes
    MaxChanges      \* bound: changes of the host's users and calls that set ids

kMinHostId == 2000

\* Users of the host have numbers of their own; the entries of the guest's
\* files that the server has not made have ids below those that it gives.
ASSUME UsersAssumption ==
    /\ IsFiniteSet(HostUser)
    /\ HostId \in [HostUser -> Nat] /\ \A u, v \in HostUser : HostId[u] = HostId[v] => u = v
    /\ "no launcher" \notin HostUser
    /\ \A e \in OwnUser : e = [name |-> e.name, id |-> e.id] /\ e.id \in 0 .. kMinHostId - 1
    /\ GuestId \subseteq Nat

IdKind == {"uid", "gid"}
NoId == -1

VARIABLES
    present,        \* the users that the host has
    launcher,       \* who has started the server, or nobody
    loaded,         \* the users that the server has read
    idMap,          \* ids of the guest by numbers of the host, by Kind
    reverseMap,     \* numbers of the host by ids of the guest, by Kind
    etc,            \* the guest's files: names and ids, by Kind
    ids,            \* a process at the server: real and effective ids, groups
    cred,           \* the same at the host
    setting,        \* the call under way
    changes

userVars == <<present, launcher, loaded, idMap, reverseMap, etc, ids, cred, setting, changes>>

NoLauncher == "no launcher"
NoProcess == [uid |-> << >>, gid |-> << >>, groups |-> {}]
NotSetting == [of |-> "nothing"]

-----------------------------------------------------------------------------
(* The maps. *)

\* Who has started the server is moved to the front of the list.
Others(users, owner) == users \ {owner}

\* The others get ids in the order of their numbers.
GuestIdOf(users, owner, u) ==
    IF u = owner THEN 0
    ELSE kMinHostId + Cardinality({v \in Others(users, owner) : HostId[v] < HostId[u]})

RegisterIds(users, owner) ==
    [kind \in IdKind |-> [h \in {HostId[u] : u \in users} |->
        GuestIdOf(users, owner, CHOOSE u \in users : HostId[u] = h)]]

RegisterReverse(users, owner) ==
    [kind \in IdKind |-> [i \in {GuestIdOf(users, owner, u) : u \in users} |->
        HostId[CHOOSE u \in users : GuestIdOf(users, owner, u) = i]]]

\* What is not known stands for itself.
GetId(kind, h) == IF h \in DOMAIN idMap[kind] THEN idMap[kind][h] ELSE h

GetHostId(kind, i) == IF i \in DOMAIN reverseMap[kind] THEN reverseMap[kind][i] ELSE NoId

-----------------------------------------------------------------------------
(* The start of the server. *)

\* Mutant: users that the file has already keep the id they had.
MatchedEntriesOld(old, users, owner) ==
    {e \in old : e.id >= kMinHostId /\ e.name \in Others(users, owner)}

\* Entries of users of the host that an earlier server has made.
MatchedEntries(old, users, owner) ==
    {[e EXCEPT !.id = GuestIdOf(users, owner, e.name)] :
        e \in {d \in old : d.id >= kMinHostId /\ d.name \in Others(users, owner)}}

\* The guest's own entries stay, root is called as who has started the server.
KeptEntries(old, owner) ==
    {IF e.id = 0 THEN [e EXCEPT !.name = owner] ELSE e : e \in {d \in old : d.id < kMinHostId}}

AddedEntries(old, users, owner) ==
    LET matched == {e.name : e \in MatchedEntries(old, users, owner)}
    IN {[name |-> u, id |-> GuestIdOf(users, owner, u)] : u \in Others(users, owner) \ matched}
       \cup (IF \E e \in old : e.id = 0 THEN {} ELSE {[name |-> owner, id |-> 0]})

SetupUserMap(owner) ==
    /\ launcher = NoLauncher /\ owner \in present
    /\ launcher' = owner
    /\ loaded' = present
    /\ idMap' = RegisterIds(present, owner)
    /\ reverseMap' = RegisterReverse(present, owner)
    /\ etc' = [kind \in IdKind |-> MatchedEntries(etc[kind], present, owner) \cup KeptEntries(etc[kind], owner)
                                     \cup AddedEntries(etc[kind], present, owner)]
    /\ UNCHANGED <<present, ids, cred, setting, changes>>

EndUserMap ==
    /\ launcher # NoLauncher
    /\ launcher' = NoLauncher
    /\ ids' = NoProcess /\ cred' = NoProcess /\ setting' = NotSetting
    /\ UNCHANGED <<present, loaded, idMap, reverseMap, etc, changes>>

HostUserChanges(u) ==
    /\ changes < MaxChanges
    /\ present' = IF u \in present THEN present \ {u} ELSE present \cup {u}
    /\ present' # {}
    /\ changes' = changes + 1
    /\ UNCHANGED <<launcher, loaded, idMap, reverseMap, etc, ids, cred, setting>>

-----------------------------------------------------------------------------
(* A process gets its ids from those of the host when it connects first, and
   its groups whenever it starts or executes a program. *)

ConnectedIds(c, kind) == [w \in DOMAIN c[kind] |-> GetId(kind, c[kind][w])]

RegisteredGroups(c) == {GetId("gid", g) : g \in c.groups}

ConnectProcess(u) ==
    LET is == [real |-> HostId[u], effective |-> HostId[u]]
        starts == [uid |-> is, gid |-> is, groups |-> {HostId[u]}]
    IN /\ launcher # NoLauncher /\ ids = NoProcess /\ u \in present
       /\ cred' = starts
       /\ ids' = [uid |-> ConnectedIds(starts, "uid"), gid |-> ConnectedIds(starts, "gid"),
                  groups |-> RegisteredGroups(starts)]
       /\ UNCHANGED <<present, launcher, loaded, idMap, reverseMap, etc, setting, changes>>

\* The process is known already.
ExecProcess ==
    /\ ids # NoProcess /\ setting = NotSetting
    /\ ids' = [ids EXCEPT !.groups = RegisteredGroups(cred)]
    /\ UNCHANGED <<present, launcher, loaded, idMap, reverseMap, etc, cred, setting, changes>>

-----------------------------------------------------------------------------
(* Setting ids: the server says which the host has to set, the guest sets them,
   and the server takes them over when that has worked. *)

Both(real, effective, all) ==
    IF ~all THEN [real |-> real, effective |-> effective]
    ELSE IF real # NoId THEN [real |-> real, effective |-> real]
    ELSE [real |-> effective, effective |-> effective]

HostIds(kind, want) ==
    [w \in DOMAIN want |-> IF want[w] >= kMinHostId THEN GetHostId(kind, want[w]) ELSE NoId]

Changed(old, want) == [w \in DOMAIN old |-> IF want[w] = NoId THEN old[w] ELSE want[w]]

AskSetIds(kind, real, effective, all) ==
    LET want == Both(real, effective, all)
        hosts == HostIds(kind, want)
    IN /\ ids # NoProcess /\ setting = NotSetting
       /\ changes < MaxChanges /\ changes' = changes + 1
       /\ real # NoId \/ effective # NoId
       /\ IF \A w \in DOMAIN hosts : hosts[w] = NoId
          THEN ids' = [ids EXCEPT ![kind] = Changed(@, want)] /\ UNCHANGED setting
          ELSE setting' = [of |-> "ids", kind |-> kind, want |-> want, hosts |-> hosts, done |-> FALSE] /\ UNCHANGED ids
       /\ UNCHANGED <<present, launcher, loaded, idMap, reverseMap, etc, cred>>

Setreuid(real, effective, all) == AskSetIds("uid", real, effective, all)

Setregid(real, effective, all) == AskSetIds("gid", real, effective, all)

\* The guest's part: the call ends where the host refuses.
HostSetIds(kind, allowed) ==
    /\ setting.of = "ids" /\ setting.kind = kind /\ ~setting.done
    /\ IF allowed
       THEN cred' = [cred EXCEPT ![kind] = Changed(@, setting.hosts)] /\ setting' = [setting EXCEPT !.done = TRUE]
       ELSE setting' = NotSetting /\ UNCHANGED cred
    /\ UNCHANGED <<present, launcher, loaded, idMap, reverseMap, etc, ids, changes>>

MoniSetreuid(allowed) == HostSetIds("uid", allowed)

MoniSetregid(allowed) == HostSetIds("gid", allowed)

RetrySetIds ==
    /\ setting.of = "ids" /\ setting.done
    /\ ids' = [ids EXCEPT ![setting.kind] = Changed(@, setting.want)]
    /\ setting' = NotSetting
    /\ UNCHANGED <<present, launcher, loaded, idMap, reverseMap, etc, cred, changes>>

\* The host sets groups only when one of them is new to the process.
AskSetgroups(groups) ==
    LET mapped == {g \in groups : g >= kMinHostId}
    IN /\ ids # NoProcess /\ setting = NotSetting
       /\ changes < MaxChanges /\ changes' = changes + 1
       /\ setting' = [of |-> "groups", want |-> groups,
                      hosts |-> IF mapped \subseteq ids.groups THEN {} ELSE {GetHostId("gid", g) : g \in mapped}]
       /\ UNCHANGED <<present, launcher, loaded, idMap, reverseMap, etc, ids, cred>>

MoniSetgroups(allowed) ==
    /\ setting.of = "groups"
    /\ setting' = NotSetting
    /\ IF setting.hosts # {} /\ (~allowed \/ NoId \in setting.hosts)
       THEN UNCHANGED <<ids, cred>>
       ELSE /\ ids' = [ids EXCEPT !.groups = setting.want]
            /\ cred' = IF setting.hosts = {} THEN cred ELSE [cred EXCEPT !.groups = setting.hosts]
    /\ UNCHANGED <<present, launcher, loaded, idMap, reverseMap, etc, changes>>

-----------------------------------------------------------------------------
UsersInit ==
    /\ present = HostUser
    /\ launcher = NoLauncher /\ loaded = {}
    /\ idMap = [kind \in IdKind |-> << >>] /\ reverseMap = [kind \in IdKind |-> << >>]
    /\ etc = [kind \in IdKind |-> OwnUser]
    /\ ids = NoProcess /\ cred = NoProcess /\ setting = NotSetting
    /\ changes = 0

UsersStep ==
    \/ EndUserMap \/ ExecProcess \/ RetrySetIds
    \/ \E u \in HostUser : SetupUserMap(u) \/ HostUserChanges(u) \/ ConnectProcess(u)
    \/ \E real, effective \in GuestId \cup {NoId}, all \in BOOLEAN :
         Setreuid(real, effective, all) \/ Setregid(real, effective, all)
    \/ \E groups \in SUBSET GuestId : AskSetgroups(groups)
    \/ \E allowed \in BOOLEAN : MoniSetreuid(allowed) \/ MoniSetregid(allowed) \/ MoniSetgroups(allowed)

UsersSpec == UsersInit /\ [][UsersStep]_userVars

-----------------------------------------------------------------------------
(* Properties. *)

\* While the server runs, its two maps are inverse to each other; the guest's
\* files have root under the name of who has started it, the guest's own users,
\* and one entry with the id of the map for each other user of the host, however
\* users came, went and were numbered anew at earlier starts. A process that has
\* an id or a group of the map has it at the host too, as long as no call is
\* under way and its ids at the host were known when the server started.
UsersAgree ==
    launcher # NoLauncher =>
        \A kind \in IdKind :
            LET map == idMap[kind]
                back == reverseMap[kind]
                Agrees(id, h) == id >= kMinHostId /\ id \in DOMAIN back /\ h \in DOMAIN map => back[id] = h
            IN /\ \A h \in DOMAIN map : map[h] \in DOMAIN back /\ back[map[h]] = h
               /\ {e \in etc[kind] : e.id >= kMinHostId} =
                    {[name |-> u, id |-> map[HostId[u]]] : u \in loaded \ {launcher}}
               /\ {e \in etc[kind] : e.id < kMinHostId} =
                    {[name |-> launcher, id |-> 0]} \cup {e \in OwnUser : e.id # 0}
               /\ setting = NotSetting => \A w \in DOMAIN ids[kind] : Agrees(ids[kind][w], cred[kind][w])
               /\ setting = NotSetting /\ cred.groups \subseteq DOMAIN map =>
                    \A g \in ids.groups : g >= kMinHostId /\ kind = "gid" /\ g \in DOMAIN back => back[g] \in cred.groups
=============================================================================
