----------------------------- MODULE Namespace ------------------------------
(***************************************************************************)
(* The names of files: how a path of a guest becomes a path of the host    *)
(* (server_vfs, the drivers hostfs and bindfs, Process::ReadDirFd), the     *)
(* calls of monika/linux/io.cpp that act on what a name leads to, and the  *)
(* entry refs (entry_ref.cpp).                                             *)
(*                                                                         *)
(* A path without "." and empty components is a sequence of names and Up.  *)
(* The host's tree is a function of physical paths.  Inodes are numbers;   *)
(* their hash is taken to be injective.                                    *)
(***************************************************************************)
EXTENDS Integers, SequencesExt, FiniteSetsExt, Functions

CONSTANTS
    Name,         \* names of entries
    Top,          \* HPREFIX, the host's directory under "/"
    Disk,         \* the host's directory that can be mounted (systemfs)
    Hidden,       \* the entry of HPREFIX that no guest is to see (".hyclone")
    MaxDepth,     \* bound: names in a physical path
    MaxNodes,     \* bound: entries of the host
    MaxIno,       \* bound: inodes ever made
    MaxMoved,     \* bound: inodes that were ever moved
    MaxRefs,      \* bound: entry refs that are registered at a time, those of mount points aside
    MaxMounts,    \* bound: volumes mounted by guests at a time
    PathLen,      \* bound: components of a path that a guest gives
    Requests,     \* bound: paths that the calls are given, of AllRequests
    Targets,      \* where links lead: [abs, path]
    MaxLinks      \* links of a chain: at this length the server is taken to loop

Up == ".."

ASSUME NamespaceAssumption ==
    /\ Name \cap {Up, Hidden} = {} /\ Hidden # Up /\ Top # Disk /\ {MaxDepth, PathLen, MaxLinks} \subseteq Nat \ {0}

VARIABLES
    tree,    \* host: [kind, ino, to] of each physical path
    mounts,  \* _deviceMounts and _devices: [kind, at, dev] of each mount point
    entryRefs,    \* _entryRefs: the path of each <<device, inode>>
    root,    \* Process::_root
    cwd,     \* Process::_cwd
    fd,      \* Process::_fds: the path of a directory that is open, or NoFd
    at,      \* host: the inodes of the current directory and of the descriptor,
             \* and whether the descriptor was opened from one the server has wrong
    moved    \* history: inodes that changed their path, with all below them

namespaceVars == <<tree, mounts, entryRefs, root, cwd, fd, at, moved>>

NoFd == "closed"
NoLink == [abs |-> FALSE, path |-> <<>>]
Node(kind, ino, to) == [kind |-> kind, ino |-> ino, to |-> to]
DirNode(ino) == Node("dir", ino, NoLink)
Physical(n) == UNION {[1..k -> Name] : k \in 0..n}
Components(n) == UNION {[1..k -> Name \cup {Hidden, Up}] : k \in 1..n}
\* What a guest can give as a path: absolute or relative
AllRequests == [abs : BOOLEAN, path : Components(PathLen)]
From(s, n) == SubSeq(s, n + 1, Len(s))

NamespaceInit ==
    /\ tree = (<<Top>> :> DirNode(1)) @@ (<<Disk>> :> DirNode(2)) @@ (<<Top, Hidden>> :> DirNode(3))
    /\ mounts = (<<>> :> [kind |-> "host", at |-> <<Top>>, dev |-> 1])
    /\ entryRefs = (<<1, 1>> :> <<>>)
    /\ root = <<>> /\ cwd = <<>> /\ fd = NoFd
    /\ at = [cwd |-> 1, fd |-> 0, astray |-> FALSE]
    /\ moved = {}

-----------------------------------------------------------------------------
(* Walking a tree one component at a time, as the host's kernel does.  It is
   external; the reference for guests is the same walk in their own tree. *)

The(set) == CHOOSE x \in set : TRUE
Found(p) == [status |-> "ok", path |-> p]
Outside == <<"outside">>
Component == Name \cup {Up, Top, Disk, Hidden}
\* t: the tree; done, todo: where we are and what is left; follow: a link at
\* the end too; top: the root, or Outside where absolute links leave the tree
Walk(t, done, todo, follow, top, fuel) ==
    LET walk[s \in [done : Seq(Component), todo : Seq(Component), fuel : Nat]] ==
            IF s.todo = <<>> THEN Found(s.done)
            ELSE LET p == Append(s.done, Head(s.todo))
                     rest == Tail(s.todo)
                     there == p \in DOMAIN t
                     up == IF s.done \in {top, <<>>} THEN s.done ELSE Front(s.done)
                 IN  CASE Head(s.todo) = Up -> walk[[s EXCEPT !.done = up, !.todo = rest]]
                       [] Head(s.todo) # Up /\ ~there -> [status |-> "absent", path |-> p \o rest]
                       [] there /\ t[p].kind = "link" /\ (follow \/ rest # <<>>) ->
                            IF s.fuel = 0 THEN [status |-> "loop", path |-> p]
                            ELSE IF t[p].to.abs /\ top = Outside THEN [status |-> "absent", path |-> p]
                            ELSE walk[[done |-> IF t[p].to.abs THEN top ELSE s.done,
                                       todo |-> t[p].to.path \o rest, fuel |-> s.fuel - 1]]
                       [] there /\ t[p].kind = "file" /\ rest # <<>> ->
                            [status |-> "not a directory", path |-> p]
                       [] OTHER -> walk[[s EXCEPT !.done = p, !.todo = rest]]
    IN  walk[[done |-> done, todo |-> todo, fuel |-> fuel]]

Lstat(host) == Walk(tree, <<>>, host, FALSE, Outside, MaxLinks)

-----------------------------------------------------------------------------
(* The virtual file system *)

\* The mount point a path lies under: _DoWork goes up until it meets one.
Drive(p) == CHOOSE m \in DOMAIN mounts :
    IsPrefix(m, p) /\ \A n \in DOMAIN mounts : IsPrefix(n, p) => Len(n) <= Len(m)
Cursor == [done : Seq(Component), todo : Seq(Component)]
\* ".." is taken out, where it would lead above the first n components too.
Jailed(path, n) ==
    LET clean[s \in Cursor] ==
            IF s.todo = <<>> THEN s.done
            ELSE clean[[todo |-> Tail(s.todo),
                        done |-> IF Head(s.todo) # Up THEN Append(s.done, Head(s.todo))
                                 ELSE IF Len(s.done) > n THEN Front(s.done) ELSE s.done]]
    IN  clean[[done |-> <<>>, todo |-> path]]
\* lexically_normal of an absolute path
Normal(path) == Jailed(path, 0)

Done(status, p, again) == [status |-> status, path |-> p, again |-> again]

\* Where a link leads from that is component i of a path below the mount point m
LinkDirAtLink(m, p, i, to) == IF to.abs THEN root ELSE SubSeq(p, 1, Len(m) + i)
LinkDir(m, p, i, to) == IF to.abs THEN root ELSE SubSeq(p, 1, Len(m) + i - 1)
\* HostfsDevice::GetPath: the first link on the way is put in, and the caller
\* starts again; without one the host's path is the answer.
HostLookup(m, p, follow, rel, base, whole) ==
    LET missing == {i \in DOMAIN rel : base \o SubSeq(rel, 1, i) \notin DOMAIN tree}
        links == {i \in DOMAIN rel : /\ \A j \in missing : i < j
                                     /\ tree[base \o SubSeq(rel, 1, i)].kind = "link"
                                     /\ (follow \/ i < Len(rel))}
        Via(i, to) == Normal(LinkDir(m, p, i, to) \o to.path \o From(rel, i))
    IN  IF whole \in {"not a directory", "loop"} THEN Done(whole, p, follow)
        ELSE IF links # {}
        THEN The({Done("ok", Via(i, tree[base \o SubSeq(rel, 1, i)].to), TRUE) : i \in {Min(links)}})
        ELSE Done(IF missing = {} /\ base \in DOMAIN tree THEN "ok" ELSE "absent", base \o rel, FALSE)
\* RootfsDevice::_IsBlacklisted; a hostfs of another volume hides nothing.
IsBlacklisted(host) == IsPrefix(<<Top, Hidden>>, host)
HostGetPath(m, p, follow) ==
    LET rel == From(p, Len(m))
        host == mounts[m].at \o rel
    IN  IF IsBlacklisted(host) THEN Done("absent", p, follow)
        ELSE HostLookup(m, p, follow, rel, mounts[m].at, Lstat(host).status)

\* lexically_relative of two absolute paths
Relative(p, base) ==
    LET same == Max({k \in 0..Len(base) : IsPrefix(SubSeq(base, 1, k), p)}) IN
    [i \in 1..Len(base) - same |-> Up] \o From(p, same)

\* BindfsDevice::_TransformPath
TransformPath(m, p) == mounts[m].at \o From(p, Len(m))

Lookup == [path : Seq(Component), fuel : Nat]
\* VfsService::GetPath with _DoWork.  A bind mount leaves isSymlink alone, so
\* that a path that was to be followed is looked up again, now as the host's.
GetPath(path, follow) ==
    LET get[s \in Lookup] ==
            LET m == Drive(s.path)
                step == IF mounts[m].kind = "host" THEN HostGetPath(m, s.path, follow)
                        ELSE [get[[path |-> TransformPath(m, s.path), fuel |-> s.fuel - 1]] EXCEPT !.again = follow]
            IN  IF s.fuel = 0 THEN Done("loop", s.path, FALSE)
                ELSE The({IF r.status # "ok" \/ ~r.again THEN r
                          ELSE get[[path |-> r.path, fuel |-> s.fuel - 1]] : r \in {step}})
    IN  get[[path |-> path, fuel |-> MaxLinks]]
\* VfsService::RealPath of a normal path: the driver turns the host's path back.
RealPath(path) ==
    LET real[s \in Lookup] ==
            LET m == Drive(s.path)
                bind == mounts[m].kind = "bind"
                got == IF bind THEN [real[[path |-> TransformPath(m, s.path), fuel |-> s.fuel - 1]]
                                        EXCEPT !.again = FALSE]
                       ELSE HostGetPath(m, s.path, TRUE)
                Back(p) == m \o IF bind THEN Relative(p, mounts[m].at) ELSE From(p, Len(mounts[m].at))
            IN  IF s.fuel = 0 THEN Done("loop", s.path, FALSE)
                ELSE The({IF ~r.again THEN [r EXCEPT !.path = Back(@)]
                          ELSE IF r.status # "ok" THEN r
                          ELSE real[[path |-> r.path, fuel |-> s.fuel - 1]] : r \in {got}})
    IN  real[[path |-> path, fuel |-> MaxLinks]]

\* parent_path
ParentPath(p) == IF p = <<>> THEN p ELSE Front(p)
\* RealPath of any path: what is before a ".." is resolved first.
RealPathUp(path) ==
    LET go[s \in Cursor] ==
            IF s.todo = <<>> THEN RealPath(s.done)
            ELSE IF Head(s.todo) # Up
            THEN go[[done |-> Append(s.done, Head(s.todo)), todo |-> Tail(s.todo)]]
            ELSE The({IF r.status # "ok" THEN Done(r.status, ParentPath(r.path) \o Tail(s.todo), FALSE)
                      ELSE IF Up \in Range(r.path)
                      THEN go[[done |-> <<>>, todo |-> ParentPath(r.path) \o Tail(s.todo)]]
                      ELSE go[[done |-> ParentPath(r.path), todo |-> Tail(s.todo)]] : r \in {RealPath(s.done)}})
    IN  go[[done |-> <<>>, todo |-> path]]

NoStat(status) == [status |-> status, ref |-> <<0, 0>>, kind |-> "none"]
\* VfsService::ReadStat.  Below a bind mount a path to be followed is looked up
\* again by its bound name, and the stat is that of the bound volume.
ReadStat(path, follow) ==
    LET read[s \in Lookup] ==
            LET m == Drive(s.path)
                host == mounts[m].kind = "host"
                got == IF host THEN HostGetPath(m, s.path, follow)
                       ELSE Done("ok", TransformPath(m, s.path), follow)
                Next(p) == [path |-> p, fuel |-> s.fuel - 1]
                Stat(g) == IF ~host THEN [read[Next(g.path)] EXCEPT !.ref[1] = mounts[m].dev]
                           ELSE IF g.status # "ok" \/ g.again THEN NoStat(g.status)
                           ELSE [status |-> "ok", ref |-> <<mounts[m].dev, tree[g.path].ino>>,
                                 kind |-> tree[g.path].kind]
            IN  IF s.fuel = 0 THEN NoStat("loop")
                ELSE The({IF x[2].status # "ok" \/ ~x[1].again THEN x[2] ELSE read[Next(x[1].path)] :
                          x \in {<<g, Stat(g)>> : g \in {got}}})
    IN  read[[path |-> path, fuel |-> MaxLinks]]

-----------------------------------------------------------------------------
(* Process::ReadDirFd and the calls of a guest *)

Resolved(given, follow) ==
    IF follow \/ given = <<>> THEN RealPathUp(given).path
    ELSE Append(RealPathUp(Front(given)).path, Last(given))
ReadDirFd(base, req, follow) ==
    The({IF ~req.abs /\ ~IsPrefix(root, base) THEN Normal(real) ELSE Jailed(real, Len(root)) :
         real \in {Resolved((IF req.abs THEN root ELSE base) \o req.path, follow)}})

\* vchroot_expandat: the guest's path, made absolute, and the host's
Expand(base, req, follow) ==
    The({[name |-> x[1], status |-> x[2].status, path |-> x[2].path] :
         x \in {<<name, GetPath(name, follow)>> : name \in {ReadDirFd(base, req, follow)}}})
\* What a guest can name
Named(follow) == {Expand(cwd, req, follow) : req \in Requests}

\* read_stat of the server, with the path that ReadDirFd made
StatOf(e, follow) == ReadStat(e.name, follow)
\* _moni_read_stat of a descriptor: of what the server does not find the host
\* tells, with its own number of the volume.
HostDev == 0
FdStat ==
    The({IF s.status = "absent" THEN [status |-> "ok", ref |-> <<HostDev, at.fd>>, kind |-> "dir"] ELSE s :
         s \in {StatOf(Expand(fd, NoLink, FALSE), FALSE)}})

\* register_entry_ref, as register_fd and RegisterDevice do it
Registered(rs, p, stat) ==
    IF stat.status = "ok" THEN [r \in DOMAIN rs \cup {stat.ref} |-> IF r = stat.ref THEN p ELSE rs[r]]
    ELSE rs

\* Where a path ends that goes through bind mounts
Bound(path) ==
    LET bound[p \in Seq(Component)] ==
            IF mounts[Drive(p)].kind = "host" THEN p ELSE bound[TransformPath(Drive(p), p)]
    IN  bound[path]
\* The volume whose stat a path that is followed has, and its path on the host
VolumeOf(p) == mounts[Drive(Bound(p))].dev
HostOf(p) == LET q == Bound(p) IN mounts[Drive(q)].at \o From(q, Len(Drive(q)))

Below(p) == {q \in DOMAIN tree : IsPrefix(p, q)}
IsDir(p) == p \in DOMAIN tree /\ tree[p].kind = "dir"
NewIno == 1 + Max({tree[p].ino : p \in DOMAIN tree} \cup moved)
\* Entries are moved, and with a link the node that is known by its name.
Moves(inos) ==
    LET known == {r \in DOMAIN entryRefs : HostOf(entryRefs[r]) \in DOMAIN tree /\ tree[HostOf(entryRefs[r])].ino \in inos} IN
    moved' = moved \cup inos \cup {r[2] : r \in known} /\ Cardinality(moved') <= MaxMoved
\* The host makes an entry.
CanMake(p) ==
    /\ p \notin DOMAIN tree /\ Len(p) > 1 /\ IsDir(Front(p))
    /\ Len(p) <= MaxDepth + 1 /\ Cardinality(DOMAIN tree) < MaxNodes
Make(p, node) == CanMake(p) /\ tree' = (p :> node) @@ tree

CreateDir(e) ==
    /\ e.status \in {"ok", "absent"} /\ NewIno <= MaxIno
    /\ Make(e.path, DirNode(NewIno))
    /\ UNCHANGED <<mounts, entryRefs, root, cwd, fd, at, moved>>
CreateSymlink(e, to) ==
    /\ e.status \in {"ok", "absent"} /\ NewIno <= MaxIno
    /\ Make(e.path, Node("link", NewIno, to))
    /\ UNCHANGED <<mounts, entryRefs, root, cwd, fd, at, moved>>
CreateLink(e, to) ==
    /\ e.status \in {"ok", "absent"} /\ to.status = "ok"
    /\ to.path \in DOMAIN tree /\ tree[to.path].kind # "dir"
    /\ Make(e.path, tree[to.path])
    /\ UNCHANGED <<mounts, entryRefs, root, cwd, fd, at, moved>>

\* read_link
ReadLink(e) == IF e.path \in DOMAIN tree /\ tree[e.path].kind = "link" THEN tree[e.path].to ELSE NoLink

\* open and open_dir; only a directory is kept open, a file is closed again.
Open(e) ==
    /\ e.status = "ok" /\ e.path \in DOMAIN tree /\ Len(e.name) <= MaxDepth
    /\ entryRefs' = Registered(entryRefs, e.name, ReadStat(e.name, TRUE))
    /\ IF IsDir(e.path) THEN fd' = e.name /\ at' = [at EXCEPT !.fd = tree[e.path].ino, !.astray = at.cwd \in moved \cup {0}]
       ELSE UNCHANGED <<fd, at>>
    /\ UNCHANGED <<tree, mounts, root, cwd, moved>>
\* What a guest is told of a path: below its root it loses the root.  (getcwd,
\* normalize_path, get_entry_ref)
GuestName(p) == [abs |-> TRUE, path |-> IF IsPrefix(root, p) THEN From(p, Len(root)) ELSE p]
\* get_entry_ref of a ref and a name below it; <<>> stands for "."
EntryRefPath(r, name, follow) ==
    IF name = <<>> THEN Found(entryRefs[r])
    ELSE IF ~follow THEN Found(Normal(entryRefs[r] \o name))
    ELSE LET real == RealPathUp(entryRefs[r] \o name) IN [status |-> real.status, path |-> Normal(real.path)]
\* open_entry_ref and open_dir_entry_ref
ByRef(r, name, follow) == Expand(cwd, GuestName(EntryRefPath(r, name, follow).path), FALSE)
OpenEntryRef(r, name, follow) ==
    /\ EntryRefPath(r, name, follow).status = "ok"
    /\ Open(ByRef(r, name, follow))
\* A mount point, or bound to one, perhaps through others
Crosses(p) ==
    LET crosses[q \in Seq(Component)] ==
            q \in DOMAIN mounts \/ (mounts[Drive(q)].kind = "bind" /\ crosses[TransformPath(Drive(q), q)])
    IN  crosses[p]
\* open_parent_dir: the host opens its own parent, the server takes a name off.
OpenParentDir ==
    LET here == {p \in DOMAIN tree : tree[p].ino = at.fd}
        up == ParentPath(fd)
    IN  /\ fd # NoFd /\ here # {}
        /\ fd' = up
        /\ entryRefs' = Registered(entryRefs, up, ReadStat(up, TRUE))
        /\ at' = [at EXCEPT !.fd = LET p == The(here) IN IF Len(p) = 1 THEN 0 ELSE tree[Front(p)].ino,
                             !.astray = @ \/ Crosses(fd) \/ at.fd \in moved]
        /\ UNCHANGED <<tree, mounts, root, cwd, moved>>
\* transform_dirent: the entry of an open directory, by the server's name of it;
\* of a bind mount it is the bound entry.
EntryOf(n) == Append(Bound(fd), n)
\* HostfsDevice::TransformDirent tells of an entry and registers its ref.
TransformDirent(p) == entryRefs' = Registered(entryRefs, p, ReadStat(p, FALSE))
\* readdir: the host has the entry; "." and ".." are not registered.
ReadDir(n) ==
    /\ fd # NoFd
    /\ \E p \in DOMAIN tree : Last(p) = n /\ Len(p) > 1 /\ tree[Front(p)].ino = at.fd
    /\ TransformDirent(EntryOf(n))
    /\ UNCHANGED <<tree, mounts, root, cwd, fd, at, moved>>
\* open with O_CREAT
OpenNew(e) ==
    /\ e.status = "absent" /\ NewIno <= MaxIno
    /\ Make(e.path, Node("file", NewIno, NoLink))
    /\ entryRefs' = Registered(entryRefs, e.name, [status |-> "ok", ref |-> <<VolumeOf(e.name), NewIno>>])
    /\ UNCHANGED <<mounts, root, cwd, fd, at, moved>>

Unlink(e) ==
    /\ e.status = "ok" /\ e.path \in DOMAIN tree /\ tree[e.path].kind # "dir"
    /\ tree' = Restrict(tree, DOMAIN tree \ {e.path})
    /\ Moves({tree[e.path].ino})
    /\ UNCHANGED <<mounts, entryRefs, root, cwd, fd, at>>
\* remove_dir looks at no status: when the path cannot be expanded, the host
\* is given what the stack holds, perhaps the name of another directory.
RemoveDir(e) ==
    \E p \in IF e.status \in {"ok", "absent"} THEN {e.path} ELSE DOMAIN tree :
        /\ IsDir(p) /\ Below(p) = {p} /\ Len(p) > 1
        /\ tree' = Restrict(tree, DOMAIN tree \ {p})
        /\ Moves({tree[p].ino})
        /\ UNCHANGED <<mounts, entryRefs, root, cwd, fd, at>>
Rename(e, n) ==
    LET Target(p) == n.path \o From(p, Len(e.path))
        gone == Below(e.path) \cup Below(n.path)
    IN  /\ e.status = "ok" /\ e.path \in DOMAIN tree /\ Len(e.path) > 1
        /\ n.status \in {"ok", "absent"} /\ Len(n.path) > 1 /\ IsDir(Front(n.path))
        /\ ~IsPrefix(e.path, n.path) /\ ~IsPrefix(n.path, e.path)
        /\ n.path \in DOMAIN tree =>
            /\ Below(n.path) = {n.path} /\ IsDir(n.path) = IsDir(e.path)
            /\ tree[n.path].ino # tree[e.path].ino
        /\ \A p \in Below(e.path) : Len(Target(p)) <= MaxDepth + 1
        /\ tree' = [p \in (DOMAIN tree \ gone) \cup {Target(q) : q \in Below(e.path)} |->
                     IF IsPrefix(n.path, p) THEN tree[e.path \o From(p, Len(n.path))] ELSE tree[p]]
        /\ Moves({tree[p].ino : p \in gone})
        /\ UNCHANGED <<mounts, entryRefs, root, cwd, fd, at>>

\* get_extended_team_info registers a ref of the current directory.
GetExtendedTeamInfo ==
    /\ entryRefs' = Registered(entryRefs, cwd, ReadStat(cwd, TRUE))
    /\ UNCHANGED <<tree, mounts, root, cwd, fd, at, moved>>
\* getcwd
GetCwd == GuestName(cwd)
\* setcwd of the server, after that of the host, which has checked
ServerSetCwd(e) == cwd' = e.name
\* setcwd with a path, or with a descriptor alone (fchdir)
SetCwd(e) ==
    /\ e.status = "ok" /\ IsDir(e.path)
    /\ ServerSetCwd(e)
    /\ at' = [at EXCEPT !.cwd = tree[e.path].ino]
    /\ UNCHANGED <<tree, mounts, entryRefs, root, fd, moved>>
\* Where the host's current directory is after a chroot: without a directory it
\* stays where it was (an inode of 0 stands for that).
RootDir(name) == LET host == GetPath(name, FALSE) IN IF IsDir(host.path) THEN tree[host.path].ino ELSE 0
\* change_root asks for no directory.
ChangeRoot(e) ==
    /\ Len(e.name) < MaxDepth
    /\ root' = e.name /\ cwd' = e.name
    /\ at' = [at EXCEPT !.cwd = RootDir(e.name)]
    /\ UNCHANGED <<tree, mounts, entryRefs, fd, moved>>

\* Entries that change their path as m is mounted or unmounted
Covered(m) == {tree[h].ino : h \in Below(HostOf(m))}

\* BindfsDevice::Mount and SystemfsDevice::Mount
BindVolume(source) == [kind |-> "bind", at |-> RealPathUp(source.path).path, dev |-> 2]
SystemVolume == [kind |-> "host", at |-> <<Disk>>, dev |-> 2]
\* RegisterDevice: the root of the volume gets a ref.
RegisterDevice(e, volume, stat) ==
    /\ mounts' = (e.name :> volume) @@ mounts
    /\ entryRefs' = Registered(entryRefs, e.name, [stat EXCEPT !.ref[1] = volume.dev])
\* mount of a systemfs, or of a bindfs of an absolute path.  Left out are a mount
\* over a mount point, a bind mount of what it covers (looking it up never ends),
\* and unmounting "/".
MountVolume(e, source) ==
    LET st == ReadStat(e.name, FALSE)
        bound == RealPathUp(source.path)
        stat == IF source.abs THEN ReadStat(bound.path, FALSE)
                ELSE [status |-> "ok", ref |-> <<2, tree[<<Disk>>].ino>>]
    IN  /\ Cardinality(DOMAIN mounts) <= MaxMounts
        /\ RealPath(e.name).status = "ok" /\ st.status = "ok" /\ st.kind = "dir"
        /\ e.name \notin DOMAIN mounts
        /\ source.abs => bound.status = "ok" /\ ~IsPrefix(e.name, bound.path)
        /\ RegisterDevice(e, IF source.abs THEN BindVolume(source) ELSE SystemVolume, stat)
        /\ Moves(Covered(e.name))
        /\ UNCHANGED <<tree, root, cwd, fd, at>>
UnmountVolume(e) ==
    /\ RealPath(e.name).status = "ok" /\ e.name \in DOMAIN mounts \ {<<>>}
    /\ entryRefs' = Restrict(entryRefs, {x \in DOMAIN entryRefs : x[1] # mounts[e.name].dev})
    /\ mounts' = Restrict(mounts, DOMAIN mounts \ {e.name})
    /\ Moves(Covered(e.name))
    /\ UNCHANGED <<tree, root, cwd, fd, at>>

NamedStep(literal, followed) ==
    \/ \E e \in literal :
        \/ CreateDir(e) \/ OpenNew(e) \/ Open(e) \/ Unlink(e) \/ RemoveDir(e)
        \/ \E to \in Targets : CreateSymlink(e, to)
        \/ \E other \in literal : CreateLink(e, other) \/ Rename(e, other)
    \/ \E e \in followed :
        \/ OpenNew(e) \/ Open(e) \/ SetCwd(e) \/ ChangeRoot(e) \/ UnmountVolume(e)
        \/ \E to \in Targets : MountVolume(e, to)
        \/ \E new \in literal : CreateLink(new, e)
NamespaceStep ==
    /\ \/ \E names \in {<<Named(FALSE), Named(TRUE)>>} : NamedStep(names[1], names[2])
       \/ fd # NoFd /\ SetCwd(Expand(fd, NoLink, TRUE))
       \/ OpenParentDir \/ GetExtendedTeamInfo
       \/ \E n \in Name \cup {Hidden} : ReadDir(n)
       \/ \E r \in DOMAIN entryRefs, name \in {<<>>} \cup {<<n>> : n \in Name}, follow \in BOOLEAN : OpenEntryRef(r, name, follow)
    /\ Cardinality({r \in DOMAIN entryRefs' : entryRefs'[r] \notin DOMAIN mounts'}) <= MaxRefs

-----------------------------------------------------------------------------
(* Properties *)

\* The tree of the guests, by physical paths
GuestTree ==
    LET here == {p \in Physical(MaxDepth + 1) : HostOf(p) \in DOMAIN tree} IN
    [p \in here |-> tree[HostOf(p)]]
Refer(t, req, follow) ==
    Walk(t, IF req.abs THEN root ELSE cwd, req.path, follow, root, MaxLinks - 1)

\* The root and the current directory are still where the server has them.
Stays(t, p) == p = <<>> \/ (Walk(t, <<>>, p, FALSE, <<>>, 0) = Found(p) /\ t[p].kind = "dir")
Climbs(req) == Up \in Range(req.path) \/ \E p \in DOMAIN tree : Up \in Range(tree[p].to.path)

\* What a guest names is what the server finds: over links, mounts, roots and
\* current directories, the path that ReadDirFd and GetPath make out of the
\* guest's leads the host to the entry that a walk in the guest's own tree ends
\* at, read_stat and read_link tell of the same entry, and the name that
\* normalize_path gives back leads to it.  Left out are paths with ".." under a
\* changed root, links to follow through a bind mount (GetPath of bindfs looks
\* the host's path up again), and roots, current directories and mount points
\* that have been moved away.  The entry that rootfs hides is found by no name.
NamesAgree ==
    LET t == GuestTree IN
    /\ \A req \in Requests, follow \in BOOLEAN :
        LET got == Expand(cwd, req, follow) IN got.status = "ok" => ~IsBlacklisted(got.path)
    /\ (IsPrefix(root, cwd) /\ \A p \in {root, cwd} \cup DOMAIN mounts : Stays(t, p)) =>
      \A req \in AllRequests, follow \in BOOLEAN :
          LET ref == Refer(t, req, follow)
              got == Expand(cwd, req, follow)
          IN  ref.status = "ok" /\ (root = <<>> \/ ~Climbs(req))
                  /\ (follow => mounts[Drive(got.name)].kind = "host") =>
                  /\ got.status = "ok" /\ got.path = HostOf(ref.path)
                  /\ ReadLink(got) = t[ref.path].to
                  /\ StatOf(got, follow).ref[2] = t[ref.path].ino
                  /\ Expand(cwd, GuestName(got.name), follow).path = got.path

\* An entry ref leads its guest to the node it was made for, and with a name to
\* what that has under the name, unless the node was moved or lies outside the
\* guest's root, or the ref was made by opening a link without following it: then
\* the node is known by the name of the link, and what it leads to depends on who
\* asks.  (get_entry_ref, then vchroot_expandat of what it returned)
ByLink(p) == HostOf(p) \in DOMAIN tree /\ tree[HostOf(p)].kind = "link"
RefsLead ==
    LET t == GuestTree IN
    \A r \in DOMAIN entryRefs : (r[2] \notin moved /\ ~ByLink(entryRefs[r]) /\ IsPrefix(root, entryRefs[r])) =>
        /\ LET e == ByRef(r, <<>>, FALSE) IN e.status = "ok" /\ tree[e.path].ino = r[2]
        /\ \A n \in Name :
            LET ref == Walk(t, entryRefs[r], <<n>>, TRUE, root, MaxLinks - 1)
                e == ByRef(r, <<n>>, TRUE)
            IN  ref.status = "ok" /\ IsPrefix(root, ref.path) =>
                    e.status = "ok" /\ e.path = HostOf(ref.path)

\* The directories that the server has for a process, the current one and one
\* behind a descriptor, are the host's, and what the guest is told of the
\* current one leads back to it.  The parent of a mount point is not: the host
\* opens the parent of what is mounted.  (setcwd, getcwd, register_fd,
\* register_parent_dir_fd, read_stat)
DirsAgree ==
    /\ at.cwd \notin moved \cup {0} =>
        /\ LET s == ReadStat(cwd, TRUE) IN s.status = "ok" /\ s.ref[2] = at.cwd
        /\ IsPrefix(root, cwd) =>
            LET e == Expand(cwd, GetCwd, FALSE) IN e.status = "ok" /\ tree[e.path].ino = at.cwd
    /\ (fd # NoFd /\ ~at.astray /\ at.fd \notin moved \cup {0}) =>
        \A s \in {FdStat} : s.status = "ok" /\ s.ref[1] # HostDev /\ s.ref[2] = at.fd
=============================================================================
