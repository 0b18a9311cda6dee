------------------------------ MODULE Packages ------------------------------
(***************************************************************************)
(* The packages of a packagefs volume and the files that it extracts on    *)
(* the host: hyclone_server/fs/packagefs.cpp over the tree of entries of   *)
(* hpkgvfs_analyze (Entry.cpp, Package.cpp).  A mount or a request to      *)
(* change what is active builds the tree anew from the packages that it    *)
(* finds installed, without their data, changes the tree package by        *)
(* package and writes it to the disk after each.                           *)
(* A place is of one kind in all packages, a package brings the            *)
(* directories above its files, no two packages give a file the same time, *)
(* and a request names a package once.                                     *)
(***************************************************************************)
EXTENDS Integers, SequencesExt

CONSTANTS
    Package,     \* file names of packages; the installed copy is a place, too
    Later,       \* a time after all those of packages
    Place,       \* what there can be below the root of the volume
    Top,         \* the root
    Up,          \* the directory of a place
    Kind,        \* "file", "link" or "dir"
    RootEntries, \* directories that are there without a package, shining through
    Toc,         \* what a version of a package, made at that time, holds: [time, writable, attrs] of each place
    Self,        \* the link of a package in package-links
    Libroot,     \* the place of libroot.so
    AttrName,    \* names of attributes, as sequences of characters
    Labelled,    \* bound: the places and the names under which guests write attributes
    MaxWrites    \* bound: how long an attribute may be that a guest writes on in

ASSUME PackagesAssumption ==
    /\ Package \subseteq Place /\ Later \in Nat /\ Top \notin Place
    /\ \A p \in Place : Kind[p] \in {"file", "link", "dir"} /\ Up[p] \in Place \cup {Top}
    /\ \A k \in Package : \A v \in DOMAIN Toc[k] : \A p \in DOMAIN Toc[k][v] :
          Up[p] \in RootEntries \cup {Top} \cup DOMAIN Toc[k][v]

VARIABLES
    inUse,    \* the volume is mounted
    enabled,  \* the packages directory: the version of each package in it, or 0
    disk,     \* the extracted places: [data, time, writable]
    attrFile, \* the files below .hyclone.pkgfsattrs, by place and by their own names
    attrs,    \* history: the attributes, by place and name
    lost,     \* history: places that were uncovered when their data had been dropped
    edited    \* history: places that the user wrote last

packageVars == <<inUse, enabled, disk, attrFile, attrs, lost, edited>>

Nowhere == ""       \* the package of an entry that no package owns
NoData == <<>>     \* data that an entry has not kept, an empty file on the disk
ByUser == <<"user">>
ByServer == <<"libroot">>
Displaced == <<"displaced">>  \* attributes that were written elsewhere than at their start or end
NoTree == [stack |-> <<>>, changed |-> {}, gone |-> {}]

PackagesInit ==
    /\ inUse = FALSE
    /\ enabled = [k \in Package |-> 0]
    /\ disk = <<>>
    /\ attrFile = [p \in Place |-> <<>>]
    /\ attrs = [p \in Place |-> <<>>]
    /\ lost = {} /\ edited = {}

Above[p \in Place] == IF Up[p] = Top THEN {} ELSE {Up[p]} \cup Above[Up[p]]
ShinesThrough(p) == ({p} \cup Above[p]) \cap RootEntries # {}

-----------------------------------------------------------------------------
(* Package::GetRootEntry: the entries of one package.  An entry read without
   its data counts as updated, on the disk already, except that making a file
   writable and setting the target of the link take that back, for the
   directories above, too. *)
Contents == [k \in Package |-> [v \in DOMAIN Toc[k] |->
    LET own == [time |-> v, writable |-> FALSE, attrs |-> {}]
    IN  Toc[k][v] @@ (k :> own) @@ (Self[k] :> own)]]
Unset(k, v, p) == p = Self[k] \/ Contents[k][v][p].writable
\* The constructor of Entry from what the package says of it
EntryOf(k, v, p, dropData) ==
    [owners |-> {k}, data |-> IF dropData /\ p # Self[k] THEN NoData ELSE <<k, v>>, updated |-> dropData]
        @@ Contents[k][v][p]
FromAttribute(k, v, p, dropData) ==
    [EntryOf(k, v, p, dropData) EXCEPT
        !.updated = @ /\ \A q \in DOMAIN Contents[k][v] : q = p \/ p \in Above[q] => ~Unset(k, v, q)]
GetRootEntry == [k \in Package |-> [v \in DOMAIN Toc[k] |-> [dropData \in BOOLEAN |->
    [p \in DOMAIN Contents[k][v] |-> FromAttribute(k, v, p, dropData)]]]]

(* Entry::CreatePackageFsRootEntry *)
RootEntry ==
    [owners |-> {Nowhere}, time |-> 0, writable |-> TRUE, attrs |-> {}, data |-> NoData, updated |-> FALSE]
CreatePackageFsRootEntry ==
    [NoTree EXCEPT !.stack = [p \in Place |-> IF p \in RootEntries THEN <<RootEntry>> ELSE <<>>]]

-----------------------------------------------------------------------------
(* The tree: every place has a stack of entries, the first is the one shown *)

(* Entry::HasPrecedenceOver *)
HasPrecedenceOver(e, f) == e.time > f.time
\* The new one comes before the first that has no precedence over it.
AddChildLast(p, stack, e) == Append(stack, e)
AddChild(p, stack, e) ==
    IF Kind[p] = "dir"
    THEN IF stack = <<>> THEN <<e>>
         ELSE <<[stack[1] EXCEPT !.owners = @ \cup e.owners, !.updated = @ /\ e.updated,
                                 !.writable = @ \/ e.writable]>>
    ELSE LET i == SelectInSeq(stack, LAMBDA c : ~HasPrecedenceOver(c, e))
         IN  IF i = 0 THEN Append(stack, e) ELSE InsertAt(stack, i, e)
Merge(tree, k, v, dropData) ==
    [tree EXCEPT !.stack = [p \in Place |->
        IF p \in DOMAIN Contents[k][v] THEN AddChild(p, @[p], GetRootEntry[k][v][dropData][p]) ELSE @[p]]]

\* An entry that loses an owner has to be written again; one without owners goes.
WithoutOwner(stack, k) ==
    LET kept == SelectSeq(stack, LAMBDA e : e.owners # {k})
    IN  [i \in DOMAIN kept |-> IF k \in kept[i].owners
                               THEN [kept[i] EXCEPT !.owners = @ \ {k}, !.updated = FALSE]
                               ELSE kept[i]]
Uncovers(stack, k) == stack # <<>> /\ stack[1].owners = {k}
RemovePackage(tree, k) ==
    LET uncovered == {p \in Place : Uncovers(tree.stack[p], k)}
    IN  [stack |-> [p \in Place |-> WithoutOwner(tree.stack[p], k)],
         changed |-> tree.changed \cup uncovered,
         gone |-> tree.gone \cup {p \in uncovered : Kind[p] = "dir"}]

(* Entry::Drop.  What has not been written keeps its data: it is behind
   another entry and may come to the front. *)
DropData(tree) ==
    [tree EXCEPT !.stack = [p \in Place |-> [i \in DOMAIN @[p] |->
        IF i = 1 \/ @[p][i].updated THEN [@[p][i] EXCEPT !.data = NoData, !.updated = TRUE] ELSE @[p][i]]]]

-----------------------------------------------------------------------------
(* Entry::WriteToDisk *)

\* Writable files of a directory that shines through are the user's.
Spared(d, p) == Kind[p] # "link" /\ ShinesThrough(Up[p]) /\ p \in DOMAIN d /\ d[p].writable
IsRemoved(tree, d, p) ==
    /\ p \in tree.changed
    /\ Up[p] # Top => ~Spared(d, p)
Unlinked(tree, d) ==
    LET files == {p \in Place : Kind[p] # "dir" /\ IsRemoved(tree, d, p)}
        left == DOMAIN d \ files
    IN  files \cup {p \in tree.gone : \A q \in left : p \in Above[q] => Kind[q] = "dir" /\ q \in tree.gone}
Shown(tree, p) == tree.stack[p][1]
IsWritten(tree, p) ==
    \A q \in {p} \cup Above[p] : tree.stack[q] # <<>> /\ ~Shown(tree, q).updated
\* A file that is there stays if it may be written, or if it is not older.
IsKept(d, p, e) ==
    Kind[p] = "file" /\ p \in DOMAIN d /\ (e.writable \/ e.time <= d[p].time)
OnDisk(d, p, e) ==
    [data |-> IF IsKept(d, p, e) THEN d[p].data ELSE e.data, time |-> e.time,
     writable |-> e.writable /\ ShinesThrough(p)]

(* PackagefsDevice::_GetAttrPathInternal: how the file of an attribute is
   named.  The case of the underscore runs into the next one. *)
Escaped(c) ==
    CASE c = "/" -> <<"_", "s">> [] c = "." -> <<"_", "d">> [] c = "_" -> <<"_", "u", "_">> [] OTHER -> <<c>>
AttrPath(name) == FlattenSeq([i \in DOMAIN name |-> Escaped(name[i])])
(* PackagefsDevice::_UnescapeAttrName *)
UnescapeAttrName(file) ==
    LET Plain(c) == CASE c = "s" -> <<"/">> [] c = "d" -> <<".">> [] c = "u" -> <<"_">> [] OTHER -> <<"_", c>>
        From[i \in 1..(Len(file) + 2)] ==
            CASE i > Len(file) -> <<>>
              [] i <= Len(file) /\ file[i] # "_" -> <<file[i]>> \o From[i + 1]
              [] i = Len(file) /\ file[i] = "_" -> <<"_">>
              [] i < Len(file) /\ file[i] = "_" -> Plain(file[i + 1]) \o From[i + 2]
    IN  From[1]

\* PackagefsEntryWriter::WriteExtendedAttributes, as the parts that are written:
\* the names of the files, which are escaped, and what the package says
WriteExtendedAttributes(at, written, tree, escaped) ==
    [p \in Place |-> IF p \in written
                     THEN [f \in {IF escaped THEN AttrPath(n) ELSE n : n \in Shown(tree, p).attrs} |->
                              Shown(tree, p).data] @@ at[p]
                     ELSE at[p]]

(* A volume in the making: [tree, disk, files, attrs, lost] *)
WriteToDisk(w) ==
    LET removed == Unlinked(w.tree, w.disk)
        d == Restrict(w.disk, DOMAIN w.disk \ removed)
        written == {p \in Place : IsWritten(w.tree, p)}
        uncovered == {p \in removed \ written : w.tree.stack[p] # <<>>}
    IN  [tree |-> [stack |-> [p \in Place |->
                       IF p \in written THEN [w.tree.stack[p] EXCEPT ![1].updated = TRUE] ELSE w.tree.stack[p]],
                   changed |-> {}, gone |-> {}],
         disk |-> [p \in written |-> OnDisk(d, p, Shown(w.tree, p))] @@ d,
         files |-> WriteExtendedAttributes(w.files, written, w.tree, TRUE),
         attrs |-> WriteExtendedAttributes(w.attrs, written, w.tree, FALSE),
         lost |-> (w.lost \ written) \cup uncovered]

-----------------------------------------------------------------------------
(* What packagefs does with one package *)

Install(w, k, v) ==
    LET x == WriteToDisk([w EXCEPT !.tree = Merge(@, k, v, FALSE)]) IN [x EXCEPT !.tree = DropData(@)]
Uninstall(w, k) == WriteToDisk([w EXCEPT !.tree = RemovePackage(@, k)])
Update(w, k, v) == Install([w EXCEPT !.tree = RemovePackage(@, k)], k, v)

Installed(d) == Package \cap DOMAIN d
VersionOf(d, k) == d[k].data[2]
Preinstalled ==
    [tree |-> FoldLeft(LAMBDA t, k : Merge(t, k, VersionOf(disk, k), TRUE),
                       CreatePackageFsRootEntry, SetToSeq(Installed(disk))),
     disk |-> disk, files |-> attrFile, attrs |-> attrs, lost |-> lost]

(* PackagefsDevice::_CleanupAttributes, server_replace_libroot *)
CleanupAttributes(d, at) == [p \in Place |-> IF p \in DOMAIN d THEN at[p] ELSE <<>>]
ReplaceLibroot(d) ==
    IF Libroot \in DOMAIN d THEN [d EXCEPT ![Libroot].data = ByServer, ![Libroot].time = Later] ELSE d
Finish(w) ==
    LET d == ReplaceLibroot(w.disk)
    IN  /\ disk' = d
        /\ attrFile' = CleanupAttributes(d, w.files)
        /\ attrs' = CleanupAttributes(d, w.attrs)
        /\ lost' = w.lost
        /\ UNCHANGED edited

(* The constructor of PackagefsDevice.  The order of the maps is anyone's. *)
EnabledPackages == {k \in Package : enabled[k] # 0}
Refresh(w, k) ==
    CASE k \notin EnabledPackages -> Uninstall(w, k)
      [] enabled[k] > w.disk[k].time -> Update(w, k, enabled[k])
      [] OTHER -> w
MountPackages ==
    /\ ~inUse /\ inUse' = TRUE /\ UNCHANGED enabled
    /\ \E old \in SetToSeqs(Installed(disk)),
          new \in SetToSeqs(EnabledPackages \ Installed(disk)) :
        Finish(FoldLeft(LAMBDA w, k : Install(w, k, enabled[k]), FoldLeft(Refresh, Preinstalled, old), new))

(* PACKAGE_FS_OPERATION_CHANGE_ACTIVATION.  What is installed is found out
   once, before the first item. *)
Item == [type : {"activate", "deactivate", "reactivate"}, name : Package]
GetPackageInPackagesDirectory(k) == k \in EnabledPackages
Change(w, item) ==
    LET k == item.name
    IN  CASE k \notin Installed(disk) /\ item.type = "activate" /\ GetPackageInPackagesDirectory(k) ->
                Install(w, k, enabled[k])
          [] k \in Installed(disk) /\ item.type = "deactivate" -> Uninstall(w, k)
          [] k \in Installed(disk) /\ item.type = "reactivate" /\ GetPackageInPackagesDirectory(k) ->
                Update(w, k, enabled[k])
          [] OTHER -> w
ChangeActivation(items) ==
    /\ inUse /\ UNCHANGED <<inUse, enabled>>
    /\ Finish(FoldLeft(Change, Preinstalled, items))
Requests == {<<i>> : i \in Item} \cup {s \in Item \X Item : s[1].name # s[2].name}

(* PackagefsDevice::Cleanup, of an unmount *)
UnmountPackages ==
    /\ inUse /\ inUse' = FALSE /\ UNCHANGED <<enabled, edited>>
    /\ \E old \in SetToSeqs(Installed(disk)) :
        LET w == FoldLeft(Uninstall, Preinstalled, old)
        IN  /\ disk' = Restrict(w.disk, DOMAIN w.disk \ Package)
            /\ lost' = w.lost
    /\ attrFile' = [p \in Place |-> <<>>] /\ attrs' = [p \in Place |-> <<>>]
\* The server ends without unmounting.
EndServer ==
    /\ inUse /\ inUse' = FALSE
    /\ UNCHANGED <<enabled, disk, attrFile, attrs, lost, edited>>

-----------------------------------------------------------------------------
(* The guests *)

PutPackage(k, v) ==
    /\ enabled[k] # v /\ enabled' = [enabled EXCEPT ![k] = v]
    /\ UNCHANGED <<inUse, disk, attrFile, attrs, lost, edited>>
TakePackage(k) ==
    /\ enabled[k] # 0 /\ enabled' = [enabled EXCEPT ![k] = 0]
    /\ UNCHANGED <<inUse, disk, attrFile, attrs, lost, edited>>
EditFile(p) ==
    /\ inUse /\ p \in DOMAIN disk /\ Kind[p] = "file" /\ disk[p].writable
    /\ disk' = [disk EXCEPT ![p].data = ByUser, ![p].time = Later]
    /\ edited' = edited \cup {p}
    /\ UNCHANGED <<inUse, enabled, attrFile, attrs, lost>>
DeleteFile(p) ==
    /\ inUse /\ p \in DOMAIN disk /\ Kind[p] = "file" /\ disk[p].writable
    /\ disk' = Restrict(disk, DOMAIN disk \ {p})
    /\ edited' = edited \ {p}
    /\ UNCHANGED <<inUse, enabled, attrFile, attrs, lost>>

\* The files of attributes, as packagefs keeps them
HasAttr(p, name) == AttrPath(name) \in DOMAIN attrFile[p]
GetAttr(p, name) == attrFile[p][AttrPath(name)]
SetAttr(p, name, data) == attrFile' = [attrFile EXCEPT ![p] = (AttrPath(name) :> data) @@ @]
CutAttr(p, name) == attrFile' = [attrFile EXCEPT ![p] = Restrict(@, DOMAIN @ \ {AttrPath(name)})]

StatAttr(p, name) == HasAttr(p, name)
ReadAttr(p, name) == IF HasAttr(p, name) THEN GetAttr(p, name) ELSE <<>>
\* From the start an attribute is written anew; from any other position the
\* part lands at the end of what is there, if anything (ios::app).
Appended(p, name, pos) ==
    IF name \in DOMAIN attrs[p] /\ attrs[p][name] # Displaced /\ pos = Len(attrs[p][name])
    THEN Append(attrs[p][name], "user") ELSE Displaced
WriteAttr(p, name, pos) ==
    /\ inUse /\ p \in DOMAIN disk
    /\ pos # 0 => Len(ReadAttr(p, name)) < MaxWrites
    /\ SetAttr(p, name, IF pos = 0 THEN ByUser ELSE Append(ReadAttr(p, name), "user"))
    /\ attrs' = [attrs EXCEPT ![p] = (name :> IF pos = 0 THEN ByUser ELSE Appended(p, name, pos)) @@ @]
    /\ UNCHANGED <<inUse, enabled, disk, lost, edited>>
\* A new one is empty at first.
OpenAttr(p, name) ==
    /\ inUse /\ p \in DOMAIN disk /\ ~HasAttr(p, name)
    /\ SetAttr(p, name, <<>>)
    /\ attrs' = [attrs EXCEPT ![p] = (name :> <<>>) @@ @]
    /\ UNCHANGED <<inUse, enabled, disk, lost, edited>>
RemoveAttr(p, name) ==
    /\ inUse /\ HasAttr(p, name)
    /\ CutAttr(p, name)
    /\ attrs' = [attrs EXCEPT ![p] = Restrict(@, DOMAIN @ \ {name})]
    /\ UNCHANGED <<inUse, enabled, disk, lost, edited>>
\* The entries of the directory of attributes, as TransformDirent names them.
ListedAttrs(p) == {UnescapeAttrName(f) : f \in DOMAIN attrFile[p]}

PackagesStep ==
    \/ MountPackages \/ UnmountPackages \/ EndServer
    \/ \E items \in Requests : ChangeActivation(items)
    \/ \E k \in Package : (\E v \in DOMAIN Toc[k] : PutPackage(k, v)) \/ TakePackage(k)
    \/ \E p \in Place : EditFile(p) \/ DeleteFile(p)
    \/ \E <<p, n>> \in Labelled :
          (\E pos \in 0..MaxWrites : WriteAttr(p, n, pos)) \/ OpenAttr(p, n) \/ RemoveAttr(p, n)

-----------------------------------------------------------------------------
(* Properties *)

Providers(p) == {k \in Installed(disk) : p \in DOMAIN Contents[k][VersionOf(disk, k)]}
Newest(p) ==
    CHOOSE k \in Providers(p) : \A j \in Providers(p) :
        Contents[j][VersionOf(disk, j)][p].time <= Contents[k][VersionOf(disk, k)][p].time
UsersOwn(p) == Kind[p] = "file" /\ ShinesThrough(p)

(* After any series of mounts, unmounts, ends of the server and requests, the
   volume shows the files of the packages that it lists as installed: each
   place the newest one's, with the server's own libroot.so; nothing is left of
   a package that has gone; and a file that the user has edited stays as it is.
   Excepted are settings, and places that were uncovered when the entry behind
   had no data. *)
PackagesShown ==
    /\ \A p \in Place \ lost : Kind[p] # "dir" /\ ~UsersOwn(p) =>
          IF Providers(p) = {} THEN p \notin DOMAIN disk
          ELSE /\ p \in DOMAIN disk
               /\ disk[p].data = IF p = Libroot THEN ByServer ELSE <<Newest(p), VersionOf(disk, Newest(p))>>
    /\ \A p \in Place \ RootEntries : Kind[p] = "dir" /\ p \in DOMAIN disk =>
          Providers(p) # {} \/ \E q \in DOMAIN disk : p \in Above[q]
    /\ \A p \in edited : p \in DOMAIN disk /\ disk[p].data = ByUser
    /\ \A k \in Package : k \in DOMAIN disk => disk[k].data # NoData /\ disk[k].time = VersionOf(disk, k)

(* An attribute reads as what was written under its name, by a package or a
   guest: from its start, and then each part from the end of the one before.
   That is so whatever its name is made of.  A part that was meant for another
   position, in the middle or beyond the end, is appended all the same; such an
   attribute is excepted until it is written anew.  And the names that a listing
   gives are those that were written, as long as no underscore is among them. *)
AttrsReadBack ==
    \A p \in {q \in Place : attrFile[q] # <<>> \/ attrs[q] # <<>>} :
        /\ \A n \in AttrName :
              /\ StatAttr(p, n) <=> n \in DOMAIN attrs[p]
              /\ n \in DOMAIN attrs[p] => attrs[p][n] \in {ReadAttr(p, n), Displaced}
        /\ (\A n \in DOMAIN attrs[p] : "_" \notin ToSet(n)) => ListedAttrs(p) = DOMAIN attrs[p]
=============================================================================
