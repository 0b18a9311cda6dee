---------------------------- MODULE NodeMonitor -----------------------------
(***************************************************************************)
(* The node monitor (server_nodemonitor.cpp) with the lists that a process *)
(* keeps (io_context.cpp), the watches of the virtual file system          *)
(* (VfsService::AddMonitor, HostfsDevice) and the thread that reads the    *)
(* events of the host (server_inotify.cpp).                                *)
(*                                                                         *)
(* Watched are directories of the guest, which may lie over one directory  *)
(* of the host, a volume, and mounts.  A directory of the host has one     *)
(* entry that comes and goes.  A call runs under the lock of the node      *)
(* monitor or of the virtual file system, and is one step; the thread that *)
(* reads events takes one lock after the other.                            *)
(***************************************************************************)
EXTENDS Integers, SequencesExt, FiniteSetsExt, Functions

CONSTANTS
    Listener,    \* pairs of a port and a token
    Owner,       \* the team whose port it is
    Dir,         \* directories of the guest, by device and node
    Removable,   \* those whose volume is unmounted and mounted again
    HostDir,     \* the directory of the host under each
    Inode,       \* inodes that the entry can have
    NoInode,
    MaxMonitors, \* IoContext::MaxMonitors
    MaxTargets,  \* MAX_MESSAGING_TARGET_COUNT
    Wants,       \* bound: what a listener may ask for
    MaxEvents    \* bound: events of the host that are not read yet

Team == Range(Owner)
Watch == Range(HostDir)
Volume == "volume"
Mounts == "mounts"
Key == Dir \cup {Volume, Mounts}
\* what a guest asks for: B_WATCH_NAME, B_WATCH_DIRECTORY, B_WATCH_VOLUME, B_WATCH_MOUNT
Flags(k) == CASE k = Volume -> {{"volume", "name"}}
              [] k = Mounts -> {{"mount"}}
              [] OTHER -> {{"directory"}}

ASSUME NodeMonitorAssumption ==
    /\ Owner \in [Listener -> Team] /\ HostDir \in [Dir -> Watch] /\ Removable \subseteq Dir
    /\ NoInode \notin Inode /\ MaxTargets \in Nat \ {0} /\ {Volume, Mounts} \cap Dir = {}

VARIABLES
    there,   \* teams that are there
    mounted, \* directories whose volume is mounted
    mon,     \* _monitors and _volumeMonitors: the listeners of a key, in order
    ctx,     \* the IoContext of a team: its listeners
    vfsMon,  \* VfsService::_monitors
    native,  \* sInotifyListeners and sInotifyWatches
    events,  \* events in the host's queue
    reader,  \* the thread that reads them: what it is at, and for which directories
    entry,   \* host: the entry of each directory
    refs,    \* VfsService::_entryRefs: entries of directories by inode
    out,     \* what the last step asked to be told, and in which messages it was
    left     \* history: directories that one of several listeners has left

monitorVars == <<there, mounted, mon, ctx, vfsMon, native, events, reader, entry, refs, out, left>>

Unknown == [wd |-> NoInode, gone |-> FALSE]
Reading == [at |-> "read", dirs |-> {}]
Silent == [asked |-> <<>>, sent |-> <<>>, kept |-> <<>>]

NodeMonitorInit ==
    /\ there = Team /\ mounted = Dir
    /\ mon = <<>>
    /\ ctx = [t \in Team |-> {}]
    /\ vfsMon = {}
    /\ native = [listeners |-> <<>>, watches |-> <<>>]
    /\ events = <<>>
    /\ reader = Reading
    /\ entry = [w \in Watch |-> NoInode]
    /\ refs = {}
    /\ out = Silent
    /\ left = {}

\* Directories that a team that is there listens to, by its own list
Listened(c, ts) == {k \in Dir : \E t \in ts : \E x \in c[t] : x.k = k}

Put(f, k, v) == [x \in DOMAIN f \cup {k} |-> IF x = k THEN v ELSE f[x]]
Cut(f, ks) == Restrict(f, DOMAIN f \ ks)

-----------------------------------------------------------------------------
(* VfsService::AddMonitor and RemoveMonitor down to the host's watches *)

NativeAdd(n, d) ==
    LET w == HostDir[d]
        old == IF w \in DOMAIN n.listeners THEN n.listeners[w] ELSE {}
    IN  [listeners |-> Put(n.listeners, w, old \cup {d}), watches |-> Put(n.watches, d, w)]
\* mutant: the watch of the host goes with the first of its directories
NativeRemoveAll(n, d) ==
    [listeners |-> Cut(n.listeners, {n.watches[d]}), watches |-> Cut(n.watches, {d})]
NativeRemove(n, d) ==
    LET w == n.watches[d]
        rest == n.listeners[w] \ {d}
    IN  [listeners |-> IF rest = {} THEN Cut(n.listeners, {w}) ELSE Put(n.listeners, w, rest),
         watches |-> Cut(n.watches, {d})]

AddWatch(k) ==
    IF k \in mounted \ vfsMon
    THEN vfsMon' = vfsMon \cup {k} /\ native' = NativeAdd(native, k)
    ELSE UNCHANGED <<vfsMon, native>>
\* Events of a watch that is removed stay in the queue, and nobody knows them.
RemoveWatches(ks) ==
    LET gone == ks \cap vfsMon
        after == FoldSet(LAMBDA d, n : NativeRemove(n, d), native, gone)
    IN  /\ vfsMon' = vfsMon \ gone
        /\ native' = after
        /\ events' = [i \in DOMAIN events |->
                        IF events[i].wd \in DOMAIN after.listeners THEN events[i]
                        ELSE Unknown]

-----------------------------------------------------------------------------
(* start_watching, stop_watching, stop_notifying and the end of a team *)

Has(k, l) == k \in DOMAIN mon /\ \E i \in DOMAIN mon[k] : mon[k][i].l = l
Entries(k) == IF k \in DOMAIN mon THEN mon[k] ELSE <<>>
\* _RemoveListener, and _RemoveMonitor for the last one
Dropped(m, k, l) ==
    LET rest == SelectSeq(m[k], LAMBDA x : x.l # l) IN
    IF rest = <<>> THEN Cut(m, {k}) ELSE Put(m, k, rest)

\* _GetMonitor: the limit counts when a monitor has to be made.
Full(t, k) == k \notin DOMAIN mon /\ Cardinality(ctx[t]) >= MaxMonitors

\* _AddMonitorListener, or _UpdateListener for one that is there
Joined(k, l, flags) ==
    IF Has(k, l)
    THEN [mon EXCEPT ![k] = [i \in DOMAIN @ |->
            IF @[i].l = l THEN [@[i] EXCEPT !.flags = flags] ELSE @[i]]]
    ELSE Put(mon, k, Append(Entries(k), [l |-> l, flags |-> flags]))

\* UpdateUserListener
StartWatching(l, k, flags) ==
    LET t == Owner[l] IN
    /\ t \in there /\ ~Full(t, k)
    /\ mon' = Joined(k, l, flags)
    /\ IF Has(k, l) THEN UNCHANGED <<ctx, vfsMon, native>>
       ELSE ctx' = [ctx EXCEPT ![t] = @ \cup {[k |-> k, l |-> l]}] /\ AddWatch(k)
    /\ left' = left \cup ({k} \cap (Dir \ mounted))
    /\ out' = Silent
    /\ UNCHANGED <<there, mounted, events, reader, entry, refs>>

\* A team stops what it listens to itself: one key, or all of a listener.
StopWatching(l, ks) ==
    LET t == Owner[l]
        gone == {k \in ks : Has(k, l)}
    IN  /\ t \in there /\ gone # {}
        /\ mon' = FoldSet(LAMBDA k, m : Dropped(m, k, l), mon, gone)
        /\ ctx' = [ctx EXCEPT ![t] = {x \in @ : ~(x.l = l /\ x.k \in gone)}]
        /\ RemoveWatches(gone)
        /\ left' = (left \cup gone) \cap Listened(ctx', there)
        /\ out' = Silent
        /\ UNCHANGED <<there, mounted, reader, entry, refs>>

\* The IoContext of a process is destroyed: its watches go, and its listeners
\* stay in the monitors.
TeamLeaves(t) ==
    LET gone == {x.k : x \in ctx[t]} IN
    /\ t \in there
    /\ there' = there \ {t}
    /\ ctx' = [ctx EXCEPT ![t] = {}]
    /\ RemoveWatches(gone)
    /\ left' = (left \cup gone) \cap Listened(ctx', there')
    /\ out' = Silent
    /\ UNCHANGED <<mounted, mon, reader, entry, refs>>

-----------------------------------------------------------------------------
(* Notifications *)

\* _GetInterestedMonitorListeners: from the first listener that wants all of
\* the mask on, whoever wants some of it.
Interested(k, mask) ==
    LET s == Entries(k)
        firsts == {i \in DOMAIN s : mask \subseteq s[i].flags}
    IN  IF firsts = {} THEN <<>>
        ELSE LET from == CHOOSE i \in firsts : \A j \in firsts : i <= j IN
             SelectSeq(SubSeq(s, from, Len(s)), LAMBDA x : x.flags \cap mask # {})

\* UserMessagingMessageSender::SendMessage
Target(o, l) ==
    IF Len(o.kept) = MaxTargets
    THEN [o EXCEPT !.sent = Append(@, o.kept), !.kept = <<l>>]
    ELSE [o EXCEPT !.kept = Append(@, l)]
FlushMessage(o) ==
    IF o.kept = <<>> THEN o ELSE [o EXCEPT !.sent = Append(@, o.kept), !.kept = <<>>]
\* _SendNotificationMessage for a sequence of keys with their masks
Notify(asks) ==
    LET all == FlattenSeq([i \in DOMAIN asks |-> Interested(asks[i][1], asks[i][2])])
        told == FoldLeft(LAMBDA o, x : Target(o, x.l), Silent, all)
    IN  [FlushMessage(told) EXCEPT !.asked = asks]

\* NotifyEntryCreatedOrRemoved: the volume and the directory are asked; the
\* entry itself is not a directory here, so nobody watches it.
EntryChanged(d) == <<<<Volume, {"name"}>>, <<d, {"directory"}>>>>

\* VfsService::Mount and Unmount of the volume of a directory: with the volume
\* go its watches and the entries known of it, before the listeners are told.
MountChanged == Notify(<<<<Mounts, {"mount"}>>>>)
Unmount(d) ==
    /\ d \in mounted
    /\ mounted' = mounted \ {d}
    /\ RemoveWatches({d})
    /\ refs' = {r \in refs : r[1] # d}
    /\ left' = (left \cup {d}) \cap Listened(ctx, there)
    /\ out' = MountChanged
    /\ UNCHANGED <<there, mon, ctx, reader, entry>>
Mount(d) ==
    /\ d \notin mounted
    /\ mounted' = mounted \cup {d}
    /\ out' = MountChanged
    /\ UNCHANGED <<there, mon, ctx, vfsMon, native, events, reader, entry, refs, left>>

-----------------------------------------------------------------------------
(* The host, and the thread that reads its events *)

HostChanges(w, ino) ==
    /\ (entry[w] = NoInode) # (ino = NoInode)
    /\ entry' = [entry EXCEPT ![w] = ino]
    /\ IF w \in DOMAIN native.listeners
       THEN /\ Len(events) < MaxEvents
            /\ events' = Append(events, [wd |-> w, gone |-> ino = NoInode])
       ELSE UNCHANGED events
    /\ out' = Silent
    /\ UNCHANGED <<there, mounted, mon, ctx, vfsMon, native, reader, refs, left>>

\* What the thread finds out of the directories of an event and has to tell, and
\* which entries are known afterwards: the entry is looked at now, not when the
\* event was made; one that is gone is looked up by its path among those known.
Created(dirs) ==
    LET found == {d \in dirs : entry[HostDir[d]] # NoInode}
    IN  {[dirs |-> found, refs |-> refs \cup {<<d, entry[HostDir[d]]>> : d \in found}]}
Removed(dirs) ==
    LET known == {d \in dirs : \E r \in refs : r[1] = d} IN
    {[dirs |-> known, refs |-> refs \ {<<d, f[d]>> : d \in known}] :
        f \in {f \in [known -> Inode] : \A d \in known : <<d, f[d]>> \in refs}}

\* Three critical sections, of sInotifyMutex, of the virtual file system and of the
\* node monitor; in between, volumes and listeners come and go.  One read returns
\* the first n events.  The pointer goes over two headers per event instead of
\* one, so that all but the first of a read are missed.
ReadEvents(n) ==
    LET e == Head(events) IN
    /\ reader.at = "read" /\ n \in 1..Len(events)
    /\ events' = SubSeq(events, n + 1, Len(events))
    /\ reader' = IF e.wd \in DOMAIN native.listeners
                 THEN [at |-> IF e.gone THEN "gone" ELSE "come", dirs |-> native.listeners[e.wd]]
                 ELSE Reading
    /\ out' = Silent
    /\ UNCHANGED <<there, mounted, mon, ctx, vfsMon, native, entry, refs, left>>

\* A directory whose volume has been unmounted has no path.
LookUp ==
    LET dirs == reader.dirs \cap mounted IN
    /\ \/ reader.at = "come" \/ reader.at = "gone"
    /\ \E x \in IF reader.at = "come" THEN Created(dirs) ELSE Removed(dirs) :
        /\ refs' = x.refs
        /\ reader' = IF x.dirs = {} THEN Reading ELSE [at |-> "tell", dirs |-> x.dirs]
    /\ out' = Silent
    /\ UNCHANGED <<there, mounted, mon, ctx, vfsMon, native, events, entry, left>>

TellWatchers(d) ==
    /\ reader.at = "tell" /\ d \in reader.dirs
    /\ reader' = IF reader.dirs = {d} THEN Reading ELSE [reader EXCEPT !.dirs = @ \ {d}]
    /\ out' = Notify(EntryChanged(d))
    /\ UNCHANGED <<there, mounted, mon, ctx, vfsMon, native, events, entry, refs, left>>

NodeMonitorStep ==
    \/ \E l \in Listener :
        \/ \E k \in Wants[l] : StopWatching(l, {k}) \/ \E f \in Flags(k) : StartWatching(l, k, f)
        \/ StopWatching(l, Key)
    \/ \E t \in Team : TeamLeaves(t)
    \/ \E d \in Removable : Mount(d) \/ Unmount(d)
    \/ \E w \in Watch, ino \in Inode \cup {NoInode} : HostChanges(w, ino)
    \/ \E n \in 1..MaxEvents : ReadEvents(n)
    \/ LookUp \/ \E d \in Dir : TellWatchers(d)

-----------------------------------------------------------------------------
(* Properties *)

\* Whoever wants an event is told of it once for each thing of his that it is
\* about, in messages that are not longer than the sender has room for, and
\* nothing stays behind in the sender, however many listeners there are.
ToldExactly ==
    /\ out.kept = <<>>
    /\ \A i \in DOMAIN out.sent : Len(out.sent[i]) <= MaxTargets
    /\ \A l \in Listener :
        Cardinality({<<i, j>> \in (1..Len(out.sent)) \X (1..MaxTargets) :
                        j <= Len(out.sent[i]) /\ out.sent[i][j] = l})
        = Cardinality({i \in DOMAIN out.asked :
                        \E x \in Range(Entries(out.asked[i][1])) :
                            x.l = l /\ out.asked[i][2] \subseteq x.flags})

\* Four books agree.  A directory is watched only as long as a living team
\* listens to it, and then it is, unless another listener of it has left before
\* or its volume has been away (left); one watch of the host serves all the
\* directories over it; and the lists of a living team and of the monitors hold
\* the same listeners.
WatchesAgree ==
    /\ native.watches = [d \in vfsMon |-> HostDir[d]]
    /\ native.listeners = [w \in {HostDir[d] : d \in vfsMon} |-> {d \in vfsMon : HostDir[d] = w}]
    /\ vfsMon \subseteq Listened(ctx, there)
    /\ Listened(ctx, there) \ left \subseteq vfsMon
    /\ \A k \in Key, l \in Listener :
        Owner[l] \in there => (Has(k, l) <=> [k |-> k, l |-> l] \in ctx[Owner[l]])
=============================================================================
