---------------------------- MODULE Descriptors -----------------------------
(***************************************************************************)
(* The three tables of descriptors of a team: the host's, the server's     *)
(* (Process::_fds, the path behind a number) and the loader's (sFdMap of   *)
(* loader_readdir.cpp, the directories that can be listed).  A call of     *)
(* monika/linux/io.cpp changes them one after the other, with no lock      *)
(* around, so that the threads of a team interleave between the changes.   *)
(* Guests are well behaved: no thread names a number that a call of        *)
(* another is still at work on.  The host may still give such a number out.*)
(***************************************************************************)
EXTENDS Integers, Sequences, FiniteSetsExt, Functions

CONSTANTS
    Caller,  \* threads of the team
    Fd,      \* numbers of descriptors
    NoCaller   \* stands for no thread

ASSUME DescriptorsAssumption == Fd \subseteq Nat /\ Fd # {} /\ NoCaller \notin Caller

VARIABLES
    host,   \* the host's table: [obj, cloexec] of each open number
    fds,    \* Process::_fds
    dirs,   \* sFdMap
    mapper, \* who is inside dupdir, holding sFdMapMutex, or NoCaller
    todo,   \* what a thread has still to do of its call
    held,   \* what a guest has been told that its numbers are
    raced   \* history: numbers that the host gave out inside another call for them

descriptorVars == <<host, fds, dirs, mapper, todo, held, raced>>

AtRest == [do |-> "idle"]
\* dir: a directory, file: anything else that has a path, socket: a socket or
\* an event queue, of which the server is told nothing
Obj == {"dir", "file", "socket"}

DescriptorsInit ==
    /\ host = <<>> /\ fds = <<>> /\ dirs = {} /\ mapper = NoCaller
    /\ todo = [t \in Caller |-> AtRest]
    /\ held = <<>>
    /\ raced = {}

WithAll(f, ks, v) == [k \in DOMAIN f \cup ks |-> IF k \in ks THEN v ELSE f[k]]
With(f, k, v) == WithAll(f, {k}, v)
Without(f, k) == Restrict(f, DOMAIN f \ {k})
Free == Fd \ DOMAIN host
\* Another thread has something left to do with the number.
Busy(t, n) == \E u \in Caller \ {t} : todo[u] # AtRest /\ n \in todo[u].on
Then(t, what) == todo' = [todo EXCEPT ![t] = what]

-----------------------------------------------------------------------------
(* open, open_dir, open_entry_ref, socket: the host gives the lowest number *)

\* steps: what the call does next, in this order, with which number
Opened(t, ns, obj, cloexec, steps) ==
    /\ host' = WithAll(host, ns, [obj |-> obj, cloexec |-> cloexec])
    /\ raced' = raced \cup {n \in ns : Busy(t, n)}
    /\ Then(t, [do |-> "open", steps |-> steps, on |-> ns, obj |-> obj,
                listed |-> \E i \in DOMAIN steps : steps[i][1] = "opendir"])
    /\ UNCHANGED <<fds, dirs, mapper, held>>
OpenFd(t, obj, cloexec) ==
    LET n == Min(Free) IN
    /\ todo[t] = AtRest /\ Free # {}
    /\ \E steps \in CASE obj = "dir" -> {<<"register", "opendir">>, <<"register">>, <<"opendir", "register">>}
                      [] obj = "file" -> {<<"register">>}
                      [] obj = "socket" -> {<<>>} :
        Opened(t, {n}, obj, cloexec, [i \in DOMAIN steps |-> <<steps[i], n>>])
CreatePipe(t, cloexec) ==
    LET n == Min(Free)
        m == Min(Free \ {n})
    IN  /\ todo[t] = AtRest /\ Cardinality(Free) > 1
        /\ Opened(t, {n, m}, "file", cloexec, <<<<"register", n>>, <<"register", m>>>>)
Step(t, what) == todo[t].do = "open" /\ todo[t].steps # <<>> /\ Head(todo[t].steps)[1] = what
Number(t) == Head(todo[t].steps)[2]
NextStep(t) == Then(t, [todo[t] EXCEPT !.steps = Tail(@)])

RegisterFd(t) ==
    /\ Step(t, "register")
    /\ fds' = With(fds, Number(t), todo[t].obj)
    /\ NextStep(t)
    /\ UNCHANGED <<host, dirs, mapper, held, raced>>
\* loader_opendir: where the number is known already, the new handle is thrown
\* away, and with it the descriptor is closed.
Listed(n) ==
    IF n \notin DOMAIN host \/ host[n].obj # "dir" THEN UNCHANGED <<dirs, host>>
    ELSE IF n \in dirs THEN host' = Without(host, n) /\ UNCHANGED dirs
    ELSE dirs' = dirs \cup {n} /\ UNCHANGED host
Opendir(t) ==
    /\ Step(t, "opendir") /\ mapper = NoCaller
    /\ Listed(Number(t))
    /\ NextStep(t)
    /\ UNCHANGED <<fds, mapper, held, raced>>
Return(t) ==
    /\ todo[t].do = "open" /\ todo[t].steps = <<>>
    /\ held' = WithAll(held, todo[t].on, [obj |-> todo[t].obj, listed |-> todo[t].listed])
    /\ Then(t, AtRest)
    /\ UNCHANGED <<host, fds, dirs, mapper, raced>>

-----------------------------------------------------------------------------
(* close: the loader or the host first, the server afterwards *)

Close(t, n) ==
    /\ todo[t] = AtRest /\ n \in DOMAIN held /\ ~Busy(t, n) /\ mapper = NoCaller
    /\ dirs' = dirs \ {n} /\ host' = Without(host, n)
    /\ held' = Without(held, n)
    /\ Then(t, IF n \in dirs \cup DOMAIN host THEN [do |-> "unregister", on |-> {n}, fd |-> n] ELSE AtRest)
    /\ UNCHANGED <<fds, mapper, raced>>
UnregisterFd(t) ==
    /\ todo[t].do = "unregister"
    /\ fds' = Without(fds, todo[t].fd)
    /\ Then(t, AtRest)
    /\ UNCHANGED <<host, dirs, mapper, held, raced>>

-----------------------------------------------------------------------------
(* dup, dup2 and fcntl(F_DUPFD), which does not tell the loader *)

Dup(t, old, new, map, cloexec) ==
    /\ todo[t] = AtRest /\ old \in DOMAIN held /\ old \in DOMAIN host /\ old # new
    /\ ~Busy(t, old)
    /\ host' = With(host, new, [host[old] EXCEPT !.cloexec = cloexec])
    /\ raced' = IF old \in raced \/ Busy(t, new) THEN raced \cup {new} ELSE raced
    /\ held' = Without(held, new)
    /\ Then(t, [do |-> "register dup", on |-> {old, new}, fd |-> new, old |-> old, map |-> map,
                obj |-> held[old].obj, listed |-> map /\ held[old].listed])
    /\ UNCHANGED <<fds, dirs, mapper>>
\* A number that the server does not know is not copied.
WithDupSwapped(old, new) == IF old \in DOMAIN fds /\ new \in DOMAIN fds THEN With(fds, old, fds[new]) ELSE fds
WithDup(old, new) == IF old \in DOMAIN fds THEN With(fds, new, fds[old]) ELSE fds
RegisterDupFd(t) ==
    /\ todo[t].do = "register dup"
    /\ fds' = WithDup(todo[t].old, todo[t].fd)
    /\ Then(t, IF todo[t].map THEN [todo[t] EXCEPT !.do = "dupdir"]
               ELSE [do |-> "open", steps |-> <<>>, on |-> {todo[t].fd},
                     obj |-> todo[t].obj, listed |-> todo[t].listed])
    /\ UNCHANGED <<host, dirs, mapper, held, raced>>
\* loader_dupdir: the handle of a number that was overwritten goes, and closes
\* it; the descriptor is saved before and put back after.
DupdirClose(t) ==
    LET n == todo[t].fd IN
    /\ todo[t].do = "dupdir" /\ mapper = NoCaller /\ n \in dirs
    /\ mapper' = t
    /\ dirs' = dirs \ {n} /\ host' = Without(host, n)
    /\ Then(t, [todo[t] EXCEPT !.do = "put back", !.obj = IF n \in DOMAIN host THEN host[n].obj ELSE @])
    /\ UNCHANGED <<fds, held, raced>>
DupdirPutBack(t) ==
    LET n == todo[t].fd IN
    /\ todo[t].do = "put back"
    /\ host' = With(host, n, [obj |-> todo[t].obj, cloexec |-> FALSE])
    /\ mapper' = NoCaller
    /\ raced' = raced \cup ({n} \cap DOMAIN host)
    /\ Then(t, [todo[t] EXCEPT !.do = "dupdir"])
    /\ UNCHANGED <<fds, dirs, held>>
DupdirOpen(t) ==
    /\ todo[t].do = "dupdir" /\ mapper = NoCaller /\ todo[t].fd \notin dirs
    /\ IF todo[t].old \in dirs THEN Listed(todo[t].fd) ELSE UNCHANGED <<dirs, host>>
    /\ Then(t, [do |-> "open", steps |-> <<>>, on |-> {todo[t].fd},
                obj |-> todo[t].obj, listed |-> todo[t].listed])
    /\ UNCHANGED <<fds, mapper, held, raced>>

\* fcntl(F_SETFD)
SetCloexec(t, n) ==
    /\ todo[t] = AtRest /\ n \in DOMAIN held \cap DOMAIN host /\ ~Busy(t, n)
    /\ \E cloexec \in BOOLEAN : host' = [host EXCEPT ![n].cloexec = cloexec]
    /\ UNCHANGED <<fds, dirs, mapper, todo, held, raced>>

\* exec: the other threads are gone, the host closes what is marked, the loader
\* starts with no directories and tells the server of every number that is open.
ExecFds(t) ==
    LET kept == {n \in DOMAIN host : ~host[n].cloexec} IN
    /\ \A u \in Caller : todo[u] = AtRest
    /\ host' = Restrict(host, kept)
    /\ fds' = [n \in DOMAIN fds \cup kept |-> IF n \in kept THEN host[n].obj ELSE fds[n]]
    /\ dirs' = {}
    /\ held' = [n \in DOMAIN held \cap kept |-> [held[n] EXCEPT !.listed = FALSE]]
    /\ raced' = {n \in raced : n \in DOMAIN host /\ n \in DOMAIN held /\ host[n].obj # held[n].obj}
    /\ UNCHANGED <<mapper, todo>>

DescriptorsStep ==
    \E t \in Caller :
        \/ \E obj \in Obj, cloexec \in BOOLEAN : OpenFd(t, obj, cloexec)
        \/ \E cloexec \in BOOLEAN : CreatePipe(t, cloexec)
        \/ RegisterFd(t) \/ Opendir(t) \/ Return(t)
        \/ \E n \in Fd :
            \/ Close(t, n) \/ SetCloexec(t, n)
            \/ \E new \in Fd, cloexec \in BOOLEAN : ~Busy(t, new) /\ Dup(t, n, new, TRUE, cloexec)
            \/ Free # {} /\ \E map, cloexec \in BOOLEAN : ~(map /\ cloexec) /\ Dup(t, n, Min(Free), map, cloexec)
        \/ UnregisterFd(t) \/ RegisterDupFd(t)
        \/ DupdirClose(t) \/ DupdirPutBack(t) \/ DupdirOpen(t)
        \/ ExecFds(t)

DescriptorsSpec == DescriptorsInit /\ [][DescriptorsStep]_descriptorVars

-----------------------------------------------------------------------------
(* Properties *)

\* A number that a guest holds, and that no call is at work on, is what the guest
\* was told: open on the host, known to the server by the right path, and listed
\* by the loader, whatever other threads open, close and duplicate meanwhile.
\* Left out are the numbers that the host gave out while another call for them
\* was still under way: close tells the server late, and dupdir closes for a
\* moment.  (_moni_open, _moni_close, _moni_dup, loader_dupdir, register_fd)
HeldAgrees ==
    \A n \in DOMAIN held : (n \notin raced /\ \A t \in Caller : todo[t] # AtRest => n \notin todo[t].on) =>
        /\ n \in DOMAIN host /\ host[n].obj = held[n].obj
        /\ held[n].obj # "socket" => n \in DOMAIN fds /\ fds[n] = held[n].obj
        /\ held[n].listed => n \in dirs
=============================================================================
