---------------------------- MODULE ThreadInfos -----------------------------
(***************************************************************************)
(* The name and the priority of a thread (Thread::_info), which the thread *)
(* registers, any team changes (rename_thread, set_thread_priority) and    *)
(* any team reads (get_thread_info, get_next_thread_info).                 *)
(*                                                                         *)
(* A name is copied in two halves, by whoever writes it and whoever reads  *)
(* it.  register_thread_info and get_thread_info take no lock; the others  *)
(* hold that of the thread.  The priority that is told is not the one kept *)
(* here but the host's own, read anew (server_fill_thread_info).           *)
(***************************************************************************)
EXTENDS Infos, Sequences

CONSTANTS
    InfoThread,    \* threads
    ThreadName,    \* names
    NoThreadName,  \* the name of before any
    Asked          \* bound: the priorities that are asked for

IdlePriority == 0
UrgentDisplayPriority == 20
RealTimePriority == 120

ASSUME ThreadInfosAssumption == NoThreadName \notin ThreadName /\ Asked \subseteq Int

VARIABLES
    threadInfo,   \* Thread::_info: [name, priority]
    hostRt,       \* host: the real-time priority of a thread, or Gone
    started,      \* threads whose loader has registered them
    registering,  \* the name that register_thread_info is copying
    renaming,     \* the name that rename_thread is copying under the lock
    accepted,     \* priorities that the host has accepted and the info has not yet
    lister,       \* threads that a get_next_thread_info is copying under the lock
    copied,       \* the name that the one reader has copied last, or one half of it
    mixed,        \* history: threads whose name may be of two
    met,          \* history: threads whose reader was met by a writer, see ThreadInfoAgrees
    apart         \* history: threads that have written a priority of their own into the info

threadInfosVars == <<threadInfo, hostRt, started, registering, renaming, accepted, lister, copied, mixed, met, apart>>

Gone == -1
Whole(n) == <<n, n>>

ThreadInfosInit ==
    /\ threadInfo = [t \in InfoThread |-> [name |-> Whole(NoThreadName), priority |-> 0]]
    /\ hostRt = [t \in InfoThread |-> 0]
    /\ registering = [t \in InfoThread |-> NoThreadName]
    /\ renaming = [t \in InfoThread |-> NoThreadName]
    /\ accepted = [t \in InfoThread |-> {}]
    /\ copied = [t \in InfoThread |-> <<>>]
    /\ started = {} /\ lister = {} /\ mixed = {} /\ met = {} /\ apart = {}

Copying(t) == Len(copied[t]) = 1
\* mutant: rename_thread and its readers do not lock each other out
LockedBySetter(t) == accepted[t] # {}
\* Somebody holds the lock of the thread.
Locked(t) == renaming[t] # NoThreadName \/ accepted[t] # {} \/ t \in lister

\* mixed and met after a name begins to be copied in
Overlaps(t, other) == mixed' = IF other[t] = NoThreadName THEN mixed \ {t} ELSE mixed \cup {t}
Meets(t) == met' = IF Copying(t) THEN met \cup {t} ELSE met

\* register_thread_info, of a thread when it starts: no lock
RegisterThreadInfo(t, n) ==
    /\ t \notin started /\ hostRt[t] # Gone
    /\ started' = started \cup {t}
    /\ registering' = [registering EXCEPT ![t] = n]
    /\ threadInfo' = [threadInfo EXCEPT ![t].name[1] = n]
    /\ Overlaps(t, renaming) /\ Meets(t)
    /\ UNCHANGED <<hostRt, renaming, accepted, lister, copied, apart>>
\* The priority is what the loader says, which the host has not heard of.
RegisterEnd(t, priority) ==
    /\ registering[t] # NoThreadName
    /\ threadInfo' = [threadInfo EXCEPT ![t] = [name |-> <<@.name[1], registering[t]>>, priority |-> priority]]
    /\ registering' = [registering EXCEPT ![t] = NoThreadName]
    /\ apart' = apart \cup {t}
    /\ UNCHANGED <<hostRt, started, renaming, accepted, lister, copied, mixed, met>>

\* rename_thread, under the lock of the thread: not to meet a reader that has it
RenameThread(t, n) ==
    /\ ~Locked(t)
    /\ renaming' = [renaming EXCEPT ![t] = n]
    /\ threadInfo' = [threadInfo EXCEPT ![t].name[1] = n]
    /\ Overlaps(t, registering)
    /\ IF t \in lister THEN UNCHANGED met ELSE Meets(t)
    /\ UNCHANGED <<hostRt, started, registering, accepted, lister, copied, apart>>
RenameEnd(t) ==
    /\ renaming[t] # NoThreadName
    /\ threadInfo' = [threadInfo EXCEPT ![t].name[2] = renaming[t]]
    /\ renaming' = [renaming EXCEPT ![t] = NoThreadName]
    /\ UNCHANGED <<hostRt, started, registering, accepted, lister, copied, mixed, met, apart>>
\* The caller's memory ends in the middle of the name.
RenameFails(t) ==
    /\ renaming[t] # NoThreadName
    /\ renaming' = [renaming EXCEPT ![t] = NoThreadName]
    /\ mixed' = mixed \cup {t}
    /\ UNCHANGED <<threadInfo, hostRt, started, registering, accepted, lister, copied, met, apart>>

\* set_thread_priority, under the lock: first the host, which may refuse, and the
\* largest it always does; then the info.
HostMaxRt == 99
RtOf(priority) ==
    IF priority <= UrgentDisplayPriority THEN 0 ELSE priority - UrgentDisplayPriority
SetThreadPriority(t, priority) ==
    /\ ~Locked(t) /\ hostRt[t] # Gone
    /\ priority \in IdlePriority..RealTimePriority /\ RtOf(priority) <= HostMaxRt
    /\ hostRt' = [hostRt EXCEPT ![t] = RtOf(priority)]
    /\ accepted' = [accepted EXCEPT ![t] = @ \cup {priority}]
    /\ UNCHANGED <<threadInfo, started, registering, renaming, lister, copied, mixed, met, apart>>
SetPriorityEnd(t, priority) ==
    /\ priority \in accepted[t]
    /\ threadInfo' = [threadInfo EXCEPT ![t].priority = priority]
    /\ accepted' = [accepted EXCEPT ![t] = @ \ {priority}]
    /\ apart' = apart \ {t}
    /\ UNCHANGED <<hostRt, started, registering, renaming, lister, copied, mixed, met>>

\* host: the thread ends; the server has its object until it hears of it.
ThreadEnds(t) ==
    /\ hostRt[t] # Gone
    /\ hostRt' = [hostRt EXCEPT ![t] = Gone]
    /\ UNCHANGED <<threadInfo, started, registering, renaming, accepted, lister, copied, mixed, met, apart>>

\* The info is copied out, its first half and then the rest.
CopyOut(t) == copied' = [copied EXCEPT ![t] = <<threadInfo[t].name[1]>>]
Torn(t) == t \in mixed \/ registering[t] # NoThreadName
\* get_next_thread_info, under the lock
ListThread(t) ==
    /\ ~Locked(t) /\ ~Copying(t)
    /\ CopyOut(t) /\ lister' = lister \cup {t}
    /\ met' = IF Torn(t) THEN met \cup {t} ELSE met \ {t}
    /\ UNCHANGED <<threadInfo, hostRt, started, registering, renaming, accepted, mixed, apart>>
\* get_thread_info, without it
GetThreadInfo(t) ==
    /\ ~Copying(t)
    /\ CopyOut(t)
    /\ met' = IF Torn(t) \/ renaming[t] # NoThreadName THEN met \cup {t} ELSE met \ {t}
    /\ UNCHANGED <<threadInfo, hostRt, started, registering, renaming, accepted, lister, mixed, apart>>
TellThread(t) ==
    /\ Copying(t)
    /\ copied' = [copied EXCEPT ![t] = <<@[1], threadInfo[t].name[2]>>]
    /\ lister' = lister \ {t}
    /\ UNCHANGED <<threadInfo, hostRt, started, registering, renaming, accepted, mixed, met, apart>>

ThreadInfosStep ==
    \E t \in InfoThread :
        \/ RenameEnd(t) \/ RenameFails(t) \/ ThreadEnds(t)
        \/ ListThread(t) \/ GetThreadInfo(t) \/ TellThread(t)
        \/ \E n \in ThreadName : RegisterThreadInfo(t, n) \/ RenameThread(t, n)
        \/ \E p \in Asked : RegisterEnd(t, p) \/ SetThreadPriority(t, p) \/ SetPriorityEnd(t, p)

ThreadInfosSpec == ThreadInfosInit /\ [][ThreadInfosStep]_threadInfosVars

\* A name that is told was given as a whole, unless the thread was registering
\* itself while it was copied, or an earlier name has stayed mixed since: of a
\* rename that failed half-way, or that overlapped with the registration.  To
\* get_thread_info, which takes no lock, a rename under way can tell parts of
\* two names, too; to get_next_thread_info it never can.  And the priority kept
\* of a thread is the one that the host runs it with, whoever sets it at the
\* same time, until the thread registers and writes its own over it.
\* (rename_thread, set_thread_priority, register_thread_info, get_thread_info,
\* get_next_thread_info)
ThreadInfoAgrees ==
    \A t \in InfoThread :
        /\ ~Copying(t) /\ copied[t] # <<>> /\ t \notin met => copied[t][1] = copied[t][2]
        /\ accepted[t] = {} /\ hostRt[t] # Gone /\ t \notin apart => hostRt[t] = RtOf(threadInfo[t].priority)

\* What is told of teams and threads is what they are: counts of threads and
\* images over starts, forks and execs, and whole names but for the overlaps
\* that ThreadInfoAgrees names.  (get_team_info, get_thread_info)
InfosAgree == TeamInfoAgrees /\ ThreadInfoAgrees
=============================================================================
