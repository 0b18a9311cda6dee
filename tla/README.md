# A TLA+ model of HyClone

HyClone runs Haiku applications on Linux. A *guest* application is loaded by
`haiku_loader`, which supplies the part of Haiku's kernel that can live in the guest's own
process; the system calls of the guest are implemented by `monika`, in terms of Linux system
calls, of the loader and of calls to `hyclone_server`, one process for all guests that stands
for the shared part of the kernel: teams and threads, ports, semaphores, areas, the virtual
file system, notifications. Guests talk to the server over sockets, the server reads and
writes their memory.

This directory holds TLA+ modules for the parts of that system in which concurrency, failure
and order matter, TLC configurations that check them on small instances, and TLAPS proofs of
their most important properties for all instances. `PROJECT.json` lists components, runs,
findings, hazards and theorems, and maps every definition to the lines it models.

## 1. Inventory

| Component | State | Operations | What makes it hard | What makes it correct |
|---|---|---|---|---|
| Worker pool (`server_workers`) | counter of free workers | run a call, wait, sleep | test and decrement are two steps; calls give their slot back while they wait under a mutex | no slot lost or made up; no call stuck at the gate |
| Ports (`port.cpp`) | queue, capacity, flags, two condition variables | write, read, peek, close, delete | condition variables woken one at a time; timeouts; flags changed without the mutex | first in first out; nobody sleeps beside work; closing unblocks |
| Semaphores (`hsemaphore.cpp`) | count, waiters, one condition variable | acquire, release, delete | different amounts; timeouts; unsigned amounts used as ints | units conserved, never overdrawn, nobody sleeps beside enough units |
| Ids, names, owners (`system.cpp`, `id_map.h`, `process.h`) | id tables, name table, owning sets | create, delete, find, set owner, cleanup | calls take two locks in turn; ids are reused at once; guests are killed in the middle | names and ids resolve to the right object; nothing outlives its team |
| Connections, threads, teams (`system.cpp`, `process.cpp`, `server_dispatch.cpp`, `server_main.cpp`) | connections by descriptor, processes, threads, fork and exec flags | connect, disconnect, fork, exec, hangup | a call and the hangup of its caller on two workers; descriptors reused; exec keeps the process | a live guest is never refused or mistaken for another; nothing is left of a dead one |
| User mutexes, condition variables (`loader_mutex.cpp`) | a word, a deque of waiters | lock, unblock, switch | the word is changed by libroot without the loader's mutex; timeouts race hand-offs | exclusion; no lost wake-up |
| POSIX semaphores (`loader_mutex.cpp`) | a word, a deque of waiters | acquire, release | the same | a counting semaphore |
| Threads (`thread.cpp`) | blocked flag, a place for data | block, unblock, send and receive data, leave | a wake-up before the wait; a target that leaves | data arrives once and in order; nobody sleeps without a reason |
| Requests and debuggers (`thread.cpp`, `server_debug.cpp`, `loader_debugger.cpp`, `loader_requests.cpp`) | request slot, debugger fields, nub thread, port and write lock | install, register the nub, report, leave | the server runs code in a guest through a signal; two debuggers at once; either side leaves | one request at a time, each answered; server and loader agree on the debugger |
| Memory (`area.cpp`, `server_memory.cpp`, `mman.cpp`, `loader_reservedrange.cpp`) | areas per process and system, reference counts of files, reserved ranges, the host's mappings | create, clone, transfer, split, protect, map, reserve, fork, exit | three sets of books over one address space; partial failure; counts over fork and exit | books agree with the host; a file lives as long as a user; offsets follow splits |
| Messaging service (`server_messaging.cpp`) | rings of commands in shared areas, two semaphores | send, add, keep and discard areas, register | wrap-around; a reader in another process | messages are read once, in order; the reader does not oversleep |
| Node monitor (`server_nodemonitor.cpp`, `server_inotify.cpp`) | listeners of nodes, watches of the host | start, stop, notify, mount, unmount | four books; listeners and volumes that go | every listener is told exactly; watches agree |
| Notifications (`server_systemnotification.cpp`) | listeners by team or for all | start, stop, notify | listeners that leave; messages of bounded length | whoever asked is told of each event |
| Loading of applications (`server_apploadnotification.cpp`) | pending reports, waiters | wait, report, poll | report before wait, timeout, ids used again | the waiter learns the right result |
| Package file system (`packagefs.cpp`, `Entry.cpp`) | tree of entries, files on the host's disk | mount, activate, deactivate, attributes | the tree is rebuilt without data; the server may end in between | the volume shows the packages it lists |
| Names of files (`server_vfs`, hostfs, bindfs, `process.cpp`, `io.cpp`) | mounts, roots, current directories, entry refs | resolve, link, rename, mount, open | links, mounts and roots over the host's own tree | a name leads to the entry it names |
| Descriptors (`io.cpp`, `process.cpp`, `loader_readdir.cpp`) | three tables of numbers | open, close, dup, exec | the tables are changed one after the other without a lock | the tables agree on what a guest holds |
| Users (`server_usermap.cpp`, `userid.cpp`) | maps of ids, the guest's files, ids per process | start of the server, set ids and groups | starts with other users of the host | the maps are inverse; ids agree with the host |
| Information (`process.cpp`, `thread.cpp`, `image.cpp`) | counts, names, priorities | fill, get, get next | members that come and go during a listing; copies without a lock | listings are complete; what is told is true |
| KMessage (`kmessage.cpp`) | a buffer of fields | add, set, find, send back | growth, alignment, lent and received buffers | what was added reads back |
| Event queues (`event_queue.cpp`) | records, epoll | select, deselect, wait | records recycled between epoll_wait and the lock | records and epoll agree |
| Signals (`signal.cpp`, `signal_conversion.cpp`, `syscall_restart.h`) | handlers, masks | set, send, wait, sleep | numbers differ from the host's; a handler during a sleep | the right handler runs; sleeps end for the right reason |
| Threads of a guest (`loader_spawn_thread.cpp`) | table by host id, guards of stacks | spawn, end, wait | ids used again while somebody waits | a running thread can be waited for and keeps its guard |

How they interact: every guest thread has one socket. The main loop of the server polls the
sockets, reads a call and starts a worker for it (`Workers`); the worker finds out by the
connection who the caller is (`Teams`), looks up an object by its id under the lock of the
system (`Registry`), lets that lock go and works on the object under the object's own mutex
(`Port`, `Semaphore`, `Threads`), and writes the answer to the socket. When a socket is closed,
a worker calls `disconnect` on behalf of the guest that is gone (`Teams`, `Registry`, and for
its memory, listeners and debugger `Areas`, `NodeMonitor`, `Debugging`). The server runs code in
a guest only through a request and a signal (`Debugging`, and the transfer of an area in
`AddressSpace`). What a guest does with its own mutexes, semaphores, threads and event queues
stays in its process (`UserMutex`, `UserSem`, `Joins`, `EventQueue`).

## 2. Modules

| Module | Models | Extends or instantiates |
|---|---|---|
| `UserMutex`, `LockService` | the loader's mutexes and condition variables, and what they promise | `LockService` (instance) |
| `UserSem`, `CountingSem` | the loader's half of unnamed POSIX semaphores, and what they promise | `CountingSem` (instance) |
| `Port`, `Semaphore` | one message port, one kernel semaphore | |
| `Workers` | the worker pool and a monitor that uses it | |
| `IdMap`, `Registry` | the id table; ids, names and owners of ports and semaphores | `IdMap` |
| `Teams` | guests, sockets, dispatch, connect, disconnect, fork, exec | |
| `ReservedRanges`, `Areas`, `AddressSpace` | the loader's books, the server's tables, the calls of a guest over both and the host's memory | `AddressSpace` extends the others |
| `Threads`, `Debugging` | Thread objects of the server; requests to a guest and its debugger | |
| `Messaging`, `NodeMonitor`, `Notifications`, `AppLoad` | services of the server | |
| `Packages`, `KMessage`, `Users`, `Listing`, `Infos`, `ThreadInfos`, `Descriptors` | the package file system, messages, ids of users, what is told of teams, tables of descriptors | |
| `Namespace`, `EventQueue`, `Signals`, `Joins` | names of files; the guest's event queues, signals and table of threads | |
| `MCGuests`, `MCServices`, `MCFiles` | several modules in one run: they share no state, so a behaviour moves one of them (`part`) | what they list |
| `MCUserMutex`, `MCPort`, `MCSemaphore`, `MCRegistry`, `MCTeams` | small instances | the module they are named after |
| `UserMutexProofs`, `UserSemProofs`, `SemaphoreProofs` | theorems on one module each | the module they are named after |
| `PortProofs`, `WorkersProofs`, `TeamsProofs`, `RegistryProofs`, `GuestProofs` | theorems on several modules that share no names: `Port` and `Notifications`; `Workers` and `Messaging`; `Teams`, `Infos` and `ThreadInfos`; `Registry`, `Listing`, `Users` and `AddressSpace`; `AppLoad`, `Joins`, `Debugging`, `Threads`, `Signals`, `Descriptors` and `EventQueue` | what they are about |

Granularity. In the server a step is what happens under one lock, or one atomic operation on
something that is not under a lock: `remaining` in `Workers`, `_closed` and `_registered` in
`Port`, `Semaphore` and `Threads`. Where a call tests a flag that others change without the mutex
and then goes to sleep, the test and the sleep are two steps. A condition variable is the set of
the threads asleep on it; a notification takes one of them, or all, out of the set, and a
thread that is out takes the mutex again before it goes on. A notification when nobody sleeps
is lost, as in C++. In the loader a step is one atomic access to the word, with everything up
to the next one that happens under the loader's own mutex. Locks that one call holds together are
one step, so that the orders of locks cannot show a deadlock (section 7).

### UserMutex and UserSem

State of `UserMutex`: the bits of each word, the deque of waiters and the presence of an entry in
`sMutexTable`, the holder of `sMutexTableLock`, and per thread its place and the locals of its
call, `Waiter::notified` and the mutexes it believes it owns. `Lock`, `LockClear`,
`WaitNotified`, `WaitTimedOut` are `loader_mutex_lock`; `Unblock`, `UnblockClear` are
`loader_mutex_unblock`; the `Switch...` actions are `loader_mutex_switch_lock`. The actions
`App...` are libroot's use of the word, which is not in the repository and is taken from the
protocol that `loader_mutex.cpp` refers to. Abstracted: the numeric layout of the bits, the
kinds of timeout (finite or not). A mutex shared between processes is outside the model, as it
is outside the code (`loader_mutex.cpp:15-18`). `UserSem` has the word as an integer, the deque,
the table lock and the local `oldValue` of the two compare-and-swap loops.

### Port, Semaphore, Workers

In `Port`, `messages`, `queueCount` and `totalCount` are kept apart as in the code, so that a
count that runs away from the queue is visible. Write, read and `get_port_message_info` are one
path through enter, test, sleep, flags, act; close and delete set their flag and then notify the
two condition variables in two more steps. Message contents are numbers; the copy to guest
memory is left out. In `Semaphore`, `count` is an int of `2 * Half` values and `ToInt` the
conversion of the unsigned amounts; `granted` and `released` are history; overflow by addition is
kept out by `MaxReleases`. `Workers` has `remaining`, with `Gate` (the atomic wait for "not 0"),
`Take`, `GiveBack` and `Notify` as separate steps, and a monitor with a mutex, a condition
variable and a number of permits that stands for any user of `server_worker_run_wait`.

### Registry

The id tables with their free ids, the name table, the port and semaphore objects in the order
of their creation (a table holds the number of an object, 0 for `T()`), the owning set of each
process, and per thread the rest of its call. One step per lock taken: `CreatePort` /
`OwnPort`, `DeletePort` / `DisownPort` / `DropPort`, `SetPortOwner` / `MovePort`,
`CreateSem` / `OwnSem`, `DeleteSem` / `DisownSem`, and `Disconnect`, which does all under the
lock of the system; it unregisters the port by which a debugger talks to the team (`nub`), which
`RegisterNub` has entered together with a semaphore that goes to the debugger's team. A team has
any number of threads. `shared` and `careless` are history. Left out: failed copies of names (no
effect on state), exec, and pids that are used again.

### Teams

A guest is an incarnation of a guest thread: the image after an exec is another guest with the
same ids. A guest's socket carries one call at a time; the kernel's side of it (accept, poll,
close) is `Accept`, `Dispatch`, `Hangup`. Each guest has a worker for its call and one for its
hangup. The steps of connect, of `server_dispatch` and of the calls fork, exec, disconnect and
`wait_for_fork_unlock` are the critical sections of the code. `Kill` ends a team at any moment.
`newest` is history: the image of a team that was started last; `crossed` is history too: `accept`
has returned a descriptor by which the server still knows another guest (its entry in
`_connections` is there, or a worker still serves it: `InUse`), or a new image has replaced a team
that the server did not have in an exec, or of which another thread was in a call that changes what
the server knows (`Clean`). `FamilyAssumption` says what the
host guarantees of ids (a team begins with one thread, an exec keeps the ids).
What disconnect and fork do to areas, ports, semaphores, listeners, counts and debuggers is in
the modules on those.

### Memory: ReservedRanges, Areas, AddressSpace

Addresses, sizes and offsets are pages. `ReservedRanges` are the loader's operations on
`sReservedRanges`, `Areas` the server's on its tables of areas and of shared files, both as
operators from books to books. `AddressSpace` has the calls of `mman.cpp` over these and over
`vm`, what the host has mapped. A call holds `MmanLock` to its end and is one step; `delete_area`,
`clone_area`, `map_file` and `transfer_area` give the lock back or do without it and are several.
`torn` is history: a process that hit one of the gaps the code has (a mapping kept or lost after
a failed registration, a protection piece never registered) is not followed further. Modelled as
it is: the reply of the target of `transfer_area` is the id of the clone, which the source takes
for an error, so that the source area stays; `loader_fork` maps the private cloneable areas of
the child from offset 0.

### Threads and Debugging

`Threads` has a Thread object per thread, `wait_status` in the guest's memory, and what was sent
and received as history; `missed` are threads that left while a call was between its test and its
sleep. `Debugging` has one team that debuggers want, with its main thread (the handler), its nub
thread and a thread that reports; `hasty` is history: a debugger left in the middle of its call.
Modelled as it is: `register_nub` runs before the server has entered the debugger, so that the
write lock goes to nobody; the server's entry of a debugger is never taken out.

### Services: Messaging, NodeMonitor, Notifications, AppLoad

`Messaging` lays commands out in rings with their offsets; the reader is code of Haiku and
external. One lock semaphore serves all areas while their benaphores start anew, as in the code.
`NodeMonitor` keeps four books: the monitors, the lists of the processes, the watches of the file
systems and those of inotify; one of two listeners that leaves takes the watch with it (`left`).
The inotify thread has the three critical sections of the code (`ReadEvents`, `LookUp`, `TellWatchers`),
between which volumes and listeners come and go. In `Messaging` an area may fail to be created
(`AllocateFails`).
`Notifications` reports each event twice, as the two services of the code do. `AppLoad` has a
report, its polls and its withdrawal as sections of their own; `late` are ids under which a report
found the condition variable of a waiter that was through and stays behind for ever.

### Packages, KMessage, Users, Listing, Infos, ThreadInfos, Descriptors

`Packages` has the tree in memory and the disk apart, and a tree that is rebuilt without data at
each mount or request. Assumed: a place has one kind in all packages, no two packages give a file
the same time, a request names a package once. Uncovered places whose entry behind had no data
(`lost`) and settings are excepted, as the code leaves them. An attribute is written at any
position: at 0 it is made anew, elsewhere the file is opened with `ios::app`, so that what was
written lands at the end (`Appended`); if that is not where it was meant to be, the attribute is
`Displaced` and need not read back. `KMessage` is a function from offsets
to what was written, with headers, sizes, values and padding. `Users` models starts of the server
over users of the host that come and go, and one process of one thread that changes its ids.
`Listing` has the `get_next_...` calls with their cookies; a member that is there from the first
call to the last is told, except the last port of a team when its id follows the previous one's or
is 0 (`port.cpp:456`), which the property spells out. `Infos` has the counts of threads and
images; `ThreadInfos` names that are copied in halves by all who write or read them:
`register_thread_info` and `get_thread_info` take no lock, `rename_thread`, `set_thread_priority`
and `get_next_thread_info` take that of the thread. `met` and `mixed` are history: a reader that a
writer has met, and a name that two have written. A priority that is told is always the host's. `Descriptors` has the host's, the server's and the loader's table; the
numbers that the host gave out while another call for them was under way (`raced`) are left out of
its property: close tells the server late (`io.cpp:606`).

### Namespace, EventQueue, Signals, Joins

`Namespace` resolves paths over mounts, links, roots and current directories to host paths, and is
checked against a reference definition (`Walk` over `GuestTree`) for every request of bounded
length. `IsBlacklisted` hides `.hyclone` of the root volume from every name. What the property
leaves out is what the code leaves open: requests that climb above a changed root, links through
bind mounts, nodes that were moved. `EventQueue` has the records of a
guest's page, recycled while an `epoll_wait` is under way. `Signals` converts numbers, sets and
actions over the host's table; time goes on while a thread sleeps (up to `MaxSlept`), so that a
sleep that is restarted with its full length ends too late. `Joins` has the table by host id; a thread entered while somebody
still waits for its id (`shadowed`) loses its record to that waiter and is left out.

## 3. Runs

One run per module or group, with its safety properties, its refinement and, where it has some,
its liveness, and one per disagreement. The longest (`services`) takes two to four
minutes with two workers.

| Run | Instance | Distinct states | Shows |
|---|---|---|---|
| `user_mutex` | 3 threads, 2 mutexes (one may be disabled), 1 condition | 66,818 | exclusion, counting hand-offs under way; a free mutex with waiters always has somebody on the way to hand it over, and deques and table hold exactly the waiters; refinement of `LockService` |
| `user_sem` | 3 threads, 1 unit, 3 posts | 93,694 | the word never below -1, and -1 whenever somebody waits; refinement of `CountingSem`; a post that has entered the loader ends |
| `port` | 3 threads, capacity 2, 3 messages, close and delete | 479,687 | order and counters; nobody sleeps beside a message or a free place unless a notification is on its way |
| `workers` | 3 calls of all kinds, 1 slot | 48,644 | slots conserved; no free slot beside a parked call; all calls end if none waits under a mutex |
| `semaphore` | 3 threads, amounts 1 and 2, 3 releases, delete | 166,797 | books balance, nobody stranded |
| `registry` | 3 guests of two teams, 2 names, 2 ports or semaphores, debuggers, kills | 841,611 | ids and names sound, unshared names found; as long as no guest is careless, owning sets exact and nothing outlives a team |
| `teams` | a guest that forks a child and spawns a thread that execs, and the image after the exec; 3 descriptors for the 4; kills of the parent team | 786,070 | as long as nobody was crossed: nobody alive is refused or mistaken for another; nothing is left of a team that was not killed; nobody waits for an exec or a fork that will not end |
| `guests` | memory: a process with 3 pages, a range and files, and a parent with a child; threads: 3, one of them a target, 3 data; debugging: 2 debuggers | 690,574 | reference counts exact; areas, books and host agree; offsets follow splits; data conserved, sleepers have a reason; server and loader agree on the debugger, and every request to a team that lives is answered |
| `services` | see `Services.cfg`: two or three actors of each service | 990,345 | messages delivered; watchers and listeners told exactly; load reports; descriptors, packages, messages read back, users, listings, information |
| `files` | 2 names, 5 nodes, one of them hidden, one link or mount; 2 queues, 2 objects; 1 thread with 4 signals; 2 threads over 2 ids, 2 waiters | 314,560 | names lead where they should; records and epoll agree; the right handler runs and sleeps end for the right reason; running threads can be waited for |
| `port_close_wakes`, `teams_reuse` | 2 threads; 2 guests | - | **violations**, see below |

Why the bounds are enough. The races in question are between two or three parties: a waiter, a
notifier and one more that overtakes; or a deleter, a second deleter and a creator, which one
guest can be in turn. Three threads on a port of two places have the queue full, partly full
and empty with two sleepers on the same side, so that a notification can go to the wrong one.
One slot with three calls has more parked calls than increments. Two ports and two names
contain a name shared and an id freed and used again, which is as soon as the second creation.
Three pages are the least that an area can be split into three parts in; two directories over one
of the host share a watch; rings of two or three messages wrap; two versions of a package and a
second one between them in time hide and uncover a file. Two threads over two ids have an id used
again while a waiter is between join and erase. The theorems of section 5 do not depend on any of
these bounds.

Symmetry (of threads, of names) is used where only safety is checked. Deadlock is checked where
a stop would be an error (`user_mutex`, where somebody can always go on); elsewhere a state in
which all guests wait for each other's messages, or all have left, is what guests may do, and
the configurations say so.

History variables say when a promise applies. `careless` of `Registry` is set when a guest
deletes or gives away a port of another team, is killed in the middle of a call, or leaves while
a port is being given to it; when two threads of one team are at work on one id, which happens
without their fault when a semaphore gets the id of one that `delete_sem` has freed and not yet
taken out of the owning set; and when a team is prepared for a debugger, who then owns one of its
semaphores. `OwnersKept` speaks of behaviours without; after them the code leaves ports and
semaphores behind. `killed` of `Teams` is the set of teams killed: the
registration of a guest that is killed while it connects can outlive it, and a child whose parent
is killed before its fork call waits for ever. `crossed` of `Teams` (section 2) names the two
things after which the server takes guests for one another: descriptors that come back too early
(`teams_reuse` shows what follows) and an exec across another thread's call. Descriptors that are
used again once the server has forgotten their guest, and teams of several threads that exec, are
within the promise, and the properties say nothing of what comes after somebody was crossed, which
is why `teams` explores no further from there (`CONSTRAINT NotCrossed`). `met`, `mixed`, `torn`, `missed`, `hasty`,
`late`, `left`, `lost`, `raced`, `moved` and `shadowed` are explained with their modules.

### Violations

Each of these runs states what a comment of the code says, and TLC finds a behaviour of the
code that contradicts it.

* `port_close_wakes` (`ClosedUnblocksReaders`): `Port::Close` notifies without the mutex, so
  that a reader between its test and its sleep sleeps for ever on a closed port.
* `teams_reuse` (`SilentlyFails`): the hangup of one guest disconnects another that has got its
  descriptor.

## 4. Fairness

* `Port`, `Workers`: strong fairness of each thread's server-side steps. The server runs every
  call on a thread of its own and the host schedules all of them; strong rather than weak
  because a step needs a mutex that is free again and again, not all the time, and the host's
  mutexes do not starve a thread for ever. Timeouts are strongly fair for the same reason: a
  timer expires, and the thread then takes the mutex. Guests are not fair: nobody has to write,
  release or unlock.
* `UserSem`: strong fairness of the steps inside the loader, none for libroot.
* `MCGuests`: weak fairness of the signal handler of the debugged team and of each debugger's
  call in the server. Both are threads that the host schedules; nobody disables a step of theirs
  again and again. The reporting thread, the nub thread and the guests themselves are not fair.
* The other specifications are safety only. What must eventually happen is stated as an invariant
  that names the step which will make it happen: `NoStrandedWaiter` (a thread about to call
  unblock; a count that is too small), `NoSleeper`, `NobodyWaitsInVain` (a hangup or a fork call
  that is still to be served), `LoadReported` (a report that still polls), `ReaderNotStranded`.

## 5. Proofs

Every theorem holds for every value of the constants that satisfies the named assumption of its
module. Each rests on an inductive invariant, with the usual three facts: it holds initially,
every step preserves it, it implies the property. TLC has checked each invariant on a small
instance before. Recursive functions over numbers (the walks over free ids and over the users of
a file, the lists of objects selected or reported, the messages of an event) are reasoned about by
the least number at which a claim would fail. Where a module shares a run with others its theorem
is about its own behaviours (`ListingSpec`, `UsersSpec`, ...), which is what the run moves by
`part`.

| Theorem | Statement | Invariant and argument |
|---|---|---|
| `UserMutexProofs!TypeCorrect` | `[]TypeOK` | type invariant alone |
| `UserMutexProofs!ExclusionCorrect` | `[]MutualExclusion` | `Inductive`: exclusion is kept by the word only, so `OwnedIsLocked` (whoever owns, or has been handed, a mutex that is not disabled finds LOCKED set) is needed; to know that a hand-off goes to somebody who waits for that word, and to one only, `QueueOK`; and `FrameOK` for what each place in a call says of its words |
| `UserMutexProofs!NobodyStrandedCorrect` | `[]NobodyStranded` | `Unstranded`: the property counts on the WAITING bit to bring the next unlocker into the loader, so `FlagsOK` says when the bit must be set, `WaitersQueued` that whoever waits and has not been notified is in its deque, `TableOK` that the deque is found by the table |
| `UserMutexProofs!MutexImplements` | `Spec => ImplementsLockService` | each step leaves the owners of the mutexes that are never disabled alone, gives a free one to one thread or takes one from its owner (`ServiceStep`); that it was free is `MutualExclusion` before the step |
| `UserSemProofs!UserSemQueue` | `[](TypeOK /\ WaitersMarked /\ QueuedOnce)` | `USInductive` adds what a thread that holds the table lock knows: a word it has read as -1 is still -1, a deque it has seen empty is empty |
| `UserSemProofs!UserSemImplements` | `Spec => ImplementsCountingSem` | each step is a post, a take or a stutter under `avail = max(sem, 0) + number of notified waiters`; hand-overs change the second term by one because the head of the deque is not notified yet |
| `PortProofs!PortTypeCorrect`, `PortFirstInFirstOut` | `[]TypeOK`, `[]FirstInFirstOut` | a thread about to queue a message holds the lock and has found a free place; accepted is taken followed by the queue |
| `PortProofs!PortNoSleeper` | `[]NoSleeper` | "one sleeper, one message" is not inductive, since one notification may be taken by a call that does not use it: `MessagesSpokenFor` and `RoomSpokenFor` count the messages (places) against the calls awake and on their way to them; finite `Thread` for the counting |
| `SemaphoreProofs!SemaphoreTypeCorrect`, `SemaphoreConserved` | `[]TypeOK`, `[]Conserved` | critical sections exclude each other; the number of waiting calls changes by one where `_waitCount` does |
| `SemaphoreProofs!SemaphoreNeverOverdrawn`, `SemaphoreStrandsNobody` | `Spec => []NeverOverdrawn`, `Spec => []NoStrandedWaiter`, assuming `PositiveInts` (all amounts fit an int) | a thread that leaves its wait with enough units holds the lock until it has taken them; `SleepOK` carries what the test found over to the sleep. Without the assumption both are false: an amount beyond an int becomes negative |
| `WorkersProofs!WorkersTypeCorrect`, `WorkersConserveSlots` | `[]TypeOK`, `[]SlotsConserved` | every increment and decrement goes with one call entering or leaving the set of holders; a woken call holds the mutex under which its permit was seen |
| `WorkersProofs!WorkersNoIdleSlot` | `[]NoIdleSlot` | `SlotsSpokenFor`: while somebody is parked there are at most as many free slots as threads up at the gate, since each increment brings a notification and a notified thread stays up until it takes a slot or finds none |
| `RegistryProofs!RegistryTypeCorrect`, `RegistryNamesResolve` | `[]TypeOK`, `[](IdsSound /\ NamesResolve)` | `AddSpec`: the id table never gives out an id in use (least element of the free ids); a delete that hits another port than it looked up still removes that port's own name |
| `RegistryProofs!RegistryFinds` | `[]FoundUnlessShared` | `SharedOK` (two registered ports with one name are both in `shared`) shows that removing a name never hits an unshared port |
| `RegistryProofs!RegistryOwnersKept` | `Spec => []OwnersKept` | while nobody was careless: what each place of a call says of the port or semaphore it is about (`PortCallsOK`, `SemCallsOK`), and that an object missing from, or too many in, an owning set is the object of such a call (`PortOwnersOK`, `SemOwnersOK`); two threads of a team are at work on different ids (`PortsAlone`, `SemsAlone`). A team may have any number of threads |
| `GuestProofs!ThreadsConserveData`, `ThreadsSleepWithReason` | `[]DataConserved`, `[]SleepersHaveReason` | `ThreadsInductive`: what a call found at its test holds until it sleeps, and while it does (`TestHolds`), as whoever changes the place notifies; a blocked thread's `wait_status` stays armed until it is answered (`BlockedArmed`) |
| `GuestProofs!AppLoadReported` | `AppLoadSpec => []LoadReported` | per process id: a condition variable is there exactly while somebody waits (`CondOK`), reports are of the process that has the id (`ReportsOK`), and a pending report has somebody who will take it back (`PendOK`), which the reuse of the id needs |
| `GuestProofs!JoinsCorrect` | `JoinsSpec => []JoinsAgree` | the living have different ids (`TidsOK`), a record is of the thread that had the id last (`ObjectsOK`), a waiter that has joined holds no id of a running thread but those entered behind its back (`JoinersOK`) |
| `GuestProofs!DebuggersAgree` | `DebuggingSpec => []RequestsAgree` | the request lock is held from request to answer (`LockOK`, `RequestOK`); the handler works on that request (`HandlerOK`); a debugger whose installation has worked and that the server has not entered yet is *granted*: at most one is, it owns the nub port, and the loader has it (`GrantOK`, `InstalledOK`), wherever the grant is on its way (handler, answer, caller) |
| `TeamsProofs!TeamsServeAsSelf`, `TeamsLeaveNothing`, `TeamsNeverWaitInVain` | `Spec => []ServedAsSelf`, `[]NothingLeft`, `[]NobodyWaitsInVain` | `~crossed => TeamsInductive`, for any family of guests, teams of any number of threads, and any number of descriptors: of the guests with one thread id one is active, and which (`FamilyOK`); what each place of a call and of a hangup says of its guest (`GuestsOK`); the tables hold exactly those who are connected and have not left, or somebody is at a place from which he still takes them out, and of two guests that had one id at most one is still to be taken out (`TablesOK` with `OneLeft`); a flag for an exec or a fork has somebody who will clear it (`WaitOK`, `ExecBy`, `ForkOK`) |
| `TeamsProofs!InfosCorrect` | `InfosSpec /\ ThreadInfosSpec => []InfosAgree` | the counts are the numbers of threads and images but for teams that a fork or an exec has touched (`CountsKept`), and a fork under way knows its parent (`ForksKnown`); a name that nobody is copying in is of one writer unless two have met, and a reader that met no writer has the first half of the name that is there (`NameWhole`); the priority kept is the one the host accepted last (`PriorityKept`) |
| `RegistryProofs!ListingsComplete` | `ListingSpec => []ListingComplete` | what has been told lies below the cookie, and whoever stays and has not been told lies at or above it |
| `RegistryProofs!UsersKept` | `UsersSpec => []UsersAgree` | the maps are those computed from the users loaded (`MapsOK`), and the guest's files hold exactly these and the server's own users (`EtcOK`); an id of a map is the host's unless the host has it already and the server not yet (`IdsOK`, `GroupsOK`), and a call under way knows what to set at the host (`SettingOK`) |
| `RegistryProofs!AreaRefsExact` | `AddressSpaceSpec => []RefsExact` | ids in use lie below the next one, as do the files; areas of two processes are different ones; the count of a file is the number of its areas, and the disk has the files with a count. Each operation of `Areas` (make, clone, split, resize, fork, exit) has a lemma on what it does to the number of areas of a file |
| `GuestProofs!SignalsCorrect` | `SignalsSpec => []SignalsHandled` | the host's action of a signal is the image of the guest's under the conversion, but for the one signal whose sigaction is under way; the conversions of numbers, sets and actions are inverse (`SignalsAssumption`) |
| `GuestProofs!DescriptorsAgree` | `DescriptorsSpec => []HeldAgrees` | a call knows which numbers it is at work on (several, for one that opens several), and is alone on each but for `raced`; a number that nobody is at work on is the same in the three tables |
| `GuestProofs!EventQueuesAgree` | `EventQueueSpec => []QueueAgrees` | the free list has no record twice and none in use, and an entry of epoll points to the record of its object, after every prefix of the list that a call selects or reports |
| `PortProofs!ListenersAreTold` | `NotificationsSpec => []ListenersTold` | each listener is once in the list of an object, with the flags that he wants and has not taken back; cutting an event's listeners into messages puts every one at one place of each of the two services' messages |
| `WorkersProofs!MessagesAreDelivered` | `MessagingSpec => []MessagesDelivered` | `MessagingInductive`: the areas of the list are numbered by their order; the commands of an area lie in the order of the ring, none over another, and are the messages after those of the areas before it; what the reader took and what lies in the areas are together what was sent. An area is locked by one party, its counter says who else counted in, and the semaphore has no unit while somebody has the area; for a reader that sleeps beside a command a unit of the counter is there or the sender is on his way to release it |

Assumptions on constants, beyond non-emptiness and types: `PortAssumption`, `TeamsAssumption`,
`AreasAssumption`, `UsersAssumption` and `MessagingAssumption` have finite sets of threads, guests,
processes, users and area ids. Names that stand for "none" are apart from the things they
are not (`ThreadsAssumption`, `DebuggingAssumption`, `JoinsAssumption`, `DescriptorsAssumption`,
`EventQueueAssumption`, `NotificationsAssumption`). `FamilyAssumption` is what the host guarantees of
pids and thread ids. `SignalsAssumption` has the table of `signal_values.h` without a number twice,
emulated signals below the real-time ones of the host. `UsersAssumption` has different numbers for
the users of the host, and the server's own users below them. `MessagingAssumption` has the sizes
of areas and headers as multiples of 4, as the code's are. TLC evaluates all of them in the
runs. `PositiveInts` is the hypothesis of the theorems that name it, which are false without. The
theorems whose properties speak of a history variable (`~careless`, `~crossed`, `killed`, `raced`,
`met`, ...) promise nothing once it is set; that is part of the property, which the runs check in
the same form.

A case that the proof of `SignalsCorrect` could not settle was a fault of the model: the conversion
of an action had two alternatives of a CASE that were both true for a handler that is ignored, so
that TLC's choice of the first hid what the definition left open. It is an IF in the order of the
code now, and the same was done in `EventQueue` and `KMessage`. The proof of `MessagesAreDelivered`
needed a `MessagingAssumption` stronger than types: with a header whose size is no multiple of 4
the check of a command's offset refuses what the code itself has put there.

What stays only model-checked, and why:

* liveness: `PostEnds`, `CallsEnd`, `RequestsAnswered`; fairness and ENABLED are outside the prover;
* `MessageReadsBack` (layout of a buffer of any number of fields), `NamesLead` (the resolution of
  a path against the reference `Walk`) and `PackagesAgree` (a tree built up from the lists of
  packages) compare two definitions that both run over data of any length or depth. They
  would need an induction whose claim is about all data at once, with an invariant for every
  intermediate value; none of them depends on an interleaving, and TLC enumerates the
  data of bounded length;
* `WatchersTold`: the state of `NodeMonitor` is four books that change together in one step, and
  what can go wrong is again in the data of one step (who listens to which node with which flags);
* `AreasBooked` and `OffsetsAgree` relate the books page by page; beyond `RefsExact` an invariant
  needs, for every call over a list of pieces, what is true after each of them of the pages of the
  others. It has not been worked out.

## 6. Plan

The models and the proofs of the earlier plans are there. Left: `AreasBooked` and `OffsetsAgree`
for all page counts, from the lemmas on `Areas` that `AreaRefsExact` rests on and a type
invariant of the pages; then `WatchersTold`.

Compositions worth having: `Workers` with `Port` (slots and message order together), `Teams`
with `Registry` (exec and reconnection with owned objects).

## 7. Not modelled

* Orders of locks. Calls take the locks of a process and of the system in both orders
  (`area.cpp:426` against disconnect), and so do `start_watching` (`server_vfs.cpp:354`) and
  mounting with the locks of the node monitor and of the file system. A model would confirm that
  they can block each other; there is no promise of the code to check, and the modules do not claim
  freedom from deadlock across objects.
* `loader_lock.cpp` (a table that grows without a lock, `loader_lock.cpp:10`), ids and thread-local
  storage of the loader: small tables.
* What a failed copy to the guest loses: `read_port_etc` has taken the message out before it copies
  it (`port.cpp:686`).
* The start of a guest, the loader's path functions (of which only the reverse one is called),
  sockets, ioctls, timers, clocks, audio and other calls that translate into one call of the host
  and keep no state.
* Readers of package files (`libhpkg`, `libhpkg_old`): a file format, in one thread. The build
  files for libroot and the runtime loader are for code that is not here; the PipeWire adapter of
  `docs/` has no source in the repository.
